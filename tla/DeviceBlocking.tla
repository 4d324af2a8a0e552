-------------------------- MODULE DeviceBlocking --------------------------
(***************************************************************************)
(* Device blocking as a whole: the handlers of FirewallService, the two    *)
(* address reconcilers and their lock, over the shared database and kernel *)
(* sets, with the network changing underneath and the backend stopping and *)
(* starting again at any moment.                                           *)
(***************************************************************************)
EXTENDS FirewallService, BlockedIpReconciliation, IpBindingLifecycle

vars == <<stateVars, firewallVars, recon, life, lockQueue>>

cycleVars == <<recon, life, lockQueue>>

TypeOK ==
    /\ StateTypeOK
    /\ FirewallTypeOK
    /\ ReconTypeOK
    /\ LifeTypeOK
    /\ lockQueue \in Seq(Reconcilers)

Init ==
    /\ StateInit
    /\ FirewallInit
    /\ ReconInit
    /\ LifeInit
    /\ lockQueue = <<>>

-----------------------------------------------------------------------------
(* The network, and what discovery makes of it.                            *)

NetworkFrame ==
    UNCHANGED <<policy, record, bindings, kernel, firewallVars, cycleVars>>

\* dnsmasq gives d an address that nobody else holds; a capture of the exchange
\* may confirm it at once.
LeaseGranted(d, ip) ==
    /\ ip # lease[d]
    /\ \A e \in Devices : lease[e] # ip
    /\ lease' = [lease EXCEPT ![d] = ip]
    /\ evidence' \in {evidence \ {d}, evidence \cup {d}}
    /\ NetworkFrame /\ UNCHANGED <<identity, deviceIp>>

\* d goes quiet and its lease runs out.
LeaseExpires(d) ==
    /\ lease[d] # NoIp
    /\ lease' = [lease EXCEPT ![d] = NoIp]
    /\ evidence' = evidence \ {d}
    /\ NetworkFrame /\ UNCHANGED <<identity, deviceIp>>

\* d's traffic puts it into the neighbour table or a capture window.
EvidenceSeen(d) ==
    /\ lease[d] # NoIp
    /\ evidence' = evidence \cup {d}
    /\ NetworkFrame /\ UNCHANGED <<identity, deviceIp, lease>>

EvidenceFades(d) ==
    /\ evidence' = evidence \ {d}
    /\ NetworkFrame /\ UNCHANGED <<identity, deviceIp, lease>>

\* What the identity validator can make of a device that has a lease.
Observable == {"direct", "proxy", "unconfirmed", "deferred"}

\* reconcileIdentityObservation: only a positive observation replaces the
\* trust in a confirmed or accepted proxy identity.
ReconcileIdentity(existing, observed) ==
    IF existing \in {"proxy", "accepted"} /\ observed \notin {"direct", "proxy"}
    THEN existing ELSE observed

\* DeviceDiscoverySyncService: one discovered device is merged into its row.
SyncDevice(d, observed) ==
    /\ boot = "up"
    /\ lease[d] # NoIp
    /\ identity' = [identity EXCEPT ![d] = ReconcileIdentity(@, observed)]
    /\ deviceIp' = [deviceIp EXCEPT ![d] = lease[d]]
    /\ NetworkFrame /\ UNCHANGED <<lease, evidence>>

-----------------------------------------------------------------------------
(* The backend stops: handlers, cycles and the in-memory lock are gone.    *)

Stop ==
    /\ req' = [r \in Requests |-> IdleRequest]
    /\ recon' = ReconOff
    /\ life' = LifeOff
    /\ lockQueue' = <<>>
    /\ boot' = "block"

\* Only the backend restarts: the kernel sets survive.
BackendCrash == Stop /\ UNCHANGED stateVars

\* The host restarts: the kernel sets are created empty.
HostReboot ==
    /\ Stop
    /\ blockedMacs' = {}
    /\ blockedIps' = {}
    /\ UNCHANGED <<database, network>>

-----------------------------------------------------------------------------

NewRequest ==
    /\ \E r \in Requests, d \in Devices :
         \/ \E from \in Addresses : StartBlock(r, d, from)
         \/ StartUnblock(r, d)
    /\ UNCHANGED cycleVars

NewQuotaRequest ==
    /\ \E r \in Requests, d \in Devices : StartQuotaBlock(r, d) \/ StartQuotaUnblock(r, d)
    /\ UNCHANGED cycleVars

Accept == (\E d \in Devices : AcceptUnconfirmedIdentity(d)) /\ UNCHANGED cycleVars

Handler == (\E r \in Requests : RequestStep(r)) /\ UNCHANGED cycleVars

HandlerFails == (\E r \in Requests : RequestFails(r)) /\ UNCHANGED cycleVars

Startup == StartupStep /\ UNCHANGED cycleVars

Recon == boot = "up" /\ ReconStep /\ UNCHANGED <<firewallVars, life>>

Life == boot = "up" /\ LifeStep /\ UNCHANGED <<firewallVars, recon>>

CycleFails ==
    /\ UNCHANGED firewallVars
    /\ \/ ReconFails /\ UNCHANGED life
       \/ LifeFails /\ UNCHANGED recon

LeaseChange == \E d \in Devices : LeaseExpires(d) \/ \E ip \in Ips : LeaseGranted(d, ip)

EvidenceChange == \E d \in Devices : EvidenceSeen(d) \/ EvidenceFades(d)

Sync == \E d \in Devices, observed \in Observable : SyncDevice(d, observed)

Next ==
    \/ NewRequest \/ NewQuotaRequest \/ Accept
    \/ Handler \/ Startup \/ Recon \/ Life
    \/ HandlerFails \/ CycleFails \/ BackendCrash \/ HostReboot
    \/ LeaseChange \/ EvidenceChange \/ Sync

Spec == Init /\ [][Next]_vars

\* The event loop runs every handler, timer and startup stage to its end: each
\* command has a timeout, so no await is for ever.  Nothing obliges clients to
\* send requests, the network to change or anything to fail.
Fairness ==
    /\ WF_vars(Startup)
    /\ WF_vars(Recon)
    /\ WF_vars(Life)
    /\ \A r \in Requests : WF_vars(RequestStep(r) /\ UNCHANGED cycleVars)

-----------------------------------------------------------------------------
(* Safety.                                                                 *)

\* Two reconcilers never work on the bindings at the same time, whatever
\* fails or restarts (withIpBindingMutationLock).
ReconcilersExclude == recon.pc \in ReconIdle \/ life.pc \in LifeIdle

\* Positive evidence, in a lease snapshot, that d no longer answers at ip.
Refutes(leases, d, ip) ==
    \/ leases[d] \notin {ip, NoIp}
    \/ \E e \in Devices \ {d} : leases[e] = ip

\* An address binding ends only by an explicit unblock of its device, or in a
\* reconciler whose lease snapshot shows the device at another address or
\* another MAC at this one.  A device that goes quiet, a lease that runs out
\* and a failed or restarted cycle never end it (PrismaBlockedDeviceRepository,
\* both reconcilers).
BindingEndJustified(d, ip) ==
    \/ \E r \in Requests : /\ req[r].pc = "release" /\ req'[r] = IdleRequest
                           /\ req[r].device = d
                           /\ req[r].op \in Unblocking
    \/ recon.pc \notin ReconIdle /\ Refutes(recon.leases, d, ip)
    \/ life.pc \notin LifeIdle /\ Refutes(life.leases, d, ip)

BindingsEndOnEvidence ==
    [][\A b \in bindings \ bindings' : BindingEndJustified(b[1], b[2])]_vars

\* When the backend comes up, the kernel sets are exactly what the stored
\* policies ask for, whatever a crash had interrupted and whether or not the
\* sets survived it (FirewallService.reconcile).
StartupMatchesPolicy ==
    [][boot # "up" /\ boot' = "up" =>
         blockedMacs' = DesiredMacs' /\ blockedIps' = DesiredIps']_vars

\* While it comes up, no device that the policies ask to block and the kernel
\* blocks is let through, not even for one step.
StartupKeepsDesired ==
    [][boot # "up" /\ ~HostReboot =>
         /\ blockedMacs \cap DesiredMacs \subseteq blockedMacs'
         /\ blockedIps \cap DesiredIps \subseteq blockedIps']_vars

-----------------------------------------------------------------------------
(* Liveness, once requests, failures and the network leave the system in   *)
(* peace.                                                                  *)

\* The network confirms where this blocked, proxy-backed device is.
Located(d) ==
    /\ d \in policy /\ ProxyBacked(identity[d])
    /\ lease[d] # NoIp /\ d \in evidence

\* Blocking follows the device: in the end every blocked proxy-backed device is
\* blocked at the address where the network confirms it, and stays so, although
\* each reconciler releases addresses for reasons of its own.
ConvergesToBlocked == <>[](\A d \in Devices : Located(d) => lease[d] \in blockedIps)

\* Nobody inherits a block: in the end the address of a device that is neither
\* blocked by policy nor recorded as bound to it is free, be it left over from
\* its previous holder, a crash, a failure or a race.
ConvergesToReleased ==
    <>[](\A d \in Devices :
           lease[d] \in blockedIps => d \in policy \/ <<d, lease[d]>> \in ActiveBindings)

-----------------------------------------------------------------------------
(* What the documentation promises and the code does not keep.             *)

\* BlockedIpReconciliationService.ts:84-85: the kernel set is kept aligned only
\* with proxy-backed blocked devices, so without quota blocks the address of a
\* device that is not blocked is free in the end.
AlignedWithPolicy ==
    <>[](\A d \in Devices : lease[d] \in blockedIps => d \in policy)

\* Section 13.8 of the implementation spec: an element of blocked_macs is "the
\* permanent block record, removed only by explicit unblock".
MacEndsByUnblock ==
    [][\A d \in blockedMacs \ blockedMacs' : d \notin policy \/ HostReboot]_vars

\* The same sentence, the other way round: an explicit unblock that ends without
\* an error has removed the element.
UnblockEndsMac ==
    [][\A r \in Requests :
         req[r].pc = "release" /\ req[r].op = "unblock" /\ ReleaseBlock(r) =>
             req[r].device \notin blockedMacs']_vars

\* IpBindingLifecycleService.ts:96-97: "Keep the kernel IP block until no active
\* binding remains for that IP."
UnblockedWhenUnbound ==
    [][LifeUnblock => \A b \in ActiveBindings : b[2] # life.from]_vars

\* README.md:415: the enforcement path "must reject attempts that would block
\* the administrator's own current device": no block of d is accepted from the
\* address that d holds.
OwnDeviceRefused ==
    [][\A r \in Requests, d \in Devices :
         lease[d] # NoIp => ~StartBlock(r, d, lease[d])]_vars

=============================================================================
