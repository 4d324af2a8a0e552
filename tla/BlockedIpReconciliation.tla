---------------------- MODULE BlockedIpReconciliation ----------------------
(***************************************************************************)
(* BlockedIpReconciliationService: every ten seconds, under the            *)
(* reconcilers' lock, it takes a snapshot, works out which addresses ought *)
(* to be blocked, releases blocked addresses that the snapshot proves      *)
(* wrong, and installs the ones that are missing.                          *)
(*                                                                         *)
(* The five reads of the snapshot are started together and the model takes *)
(* them in one step.  Policies are read again one by one afterwards, and   *)
(* the kernel set once more before the installs, as the code does.         *)
(***************************************************************************)
EXTENDS BlockingState, IpBindingMutationLock

VARIABLE recon

\* Work items: an address and the device (at most one) whose binding or
\* record goes with it.
Items == [owner : SUBSET Devices, ip : Ips]
NoItem == [owner |-> {}, ip |-> NoIp]

ReconIdle == {"off", "waiting"}
ReconSteps == {"plan", "release", "releaseDb", "install", "record", "bind"}

ReconOff     == [pc |-> "off"]
ReconWaiting == [pc |-> "waiting"]
ReconRunning ==
    [pc : ReconSteps,
     leases : [Devices -> Addresses],  \* snapshot
     blocked : SUBSET Ips,             \* snapshot, until the plan is made
     bound : SUBSET (Devices \X Ips),  \* snapshot, until the plan is made
     todo : SUBSET Items,              \* what the current loop has left
     expected : SUBSET Items,          \* expectedBlockedIps
     item : Items \cup {NoItem}]       \* item between two awaits of one turn

ReconTypeOK == recon \in {ReconOff, ReconWaiting} \cup ReconRunning

ReconInit == recon = ReconOff

-----------------------------------------------------------------------------
(* Decisions, on a snapshot.                                               *)

\* Devices that a blocked address should follow: proxy-backed, with a lease
\* that a neighbour entry, a capture or the recorded proxy confirms.
\* Faulty variant, for the mutation runs: accepted identities are forgotten.
CandidatesConfirmedOnly ==
    {[owner |-> {d}, ip |-> lease[d]] :
        d \in {e \in evidence : identity[e] = "proxy" /\ lease[e] # NoIp}}

Candidates ==
    {[owner |-> {d}, ip |-> lease[d]] :
        d \in {e \in evidence : ProxyBacked(identity[e]) /\ lease[e] # NoIp}}

ItemIps(items) == {i.ip : i \in items}

\* Faulty variant, for the mutation runs: a missing lease counts as a move.
MovedOrQuiet(leases, owner, ip) == \E d \in owner : leases[d] # ip

\* Positive evidence that the device bound to ip has another address now.
Moved(leases, owner, ip) == \E d \in owner : leases[d] \notin {ip, NoIp}

\* Faulty variant, for the mutation runs: only bound addresses are given back.
ReassignedFromOwner(leases, owner, ip) ==
    owner # {} /\ \E d \in Devices \ owner : leases[d] = ip

\* Positive evidence that ip belongs to somebody else now.
Reassigned(leases, owner, ip) == \E d \in Devices \ owner : leases[d] = ip

\* bindingByIp keeps one binding of each address, in no particular order.
Owners(bound, ip) ==
    LET devices == {d \in Devices : <<d, ip>> \in bound}
    IN  IF devices = {} THEN {{}} ELSE {{d} : d \in devices}

-----------------------------------------------------------------------------

ReconFrame == UNCHANGED <<policy, identity, deviceIp, network>>

\* The timer, with the running flag down.
ReconTick ==
    /\ recon = ReconOff
    /\ recon' = ReconWaiting
    /\ Enqueue("recon")
    /\ UNCHANGED stateVars

ReconSnapshot ==
    /\ recon = ReconWaiting
    /\ Holds("recon")
    /\ recon' = [pc |-> "plan", leases |-> lease, blocked |-> blockedIps,
                 bound |-> ActiveBindings, todo |-> Candidates,
                 expected |-> {}, item |-> NoItem]
    /\ UNCHANGED <<stateVars, lockQueue>>

\* One device's policy is read; it counts only if it is blocked right now.
ReconReadPolicy ==
    /\ recon.pc = "plan"
    /\ \E i \in recon.todo :
         recon' = [recon EXCEPT !.todo = @ \ {i},
                                !.expected = IF i.owner \subseteq policy THEN @ \cup {i} ELSE @]
    /\ UNCHANGED <<stateVars, lockQueue>>

\* Blocked addresses that are not expected go only on positive evidence.
ReconPlanReleases ==
    /\ recon.pc = "plan" /\ recon.todo = {}
    /\ LET stale == recon.blocked \ ItemIps(recon.expected)
       IN  \E owner \in [stale -> SUBSET Devices] :
             /\ \A ip \in stale : owner[ip] \in Owners(recon.bound, ip)
             /\ recon' = [recon EXCEPT
                  !.pc = "release", !.blocked = {}, !.bound = {},
                  !.todo = {[owner |-> owner[ip], ip |-> ip] :
                              ip \in {a \in stale : \/ Moved(recon.leases, owner[a], a)
                                                    \/ Reassigned(recon.leases, owner[a], a)}}]
    /\ UNCHANGED <<stateVars, lockQueue>>

\* releaseIp: the kernel first, then the binding of the owner, if any.
ReconRelease ==
    /\ recon.pc = "release"
    /\ \E i \in recon.todo :
         /\ UnblockIp(i.ip)
         /\ recon' = IF i.owner = {}
                     THEN [recon EXCEPT !.todo = @ \ {i}]
                     ELSE [recon EXCEPT !.todo = @ \ {i}, !.pc = "releaseDb", !.item = i]
    /\ ReconFrame
    /\ UNCHANGED <<record, bindings, lockQueue>>

ReconReleaseDb ==
    /\ recon.pc = "releaseDb"
    /\ ReleaseBindings(recon.item.owner, recon.item.ip)
    /\ recon' = [recon EXCEPT !.pc = "release", !.item = NoItem]
    /\ ReconFrame
    /\ UNCHANGED <<record, kernel, lockQueue>>

\* getBlockedIps again: what is still missing.
ReconReread ==
    /\ recon.pc = "release" /\ recon.todo = {}
    /\ recon' = [recon EXCEPT !.pc = "install", !.expected = {},
                   !.todo = {i \in recon.expected : i.ip \notin blockedIps}]
    /\ UNCHANGED <<stateVars, lockQueue>>

ReconInstall ==
    /\ recon.pc = "install"
    /\ \E i \in recon.todo :
         /\ BlockIp(i.ip)
         /\ recon' = [recon EXCEPT !.todo = @ \ {i}, !.pc = "record", !.item = i]
    /\ ReconFrame
    /\ UNCHANGED <<record, bindings, lockQueue>>

ReconRecordDevice ==
    /\ recon.pc = "record"
    /\ ActivateRecords(recon.item.owner)
    /\ recon' = [recon EXCEPT !.pc = "bind"]
    /\ ReconFrame
    /\ UNCHANGED <<bindings, kernel, lockQueue>>

ReconRecordBinding ==
    /\ recon.pc = "bind"
    /\ BindIps(recon.item.owner, recon.item.ip)
    /\ recon' = [recon EXCEPT !.pc = "install", !.item = NoItem]
    /\ ReconFrame
    /\ UNCHANGED <<record, kernel, lockQueue>>

ReconDone ==
    /\ recon.pc = "install" /\ recon.todo = {}
    /\ recon' = ReconOff
    /\ Resolve("recon")
    /\ UNCHANGED stateVars

\* A read, a query or a command fails: the cycle is abandoned where it is.
ReconFails ==
    /\ recon # ReconOff
    /\ recon' = ReconOff
    /\ Resolve("recon")
    /\ UNCHANGED stateVars

ReconStep ==
    \/ ReconTick \/ ReconSnapshot \/ ReconReadPolicy \/ ReconPlanReleases
    \/ ReconRelease \/ ReconReleaseDb \/ ReconReread
    \/ ReconInstall \/ ReconRecordDevice \/ ReconRecordBinding \/ ReconDone

=============================================================================
