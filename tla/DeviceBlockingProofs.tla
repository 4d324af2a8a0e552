----------------------- MODULE DeviceBlockingProofs -----------------------
(***************************************************************************)
(* Proofs about DeviceBlocking, for every set of devices, addresses and    *)
(* handlers:                                                               *)
(*                                                                         *)
(*  1. the state is well typed (TypeCorrect);                              *)
(*  2. the reconcilers exclude each other (MutualExclusion);               *)
(*  3. bindings end on evidence only (BindingsEndOnlyOnEvidence);          *)
(*  4. startup rebuilds the kernel sets (StartupRebuilds) and never lets a *)
(*     blocked device through (StartupNeverLetsThrough);                   *)
(*  5. a blocked device that is followed to a new address stays blocked,   *)
(*     unless a handler meddles (FollowingNeverLetsThrough, of MCSpec).    *)
(*                                                                         *)
(* Each part states its inductive invariant and uses those before it.      *)
(***************************************************************************)
EXTENDS MCDeviceBlocking, SequenceTheorems, TLAPS

-----------------------------------------------------------------------------
(* Typing: one lemma per component, then the composition.                  *)

\* A handler that is not idle has its copy of the device row.
LEMMA BusyWhenNotIdle ==
  ASSUME FirewallTypeOK, NEW r \in Requests, req[r].pc # "idle"
  PROVE  req[r] \in BusyRequests
  BY DEF FirewallTypeOK, IdleRequest

\* Going on to the next await keeps the handlers well typed.
LEMMA GoToType ==
  ASSUME FirewallTypeOK, NEW r \in Requests, req[r].pc # "idle",
         NEW step \in RequestSteps, GoTo(r, step)
  PROVE  req' \in [Requests -> {IdleRequest} \cup BusyRequests]
  <1>1. req[r] \in BusyRequests
    BY BusyWhenNotIdle
  <1>2. [req[r] EXCEPT !.pc = step] \in BusyRequests
    BY <1>1 DEF BusyRequests
  <1>. QED  BY <1>2 DEF GoTo, FirewallTypeOK

\* So does answering the request.
LEMMA FinishType ==
  ASSUME FirewallTypeOK, NEW r \in Requests, Finish(r)
  PROVE  req' \in [Requests -> {IdleRequest} \cup BusyRequests]
  BY DEF Finish, FirewallTypeOK

\* A started handler copies well-typed columns of its device row.
LEMMA StartType ==
  ASSUME StateTypeOK, FirewallTypeOK, NEW r \in Requests, NEW d \in Devices,
         NEW op \in Blocking \cup Unblocking, NEW step \in RequestSteps,
         Start(r, op, d, step)
  PROVE  StateTypeOK' /\ FirewallTypeOK'
  <1>1. [pc |-> step, op |-> op, device |-> d, kind |-> identity[d],
         ip |-> deviceIp[d], ips |-> {}] \in BusyRequests
    BY DEF BusyRequests, StateTypeOK
  <1>2. req' \in [Requests -> {IdleRequest} \cup BusyRequests]
    BY <1>1 DEF Start, FirewallTypeOK
  <1>. QED  BY <1>2 DEF Start, FirewallTypeOK, StateTypeOK, stateVars

\* Every step of a handler keeps rows, kernel sets and handlers well typed; a
\* hidden device is blocked only at an address that is not NULL.
LEMMA RequestStepType ==
  ASSUME StateTypeOK, FirewallTypeOK, NEW r \in Requests, RequestStep(r)
  PROVE  StateTypeOK' /\ FirewallTypeOK'
  <1>. USE DEF database, kernel, network, stateVars, firewallVars, At
  <1>1. CASE PersistPolicy(r)
    <2>1. req[r] \in BusyRequests
      BY <1>1, BusyWhenNotIdle DEF PersistPolicy
    <2>2. req' \in [Requests -> {IdleRequest} \cup BusyRequests]
      BY <1>1, GoToType DEF PersistPolicy, RequestSteps, UnblockStep
    <2>. QED  BY <1>1, <2>1, <2>2 DEF PersistPolicy, StateTypeOK, FirewallTypeOK, BusyRequests
  <1>2. CASE ReadPolicy(r)
    <2>1. req' \in [Requests -> {IdleRequest} \cup BusyRequests]
      BY <1>2, GoToType, FinishType DEF ReadPolicy, RequestSteps, UnblockStep
    <2>. QED  BY <1>2, <2>1 DEF ReadPolicy, StateTypeOK, FirewallTypeOK
  <1>3. CASE ReadActiveIps(r)
    <2>1. req[r] \in BusyRequests
      BY <1>3, BusyWhenNotIdle DEF ReadActiveIps
    <2>2. PICK ips, step : /\ step \in {"release", "kernel"} /\ ips \subseteq Ips
                           /\ req' = [req EXCEPT ![r].ips = ips, ![r].pc = step]
      <3>1. ActiveIps(req[r].device) \subseteq Ips
        BY DEF ActiveIps
      <3>2. {req[r].ip} \ {NoIp} \subseteq Ips
        BY <2>1 DEF BusyRequests, Addresses
      <3>. QED  BY <1>3, <3>1, <3>2 DEF ReadActiveIps
    <2>3. [req[r] EXCEPT !.ips = ips, !.pc = step] \in BusyRequests
      BY <2>1, <2>2 DEF BusyRequests, RequestSteps
    <2>4. req' \in [Requests -> {IdleRequest} \cup BusyRequests]
      BY <2>2, <2>3 DEF FirewallTypeOK
    <2>. QED  BY <1>3, <2>4 DEF ReadActiveIps, StateTypeOK, FirewallTypeOK
  <1>4. CASE KernelBlock(r)
    <2>1. req[r] \in BusyRequests
      BY <1>4, BusyWhenNotIdle DEF KernelBlock
    <2>2. req' \in [Requests -> {IdleRequest} \cup BusyRequests]
      BY <1>4, GoToType DEF KernelBlock, RequestSteps
    <2>3. blockedMacs' \subseteq Devices /\ blockedIps' \subseteq Ips
      BY <1>4, <2>1 DEF KernelBlock, BlockMac, BlockIp, StateTypeOK, BusyRequests, Addresses
    <2>. QED  BY <1>4, <2>2, <2>3 DEF KernelBlock, StateTypeOK, FirewallTypeOK
  <1>5. CASE NoEnforcementPath(r)
    BY <1>5, FinishType DEF NoEnforcementPath, StateTypeOK, FirewallTypeOK
  <1>6. CASE KernelUnblockMac(r)
    <2>1. req' \in [Requests -> {IdleRequest} \cup BusyRequests]
      BY <1>6, GoToType DEF KernelUnblockMac, RequestSteps
    <2>. QED  BY <1>6, <2>1 DEF KernelUnblockMac, UnblockMac, StateTypeOK, FirewallTypeOK
  <1>7. CASE KernelUnblockIp(r)
    <2>1. req[r] \in BusyRequests
      BY <1>7, BusyWhenNotIdle DEF KernelUnblockIp
    <2>2. PICK rest, step : /\ step \in {"release", "kernel"} /\ rest \subseteq Ips
                            /\ req' = [req EXCEPT ![r].ips = rest, ![r].pc = step]
      BY <1>7, <2>1 DEF KernelUnblockIp, BusyRequests
    <2>3. [req[r] EXCEPT !.ips = rest, !.pc = step] \in BusyRequests
      BY <2>1, <2>2 DEF BusyRequests, RequestSteps
    <2>4. req' \in [Requests -> {IdleRequest} \cup BusyRequests]
      BY <2>2, <2>3 DEF FirewallTypeOK
    <2>. QED  BY <1>7, <2>4 DEF KernelUnblockIp, UnblockIp, StateTypeOK, FirewallTypeOK
  <1>8. CASE RecordDevice(r)
    <2>1. req[r] \in BusyRequests
      BY <1>8, BusyWhenNotIdle DEF RecordDevice
    <2>2. req' \in [Requests -> {IdleRequest} \cup BusyRequests]
      BY <1>8, GoToType, FinishType DEF RecordDevice, RequestSteps
    <2>. QED  BY <1>8, <2>1, <2>2 DEF RecordDevice, ActivateRecords, StateTypeOK, FirewallTypeOK, BusyRequests
  <1>9. CASE RecordBinding(r)
    <2>1. req[r] \in BusyRequests
      BY <1>9, BusyWhenNotIdle DEF RecordBinding
    <2>2. req' \in [Requests -> {IdleRequest} \cup BusyRequests]
      BY <1>9, FinishType DEF RecordBinding
    <2>3. bindings' \subseteq Devices \X Ips
      BY <1>9, <2>1 DEF RecordBinding, BindIps, StateTypeOK, BusyRequests, Addresses
    <2>. QED  BY <1>9, <2>2, <2>3 DEF RecordBinding, StateTypeOK, FirewallTypeOK
  <1>10. CASE ReleaseBlock(r)
    <2>1. req' \in [Requests -> {IdleRequest} \cup BusyRequests]
      BY <1>10, FinishType DEF ReleaseBlock
    <2>. QED  BY <1>10, <2>1 DEF ReleaseBlock, DeactivateRecord, StateTypeOK, FirewallTypeOK
  <1>. QED
    BY <1>1, <1>2, <1>3, <1>4, <1>5, <1>6, <1>7, <1>8, <1>9, <1>10 DEF RequestStep

\* So does every step of FirewallService.reconcile.
LEMMA StartupStepType ==
  ASSUME StateTypeOK, FirewallTypeOK, StartupStep
  PROVE  StateTypeOK' /\ FirewallTypeOK'
  <1>. USE DEF database, kernel, network, stateVars, firewallVars
  <1>1. DesiredMacs \subseteq Devices
    BY DEF DesiredMacs, StateTypeOK
  <1>2. DesiredIps \subseteq Ips
    BY DEF DesiredIps, StateTypeOK, Addresses
  <1>3. CASE StartupBlock
    BY <1>1, <1>2, <1>3 DEF StartupBlock, BlockMac, BlockIp, StateTypeOK, FirewallTypeOK
  <1>4. CASE StartupBlocked
    BY <1>4 DEF StartupBlocked, StateTypeOK, FirewallTypeOK
  <1>5. CASE StartupUnblock
    BY <1>5 DEF StartupUnblock, UnblockMac, UnblockIp, StateTypeOK, FirewallTypeOK
  <1>6. CASE StartupDone
    BY <1>6 DEF StartupDone, StateTypeOK, FirewallTypeOK
  <1>. QED  BY <1>3, <1>4, <1>5, <1>6 DEF StartupStep

\* So does every step of BlockedIpReconciliationService.
LEMMA ReconStepType ==
  ASSUME StateTypeOK, ReconTypeOK, ReconStep
  PROVE  StateTypeOK' /\ ReconTypeOK'
  <1>. USE DEF database, kernel, network, stateVars
  <1>a. ASSUME recon.pc \in ReconSteps  PROVE recon \in ReconRunning
    BY <1>a DEF ReconTypeOK, ReconOff, ReconWaiting, ReconSteps
  <1>1. CASE ReconTick
    BY <1>1 DEF ReconTick, ReconTypeOK, StateTypeOK
  <1>2. CASE ReconSnapshot
    <2>1. Candidates \subseteq Items
      BY DEF Candidates, Items, StateTypeOK, Addresses
    <2>2. ActiveBindings \subseteq Devices \X Ips
      BY DEF ActiveBindings, StateTypeOK
    <2>3. recon' \in ReconRunning
      BY <1>2, <2>1, <2>2 DEF ReconSnapshot, ReconRunning, ReconSteps, StateTypeOK
    <2>. QED  BY <1>2, <2>3 DEF ReconSnapshot, ReconTypeOK, StateTypeOK
  <1>3. CASE ReconReadPolicy
    <2>1. recon \in ReconRunning
      BY <1>3, <1>a DEF ReconReadPolicy, ReconSteps
    <2>2. PICK todo, expected : /\ todo \subseteq Items /\ expected \subseteq Items
                                /\ recon' = [recon EXCEPT !.todo = todo, !.expected = expected]
      <3>1. PICK i \in recon.todo :
              recon' = [recon EXCEPT !.todo = recon.todo \ {i},
                          !.expected = IF i.owner \subseteq policy THEN recon.expected \cup {i}
                                       ELSE recon.expected]
        BY <1>3 DEF ReconReadPolicy
      <3>2. recon.todo \subseteq Items /\ recon.expected \subseteq Items
        BY <2>1 DEF ReconRunning
      <3>. QED  BY <3>1, <3>2
    <2>3. recon' \in ReconRunning
      BY <2>1, <2>2 DEF ReconRunning
    <2>. QED  BY <1>3, <2>3 DEF ReconReadPolicy, ReconTypeOK, StateTypeOK
  <1>4. CASE ReconPlanReleases
    <2>1. recon \in ReconRunning
      BY <1>4, <1>a DEF ReconPlanReleases, ReconSteps
    <2>2. PICK todo : /\ todo \subseteq Items
                      /\ recon' = [recon EXCEPT !.pc = "release", !.blocked = {}, !.bound = {},
                                                !.todo = todo]
      <3>. DEFINE stale == recon.blocked \ ItemIps(recon.expected)
                  refuted(owner) == {a \in stale : \/ Moved(recon.leases, owner[a], a)
                                                   \/ Reassigned(recon.leases, owner[a], a)}
                  items(owner) == {[owner |-> owner[ip], ip |-> ip] : ip \in refuted(owner)}
      <3>1. PICK owner \in [stale -> SUBSET Devices] :
              recon' = [recon EXCEPT !.pc = "release", !.blocked = {}, !.bound = {},
                                     !.todo = items(owner)]
        BY <1>4 DEF ReconPlanReleases
      <3>2. stale \subseteq Ips
        BY <2>1 DEF ReconRunning
      <3>3. items(owner) \subseteq Items
        BY <3>1, <3>2 DEF Items
      <3>. QED  BY <3>1, <3>3
    <2>3. recon' \in ReconRunning
      BY <2>1, <2>2 DEF ReconRunning, ReconSteps
    <2>. QED  BY <1>4, <2>3 DEF ReconPlanReleases, ReconTypeOK, StateTypeOK
  <1>5. CASE ReconRelease
    <2>1. recon \in ReconRunning
      BY <1>5, <1>a DEF ReconRelease, ReconSteps
    <2>2. PICK i \in recon.todo :
            \/ recon' = [recon EXCEPT !.todo = recon.todo \ {i}]
            \/ recon' = [recon EXCEPT !.todo = recon.todo \ {i}, !.pc = "releaseDb", !.item = i]
      BY <1>5 DEF ReconRelease
    <2>3. recon' \in ReconRunning
      <3>1. i \in Items /\ recon.todo \ {i} \in SUBSET Items
        BY <2>1, <2>2 DEF ReconRunning
      <3>2. CASE recon' = [recon EXCEPT !.todo = recon.todo \ {i}]
        BY <2>1, <3>1, <3>2 DEF ReconRunning
      <3>3. CASE recon' = [recon EXCEPT !.todo = recon.todo \ {i}, !.pc = "releaseDb", !.item = i]
        BY <2>1, <3>1, <3>3 DEF ReconRunning, ReconSteps
      <3>. QED  BY <2>2, <3>2, <3>3
    <2>. QED  BY <1>5, <2>3 DEF ReconRelease, ReconFrame, UnblockIp, ReconTypeOK, StateTypeOK
  <1>6. CASE ReconReleaseDb
    <2>1. recon \in ReconRunning
      BY <1>6, <1>a DEF ReconReleaseDb, ReconSteps
    <2>2. recon' \in ReconRunning
      BY <1>6, <2>1 DEF ReconReleaseDb, ReconRunning, ReconSteps
    <2>. QED  BY <1>6, <2>2 DEF ReconReleaseDb, ReconFrame, ReleaseBindings, ReconTypeOK, StateTypeOK
  <1>7. CASE ReconReread
    <2>1. recon \in ReconRunning
      BY <1>7, <1>a DEF ReconReread, ReconSteps
    <2>2. recon' \in ReconRunning
      BY <1>7, <2>1 DEF ReconReread, ReconRunning, ReconSteps
    <2>. QED  BY <1>7, <2>2 DEF ReconReread, ReconTypeOK, StateTypeOK
  <1>8. CASE ReconInstall
    <2>1. recon \in ReconRunning
      BY <1>8, <1>a DEF ReconInstall, ReconSteps
    <2>2. recon' \in ReconRunning
      <3>1. PICK i \in recon.todo :
              recon' = [recon EXCEPT !.todo = recon.todo \ {i}, !.pc = "record", !.item = i]
        BY <1>8 DEF ReconInstall
      <3>2. i \in Items /\ recon.todo \ {i} \in SUBSET Items
        BY <2>1, <3>1 DEF ReconRunning
      <3>. QED  BY <2>1, <3>1, <3>2 DEF ReconRunning, ReconSteps
    <2>3. blockedIps' \subseteq Ips
      BY <1>8, <2>1 DEF ReconInstall, BlockIp, ReconRunning, Items, StateTypeOK
    <2>. QED  BY <1>8, <2>2, <2>3 DEF ReconInstall, ReconFrame, BlockIp, ReconTypeOK, StateTypeOK
  <1>9. CASE ReconRecordDevice
    <2>1. recon \in ReconRunning
      BY <1>9, <1>a DEF ReconRecordDevice, ReconSteps
    <2>2. recon' \in ReconRunning
      BY <1>9, <2>1 DEF ReconRecordDevice, ReconRunning, ReconSteps
    <2>3. recon.item.owner \subseteq Devices
      BY <2>1 DEF ReconRunning, Items, NoItem
    <2>. QED  BY <1>9, <2>2, <2>3 DEF ReconRecordDevice, ReconFrame, ActivateRecords, ReconTypeOK, StateTypeOK
  <1>10. CASE ReconRecordBinding
    <2>1. recon \in ReconRunning
      BY <1>10, <1>a DEF ReconRecordBinding, ReconSteps
    <2>2. recon' \in ReconRunning
      BY <1>10, <2>1 DEF ReconRecordBinding, ReconRunning, ReconSteps
    <2>3. recon.item.owner \subseteq Devices /\ recon.item.ip \in Addresses
      BY <2>1 DEF ReconRunning, Items, NoItem, Addresses
    <2>4. bindings' \subseteq Devices \X Ips
      BY <1>10, <2>3 DEF ReconRecordBinding, BindIps, StateTypeOK, Addresses
    <2>. QED  BY <1>10, <2>2, <2>4 DEF ReconRecordBinding, ReconFrame, ReconTypeOK, StateTypeOK
  <1>11. CASE ReconDone
    BY <1>11 DEF ReconDone, ReconTypeOK, StateTypeOK
  <1>. QED
    BY <1>1, <1>2, <1>3, <1>4, <1>5, <1>6, <1>7, <1>8, <1>9, <1>10, <1>11 DEF ReconStep

\* The lease snapshot refutes the binding of every owner (there is at most one).
Justified(leases, owner, ip) == \A d \in owner : Refutes(leases, d, ip)

\* The lifecycle never blocks the NULL address, and the binding it works on is
\* refuted by its snapshot.
LifeInv ==
    /\ life.pc = "block" => life.to # NoIp
    /\ life.pc \in LifeSteps => Justified(life.leases, life.owner, life.from)

\* The lifecycle picks a binding only if its lease snapshot shows another
\* claimant, or the device at another address.
LEMMA LifeKeepsInv ==
  ASSUME LifeTypeOK, LifeInv, LifeStep
  PROVE  LifeInv'
  <1>a. ASSUME life.pc \in LifeSteps  PROVE life \in LifeRunning
    BY <1>a DEF LifeTypeOK, LifeOff, LifeWaiting, LifeSteps
  <1>1. CASE LifeTick \/ LifeDone
    BY <1>1 DEF LifeTick, LifeDone, LifeInv, LifeOff, LifeWaiting, LifeSteps
  <1>2. CASE LifeSnapshot
    BY <1>2 DEF LifeSnapshot, LifeInv, Justified
  <1>3. CASE LifeDecide
    <2>1. life \in LifeRunning
      BY <1>3, <1>a DEF LifeDecide, LifeSteps
    <2>2. PICK b \in life.todo :
            \/ /\ Claimed(b[1], b[2])
               /\ life' = [life EXCEPT !.pc = "release", !.todo = life.todo \ {b},
                             !.owner = {b[1]}, !.from = b[2], !.to = NoIp]
            \/ /\ Rebound(b[1], b[2])
               /\ life' = [life EXCEPT !.pc = "block", !.todo = life.todo \ {b},
                             !.owner = {b[1]}, !.from = b[2], !.to = life.leases[b[1]]]
            \/ life' = [life EXCEPT !.todo = life.todo \ {b}]
      BY <1>3 DEF LifeDecide
    <2>3. Claimed(b[1], b[2]) \/ Rebound(b[1], b[2]) => Justified(life.leases, {b[1]}, b[2])
      BY DEF Claimed, Rebound, Justified, Refutes
    <2>4. CASE life' = [life EXCEPT !.todo = life.todo \ {b}]
      BY <2>1, <2>4 DEF LifeInv, LifeRunning, Justified
    <2>5. CASE /\ Claimed(b[1], b[2])
               /\ life' = [life EXCEPT !.pc = "release", !.todo = life.todo \ {b},
                             !.owner = {b[1]}, !.from = b[2], !.to = NoIp]
      <3>1. /\ life'.pc = "release" /\ life'.leases = life.leases
            /\ life'.owner = {b[1]} /\ life'.from = b[2]
        BY <2>1, <2>5 DEF LifeRunning
      <3>. QED  BY <2>3, <2>5, <3>1 DEF LifeInv, Justified
    <2>6. CASE /\ Rebound(b[1], b[2])
               /\ life' = [life EXCEPT !.pc = "block", !.todo = life.todo \ {b},
                             !.owner = {b[1]}, !.from = b[2], !.to = life.leases[b[1]]]
      <3>1. /\ life'.pc = "block" /\ life'.leases = life.leases
            /\ life'.owner = {b[1]} /\ life'.from = b[2] /\ life'.to = life.leases[b[1]]
        BY <2>1, <2>6 DEF LifeRunning
      <3>2. life.leases[b[1]] # NoIp
        BY <2>6 DEF Rebound
      <3>. QED  BY <2>3, <2>6, <3>1, <3>2 DEF LifeInv, Justified
    <2>. QED  BY <2>2, <2>4, <2>5, <2>6
  <1>4. CASE \/ LifeBlock \/ LifeRecordDevice \/ LifeRecordBinding \/ LifeRelease
    <2>1. life \in LifeRunning
      BY <1>4, <1>a DEF LifeBlock, LifeRecordDevice, LifeRecordBinding, LifeRelease, LifeSteps
    <2>2. PICK pc \in LifeSteps \ {"block"} : life' = [life EXCEPT !.pc = pc]
      BY <1>4 DEF LifeBlock, LifeRecordDevice, LifeRecordBinding, LifeRelease, LifeSteps
    <2>. QED  BY <2>1, <2>2 DEF LifeInv, LifeRunning, Justified
  <1>5. CASE LifeReadRemaining \/ LifeUnblock
    <2>1. life \in LifeRunning
      BY <1>5, <1>a DEF LifeReadRemaining, LifeUnblock, LifeSteps
    <2>2. life' = [life EXCEPT !.pc = "unblock"] \/ life' = NextBinding
      BY <1>5 DEF LifeReadRemaining, LifeUnblock
    <2>3. CASE life' = [life EXCEPT !.pc = "unblock"]
      BY <2>1, <2>3 DEF LifeInv, LifeRunning, Justified
    <2>4. CASE life' = NextBinding
      <3>1. life'.pc = "decide" /\ life'.owner = {}
        BY <2>1, <2>4 DEF NextBinding, LifeRunning
      <3>. QED  BY <3>1 DEF LifeInv, Justified
    <2>. QED  BY <2>2, <2>3, <2>4
  <1>. QED  BY <1>1, <1>2, <1>3, <1>4, <1>5 DEF LifeStep

\* Every step of IpBindingLifecycleService keeps rows and kernel sets well
\* typed; it needs LifeInv to block no NULL address.
LEMMA LifeStepType ==
  ASSUME StateTypeOK, LifeTypeOK, LifeInv, LifeStep
  PROVE  StateTypeOK' /\ LifeTypeOK'
  <1>. USE DEF database, kernel, network, stateVars
  <1>a. ASSUME life.pc \in LifeSteps  PROVE life \in LifeRunning
    BY <1>a DEF LifeTypeOK, LifeOff, LifeWaiting, LifeSteps
  <1>b. ASSUME life \in LifeRunning  PROVE NextBinding \in LifeRunning
    BY <1>b DEF NextBinding, LifeRunning, LifeSteps, Addresses
  <1>1. CASE LifeTick
    BY <1>1 DEF LifeTick, LifeTypeOK, StateTypeOK
  <1>2. CASE LifeSnapshot
    <2>1. ActiveBindings \subseteq Devices \X Ips
      BY DEF ActiveBindings, StateTypeOK
    <2>2. life' \in LifeRunning
      BY <1>2, <2>1 DEF LifeSnapshot, LifeRunning, LifeSteps, StateTypeOK, Addresses
    <2>. QED  BY <1>2, <2>2 DEF LifeSnapshot, LifeTypeOK, StateTypeOK
  <1>3. CASE LifeDecide
    <2>1. life \in LifeRunning
      BY <1>3, <1>a DEF LifeDecide, LifeSteps
    <2>2. PICK b \in life.todo :
            \/ \E pc \in LifeSteps, to \in Addresses :
                 life' = [life EXCEPT !.pc = pc, !.todo = life.todo \ {b}, !.owner = {b[1]},
                                      !.from = b[2], !.to = to]
            \/ life' = [life EXCEPT !.todo = life.todo \ {b}]
      <3>1. life.leases \in [Devices -> Addresses] /\ life.todo \subseteq Devices \X Ips
        BY <2>1 DEF LifeRunning
      <3>2. \A b \in life.todo : life.leases[b[1]] \in Addresses
        BY <3>1
      <3>3. NoIp \in Addresses /\ "release" \in LifeSteps /\ "block" \in LifeSteps
        BY DEF Addresses, LifeSteps
      <3>. QED  BY <1>3, <3>2, <3>3 DEF LifeDecide
    <2>3. b \in Devices \X Ips
      BY <2>1, <2>2 DEF LifeRunning
    <2>4. ASSUME NEW pc \in LifeSteps, NEW to \in Addresses
          PROVE  [life EXCEPT !.pc = pc, !.todo = life.todo \ {b}, !.owner = {b[1]},
                              !.from = b[2], !.to = to] \in LifeRunning
      BY <2>1, <2>3 DEF LifeRunning, Addresses
    <2>5. [life EXCEPT !.todo = life.todo \ {b}] \in LifeRunning
      BY <2>1 DEF LifeRunning
    <2>6. life' \in LifeRunning
      BY <2>2, <2>4, <2>5
    <2>. QED  BY <1>3, <2>6 DEF LifeDecide, LifeTypeOK, StateTypeOK
  <1>4. CASE LifeBlock
    <2>1. life \in LifeRunning
      BY <1>4, <1>a DEF LifeBlock, LifeSteps
    <2>2. life' \in LifeRunning
      BY <1>4, <2>1 DEF LifeBlock, LifeRunning, LifeSteps
    <2>3. life.to \in Ips
      BY <1>4, <2>1 DEF LifeBlock, LifeInv, LifeRunning, Addresses
    <2>. QED  BY <1>4, <2>2, <2>3 DEF LifeBlock, LifeFrame, BlockIp, LifeTypeOK, StateTypeOK
  <1>5. CASE LifeRecordDevice
    <2>1. life \in LifeRunning
      BY <1>5, <1>a DEF LifeRecordDevice, LifeSteps
    <2>2. life' \in LifeRunning
      BY <1>5, <2>1 DEF LifeRecordDevice, LifeRunning, LifeSteps
    <2>. QED
      BY <1>5, <2>1, <2>2
      DEF LifeRecordDevice, LifeFrame, ActivateRecords, LifeRunning, LifeTypeOK, StateTypeOK
  <1>6. CASE LifeRecordBinding
    <2>1. life \in LifeRunning
      BY <1>6, <1>a DEF LifeRecordBinding, LifeSteps
    <2>2. life' \in LifeRunning
      BY <1>6, <2>1 DEF LifeRecordBinding, LifeRunning, LifeSteps
    <2>3. bindings' \subseteq Devices \X Ips
      BY <1>6, <2>1 DEF LifeRecordBinding, BindIps, LifeRunning, StateTypeOK, Addresses
    <2>. QED  BY <1>6, <2>2, <2>3 DEF LifeRecordBinding, LifeFrame, LifeTypeOK, StateTypeOK
  <1>7. CASE LifeRelease
    <2>1. life \in LifeRunning
      BY <1>7, <1>a DEF LifeRelease, LifeSteps
    <2>2. life' \in LifeRunning
      BY <1>7, <2>1 DEF LifeRelease, LifeRunning, LifeSteps
    <2>. QED  BY <1>7, <2>2 DEF LifeRelease, LifeFrame, ReleaseBindings, LifeTypeOK, StateTypeOK
  <1>8. CASE LifeReadRemaining
    <2>1. life \in LifeRunning
      BY <1>8, <1>a DEF LifeReadRemaining, LifeSteps
    <2>2. [life EXCEPT !.pc = "unblock"] \in LifeRunning
      BY <2>1 DEF LifeRunning, LifeSteps
    <2>. QED  BY <1>8, <1>b, <2>1, <2>2 DEF LifeReadRemaining, LifeTypeOK, StateTypeOK
  <1>9. CASE LifeUnblock
    <2>1. life \in LifeRunning
      BY <1>9, <1>a DEF LifeUnblock, LifeSteps
    <2>. QED  BY <1>9, <1>b, <2>1 DEF LifeUnblock, LifeFrame, UnblockIp, LifeTypeOK, StateTypeOK
  <1>10. CASE LifeDone
    BY <1>10 DEF LifeDone, LifeTypeOK, StateTypeOK
  <1>. QED
    BY <1>1, <1>2, <1>3, <1>4, <1>5, <1>6, <1>7, <1>8, <1>9, <1>10 DEF LifeStep

\* Failures, restarts, the network and discovery keep the state well typed.
LEMMA RestType ==
  ASSUME TypeOK,
         HandlerFails \/ CycleFails \/ BackendCrash \/ HostReboot
           \/ Accept \/ LeaseChange \/ EvidenceChange \/ Sync
  PROVE  TypeOK'
  <1>. USE DEF database, kernel, network, stateVars, firewallVars, cycleVars, TypeOK
  <1>a. ASSUME Stop, StateTypeOK'  PROVE TypeOK'
    BY <1>a DEF Stop, FirewallTypeOK, ReconTypeOK, LifeTypeOK
  <1>b. ASSUME lockQueue # <<>>  PROVE Tail(lockQueue) \in Seq(Reconcilers)
    BY <1>b, HeadTailProperties
  <1>1. CASE HandlerFails
    <2>1. PICK r \in Requests : RequestFails(r)
      BY <1>1 DEF HandlerFails
    <2>2. req' \in [Requests -> {IdleRequest} \cup BusyRequests]
      BY <2>1, FinishType DEF RequestFails
    <2>3. StateTypeOK' /\ FirewallTypeOK'
      BY <2>1, <2>2 DEF RequestFails, UnblockMac, StateTypeOK, FirewallTypeOK
    <2>. QED  BY <1>1, <2>3 DEF HandlerFails, ReconTypeOK, LifeTypeOK
  <1>2. CASE CycleFails
    <2>1. StateTypeOK' /\ FirewallTypeOK'
      BY <1>2 DEF CycleFails, ReconFails, LifeFails, StateTypeOK, FirewallTypeOK
    <2>2. ReconTypeOK' /\ LifeTypeOK'
      BY <1>2 DEF CycleFails, ReconFails, LifeFails, ReconTypeOK, LifeTypeOK
    <2>3. lockQueue' \in Seq(Reconcilers)
      BY <1>2, <1>b DEF CycleFails, ReconFails, LifeFails, Resolve, Holds
    <2>. QED  BY <2>1, <2>2, <2>3
  <1>3. CASE BackendCrash
    BY <1>3, <1>a DEF BackendCrash, StateTypeOK
  <1>4. CASE HostReboot
    BY <1>4, <1>a DEF HostReboot, StateTypeOK
  <1>5. CASE Accept
    <2>1. StateTypeOK' /\ FirewallTypeOK'
      BY <1>5 DEF Accept, AcceptUnconfirmedIdentity, StateTypeOK, FirewallTypeOK, Kinds
    <2>. QED  BY <1>5, <2>1 DEF Accept, ReconTypeOK, LifeTypeOK
  <1>6. CASE LeaseChange
    <2>1. StateTypeOK' /\ FirewallTypeOK' /\ UNCHANGED cycleVars
      <3>1. CASE \E d \in Devices : LeaseExpires(d)
        BY <3>1 DEF LeaseExpires, NetworkFrame, StateTypeOK, FirewallTypeOK, Addresses
      <3>2. CASE \E d \in Devices, ip \in Ips : LeaseGranted(d, ip)
        BY <3>2 DEF LeaseGranted, NetworkFrame, StateTypeOK, FirewallTypeOK, Addresses
      <3>. QED  BY <1>6, <3>1, <3>2 DEF LeaseChange
    <2>. QED  BY <2>1 DEF ReconTypeOK, LifeTypeOK
  <1>7. CASE EvidenceChange
    <2>1. StateTypeOK' /\ FirewallTypeOK' /\ UNCHANGED cycleVars
      BY <1>7 DEF EvidenceChange, EvidenceSeen, EvidenceFades, NetworkFrame, StateTypeOK, FirewallTypeOK
    <2>. QED  BY <2>1 DEF ReconTypeOK, LifeTypeOK
  <1>8. CASE Sync
    <2>1. PICK d \in Devices, observed \in Observable : SyncDevice(d, observed)
      BY <1>8 DEF Sync
    <2>2. ReconcileIdentity(identity[d], observed) \in Kinds
      BY <2>1 DEF ReconcileIdentity, Observable, Kinds, StateTypeOK
    <2>3. StateTypeOK' /\ FirewallTypeOK' /\ UNCHANGED cycleVars
      BY <2>1, <2>2 DEF SyncDevice, NetworkFrame, StateTypeOK, FirewallTypeOK
    <2>. QED  BY <2>3 DEF ReconTypeOK, LifeTypeOK
  <1>. QED  BY <1>1, <1>2, <1>3, <1>4, <1>5, <1>6, <1>7, <1>8

\* The reconcilers' lock queues nothing but reconcilers.
LEMMA QueueType ==
  ASSUME TypeOK, Recon \/ Life
  PROVE  lockQueue' \in Seq(Reconcilers)
  <1>1. lockQueue # <<>> => Tail(lockQueue) \in Seq(Reconcilers)
    BY HeadTailProperties DEF TypeOK
  <1>2. \A who \in Reconcilers : Append(lockQueue, who) \in Seq(Reconcilers)
    BY AppendProperties DEF TypeOK
  <1>3. CASE Recon
    <2>1. \/ lockQueue' = lockQueue
          \/ Enqueue("recon")
          \/ Resolve("recon")
      BY <1>3 DEF Recon, ReconStep, ReconTick, ReconSnapshot, ReconReadPolicy, ReconPlanReleases,
         ReconRelease, ReconReleaseDb, ReconReread, ReconInstall, ReconRecordDevice,
         ReconRecordBinding, ReconDone
    <2>. QED  BY <1>1, <1>2, <2>1 DEF Enqueue, Resolve, Holds, Reconcilers, TypeOK
  <1>4. CASE Life
    <2>1. \/ lockQueue' = lockQueue
          \/ Enqueue("life")
          \/ Resolve("life")
      BY <1>4 DEF Life, LifeStep, LifeTick, LifeSnapshot, LifeDecide, LifeBlock, LifeRecordDevice,
         LifeRecordBinding, LifeRelease, LifeReadRemaining, LifeUnblock, LifeDone
    <2>. QED  BY <1>1, <1>2, <2>1 DEF Enqueue, Resolve, Holds, Reconcilers, TypeOK
  <1>. QED  BY <1>3, <1>4

\* The inductive strengthening of TypeOK.
TypeInv == TypeOK /\ LifeInv

\* TypeInv holds when the backend has come up for the first time.
LEMMA TypeInvInit == Init => TypeInv
  BY DEF Init, StateInit, NetworkInit, FirewallInit, ReconInit, LifeInit, TypeInv, TypeOK, StateTypeOK,
         FirewallTypeOK, ReconTypeOK, LifeTypeOK, LifeInv, LifeOff, LifeSteps, Kinds, Addresses

\* Every step of the whole system keeps TypeInv: one case per action.
LEMMA TypeInvStep == TypeInv /\ [Next]_vars => TypeInv'
  <1>. SUFFICES ASSUME TypeInv, [Next]_vars  PROVE TypeInv'
    OBVIOUS
  <1>. USE DEF cycleVars, TypeOK, TypeInv
  <1>1. CASE NewRequest
    <2>1. PICK r \in Requests, d \in Devices :
             (\E from \in Addresses : StartBlock(r, d, from)) \/ StartUnblock(r, d)
      BY <1>1 DEF NewRequest
    <2>2. Start(r, "block", d, "policy") \/ Start(r, "unblock", d, "policy")
      BY <2>1 DEF StartBlock, StartUnblock
    <2>3. StateTypeOK' /\ FirewallTypeOK'
      BY <2>2, StartType DEF Blocking, Unblocking, RequestSteps
    <2>. QED  BY <1>1, <2>3 DEF NewRequest, ReconTypeOK, LifeTypeOK, LifeInv, Justified
  <1>2. CASE NewQuotaRequest
    <2>1. PICK r \in Requests, d \in Devices : StartQuotaBlock(r, d) \/ StartQuotaUnblock(r, d)
      BY <1>2 DEF NewQuotaRequest
    <2>2. Start(r, "quotaBlock", d, "kernel") \/ Start(r, "quotaUnblock", d, "policyRead")
      BY <2>1 DEF StartQuotaBlock, StartQuotaUnblock
    <2>3. StateTypeOK' /\ FirewallTypeOK'
      BY <2>2, StartType DEF Blocking, Unblocking, RequestSteps
    <2>. QED  BY <1>2, <2>3 DEF NewQuotaRequest, ReconTypeOK, LifeTypeOK, LifeInv, Justified
  <1>3. CASE Handler
    BY <1>3, RequestStepType DEF Handler, ReconTypeOK, LifeTypeOK, LifeInv, Justified
  <1>4. CASE Startup
    BY <1>4, StartupStepType DEF Startup, ReconTypeOK, LifeTypeOK, LifeInv, Justified
  <1>5. CASE Recon
    <2>1. FirewallTypeOK' /\ LifeTypeOK' /\ LifeInv'
      BY <1>5 DEF Recon, FirewallTypeOK, firewallVars, LifeTypeOK, LifeInv, Justified
    <2>. QED  BY <1>5, <2>1, ReconStepType, QueueType DEF Recon
  <1>6. CASE Life
    <2>1. FirewallTypeOK' /\ ReconTypeOK'
      BY <1>6 DEF Life, FirewallTypeOK, firewallVars, ReconTypeOK
    <2>2. LifeInv'
      BY <1>6, LifeKeepsInv DEF Life
    <2>. QED  BY <1>6, <2>1, <2>2, LifeStepType, QueueType DEF Life
  <1>7. CASE HandlerFails \/ CycleFails \/ BackendCrash \/ HostReboot
               \/ Accept \/ LeaseChange \/ EvidenceChange \/ Sync
    <2>1. life' = life \/ life' = LifeOff
      BY <1>7 DEF HandlerFails, CycleFails, LifeFails, BackendCrash, HostReboot, Stop, Accept,
         LeaseChange, LeaseExpires, LeaseGranted, EvidenceChange, EvidenceSeen, EvidenceFades,
         Sync, SyncDevice, NetworkFrame
    <2>. QED  BY <1>7, <2>1, RestType DEF LifeInv, LifeOff, LifeSteps, Justified
  <1>8. CASE UNCHANGED vars
    BY <1>8 DEF vars, stateVars, firewallVars, StateTypeOK, FirewallTypeOK, ReconTypeOK,
       LifeTypeOK, LifeInv, Justified
  <1>. QED
    BY <1>1, <1>2, <1>3, <1>4, <1>5, <1>6, <1>7, <1>8 DEF Next

\* TypeInv is an invariant for any number of devices, addresses and handlers.
THEOREM TypeInvariant == Spec => []TypeInv
  BY TypeInvInit, TypeInvStep, PTL DEF Spec

\* The state stays well typed: in particular the kernel set never holds the
\* NULL address, and no active binding has one (FirewallService,
\* NftEnforcer.blockIp).
THEOREM TypeCorrect == Spec => []TypeOK
  <1>1. TypeInv => TypeOK
    BY DEF TypeInv
  <1>. QED  BY <1>1, TypeInvariant, PTL

-----------------------------------------------------------------------------
(* Mutual exclusion.                                                       *)

\* Who is queued has ticked, nobody is queued twice, and who works is the head.
LockInv ==
    /\ \A i \in 1..Len(lockQueue) :
         /\ lockQueue[i] = "recon" => recon.pc # "off"
         /\ lockQueue[i] = "life" => life.pc # "off"
    /\ \A i, j \in 1..Len(lockQueue) : lockQueue[i] = lockQueue[j] => i = j
    /\ recon.pc \in ReconSteps => Holds("recon")
    /\ life.pc \in LifeSteps => Holds("life")

\* How a cycle of BlockedIpReconciliationService and the lock go together.
LEMMA ReconMoves ==
  ASSUME ReconTypeOK, ReconStep
  PROVE  \/ recon.pc = "off" /\ recon'.pc = "waiting" /\ Enqueue("recon")
         \/ /\ recon.pc = "waiting" /\ Holds("recon")
            /\ recon'.pc \in ReconSteps /\ UNCHANGED lockQueue
         \/ recon.pc \in ReconSteps /\ recon'.pc \in ReconSteps /\ UNCHANGED lockQueue
         \/ recon.pc \in ReconSteps /\ recon'.pc = "off" /\ Resolve("recon")
  <1>1. CASE ReconTick
    BY <1>1 DEF ReconTick, ReconOff, ReconWaiting
  <1>2. CASE ReconSnapshot
    BY <1>2 DEF ReconSnapshot, ReconWaiting, ReconSteps
  <1>3. CASE ReconDone
    BY <1>3 DEF ReconDone, ReconOff, ReconSteps
  <1>4. CASE \/ ReconReadPolicy \/ ReconPlanReleases \/ ReconRelease \/ ReconReleaseDb
             \/ ReconReread \/ ReconInstall \/ ReconRecordDevice \/ ReconRecordBinding
    <2>1. recon.pc \in ReconSteps /\ UNCHANGED lockQueue
      BY <1>4 DEF ReconReadPolicy, ReconPlanReleases, ReconRelease, ReconReleaseDb, ReconReread,
         ReconInstall, ReconRecordDevice, ReconRecordBinding, ReconSteps
    <2>2. recon \in ReconRunning
      BY <2>1 DEF ReconTypeOK, ReconOff, ReconWaiting, ReconSteps
    <2>3. recon'.pc \in ReconSteps
      BY <1>4, <2>2 DEF ReconReadPolicy, ReconPlanReleases, ReconRelease, ReconReleaseDb,
         ReconReread, ReconInstall, ReconRecordDevice, ReconRecordBinding, ReconSteps, ReconRunning
    <2>. QED  BY <2>1, <2>3
  <1>. QED  BY <1>1, <1>2, <1>3, <1>4 DEF ReconStep

\* How a cycle of IpBindingLifecycleService and the lock go together.
LEMMA LifeMoves ==
  ASSUME LifeTypeOK, LifeStep
  PROVE  \/ life.pc = "off" /\ life'.pc = "waiting" /\ Enqueue("life")
         \/ /\ life.pc = "waiting" /\ Holds("life")
            /\ life'.pc \in LifeSteps /\ UNCHANGED lockQueue
         \/ life.pc \in LifeSteps /\ life'.pc \in LifeSteps /\ UNCHANGED lockQueue
         \/ life.pc \in LifeSteps /\ life'.pc = "off" /\ Resolve("life")
  <1>1. CASE LifeTick
    BY <1>1 DEF LifeTick, LifeOff, LifeWaiting
  <1>2. CASE LifeSnapshot
    BY <1>2 DEF LifeSnapshot, LifeWaiting, LifeSteps
  <1>3. CASE LifeDone
    BY <1>3 DEF LifeDone, LifeOff, LifeSteps
  <1>4. CASE \/ LifeDecide \/ LifeBlock \/ LifeRecordDevice \/ LifeRecordBinding
             \/ LifeRelease \/ LifeReadRemaining \/ LifeUnblock
    <2>1. life.pc \in LifeSteps /\ UNCHANGED lockQueue
      BY <1>4 DEF LifeDecide, LifeBlock, LifeRecordDevice, LifeRecordBinding, LifeRelease,
         LifeReadRemaining, LifeUnblock, LifeSteps
    <2>2. life \in LifeRunning
      BY <2>1 DEF LifeTypeOK, LifeOff, LifeWaiting, LifeSteps
    <2>3. life'.pc \in LifeSteps
      BY <1>4, <2>2 DEF LifeDecide, LifeBlock, LifeRecordDevice, LifeRecordBinding, LifeRelease,
         LifeReadRemaining, LifeUnblock, NextBinding, LifeSteps, LifeRunning
    <2>. QED  BY <2>1, <2>3
  <1>. QED  BY <1>1, <1>2, <1>3, <1>4 DEF LifeStep

\* Only the cycles, their failures and restarts touch cycles and lock.
LEMMA CyclesUntouched ==
  ASSUME Next, ~Recon, ~Life, ~CycleFails, ~BackendCrash, ~HostReboot
  PROVE  UNCHANGED cycleVars
  BY DEF Next, NewRequest, NewQuotaRequest, Accept, Handler, HandlerFails, Startup,
         LeaseChange, LeaseGranted, LeaseExpires, EvidenceChange, EvidenceSeen, EvidenceFades,
         Sync, SyncDevice, NetworkFrame

\* Nobody is queued at first.
LEMMA LockInvInit == Init => LockInv
  BY DEF Init, ReconInit, LifeInit, ReconOff, LifeOff, ReconSteps, LifeSteps, LockInv

\* What appending to a queue does to its elements.
LEMMA QueueAppends ==
  ASSUME NEW S, NEW q \in Seq(S), NEW e \in S
  PROVE  /\ Len(Append(q, e)) = Len(q) + 1
         /\ \A i \in 1..Len(q) : Append(q, e)[i] = q[i]
         /\ Append(q, e)[Len(q) + 1] = e
         /\ Append(q, e) # <<>>
         /\ q # <<>> => Head(Append(q, e)) = Head(q)
  BY AppendProperties

\* What dropping the head of a queue does to its elements.
LEMMA QueueTails ==
  ASSUME NEW S, NEW q \in Seq(S), q # <<>>
  PROVE  /\ Len(Tail(q)) = Len(q) - 1
         /\ \A i \in 1..Len(Tail(q)) : Tail(q)[i] = q[i + 1]
         /\ Head(q) = q[1]
         /\ Len(q) >= 1
  BY HeadTailProperties

\* Every step keeps LockInv: a new caller enters at the tail, the operation at
\* the head is the only one that starts, and its end drops the head.
LEMMA LockInvStep == TypeOK /\ LockInv /\ [Next]_vars => LockInv'
  <1>. SUFFICES ASSUME TypeOK, LockInv, [Next]_vars  PROVE LockInv'
    OBVIOUS
  <1>q. lockQueue \in Seq(Reconcilers) /\ "recon" \in Reconcilers /\ "life" \in Reconcilers
    BY DEF TypeOK, Reconcilers
  <1>1. CASE Recon
    <2>. UNCHANGED life
      BY <1>1 DEF Recon
    <2>1. CASE recon.pc = "off" /\ recon'.pc = "waiting" /\ Enqueue("recon")
      BY <1>q, <2>1, QueueAppends DEF Enqueue, LockInv, Holds, ReconSteps
    <2>2. CASE /\ recon.pc = "waiting" /\ Holds("recon")
               /\ recon'.pc \in ReconSteps /\ UNCHANGED lockQueue
      BY <2>2 DEF LockInv, Holds, ReconSteps
    <2>3. CASE recon.pc \in ReconSteps /\ recon'.pc \in ReconSteps /\ UNCHANGED lockQueue
      BY <2>3 DEF LockInv, Holds, ReconSteps
    <2>4. CASE recon.pc \in ReconSteps /\ recon'.pc = "off" /\ Resolve("recon")
      BY <1>q, <2>4, QueueTails DEF Resolve, LockInv, Holds, ReconSteps
    <2>. QED  BY <1>1, <2>1, <2>2, <2>3, <2>4, ReconMoves DEF Recon, TypeOK
  <1>2. CASE Life
    <2>. UNCHANGED recon
      BY <1>2 DEF Life
    <2>1. CASE life.pc = "off" /\ life'.pc = "waiting" /\ Enqueue("life")
      BY <1>q, <2>1, QueueAppends DEF Enqueue, LockInv, Holds, LifeSteps
    <2>2. CASE /\ life.pc = "waiting" /\ Holds("life")
               /\ life'.pc \in LifeSteps /\ UNCHANGED lockQueue
      BY <2>2 DEF LockInv, Holds, LifeSteps
    <2>3. CASE life.pc \in LifeSteps /\ life'.pc \in LifeSteps /\ UNCHANGED lockQueue
      BY <2>3 DEF LockInv, Holds, LifeSteps
    <2>4. CASE life.pc \in LifeSteps /\ life'.pc = "off" /\ Resolve("life")
      BY <1>q, <2>4, QueueTails DEF Resolve, LockInv, Holds, LifeSteps
    <2>. QED  BY <1>2, <2>1, <2>2, <2>3, <2>4, LifeMoves DEF Life, TypeOK
  <1>3. CASE CycleFails
    <2>1. CASE ReconFails /\ UNCHANGED life
      BY <1>q, <2>1, QueueTails DEF ReconFails, ReconOff, Resolve, LockInv, Holds, ReconSteps
    <2>2. CASE LifeFails /\ UNCHANGED recon
      BY <1>q, <2>2, QueueTails DEF LifeFails, LifeOff, Resolve, LockInv, Holds, LifeSteps
    <2>. QED  BY <1>3, <2>1, <2>2 DEF CycleFails
  <1>4. CASE BackendCrash \/ HostReboot
    BY <1>4 DEF BackendCrash, HostReboot, Stop, LockInv, ReconOff, LifeOff, ReconSteps, LifeSteps
  <1>5. CASE UNCHANGED cycleVars
    BY <1>5 DEF cycleVars, LockInv, Holds
  <1>6. CASE UNCHANGED vars
    BY <1>6 DEF vars, LockInv, Holds
  <1>. QED  BY <1>1, <1>2, <1>3, <1>4, <1>5, <1>6, CyclesUntouched

\* Two running operations would both be the head of the queue.
LEMMA LockExcludes == TypeOK /\ LockInv => ReconcilersExclude
  BY DEF TypeOK, ReconTypeOK, LifeTypeOK, ReconOff, ReconWaiting, ReconRunning, LifeOff,
         LifeWaiting, LifeRunning, ReconIdle, LifeIdle, LockInv, Holds, ReconcilersExclude

\* withIpBindingMutationLock excludes: the two reconcilers never work at the
\* same time, whatever fails or restarts.
THEOREM MutualExclusion == Spec => []ReconcilersExclude
  <1>1. Spec => []LockInv
    BY LockInvInit, LockInvStep, TypeCorrect, PTL DEF Spec
  <1>. QED  BY <1>1, LockExcludes, TypeCorrect, PTL

-----------------------------------------------------------------------------
(* Bindings end on evidence only.                                          *)

\* Bindings are ended by the handlers that unblock.
HandlerInv ==
    \A r \in Requests :
      req[r].pc \in {"policyRead", "activeIps", "release"} => req[r].op \in Unblocking

\* No handler runs at first.
LEMMA HandlerInvInit == Init => HandlerInv
  BY DEF Init, FirewallInit, IdleRequest, HandlerInv

\* Only unblocking handlers reach the steps that end bindings.
LEMMA HandlerInvStep == TypeOK /\ HandlerInv /\ [Next]_vars => HandlerInv'
  <1>. SUFFICES ASSUME TypeOK, HandlerInv, [Next]_vars  PROVE HandlerInv'
    OBVIOUS
  <1>a. ASSUME NEW r \in Requests, req[r].pc # "idle", NEW pc \in RequestSteps, GoTo(r, pc),
               pc \in {"policyRead", "activeIps", "release"} => req[r].op \in Unblocking
        PROVE  HandlerInv'
    <2>1. req[r] \in BusyRequests
      BY <1>a, BusyWhenNotIdle DEF TypeOK
    <2>. QED  BY <1>a, <2>1 DEF GoTo, HandlerInv, BusyRequests, TypeOK, FirewallTypeOK
  <1>b. ASSUME NEW r \in Requests, Finish(r)  PROVE HandlerInv'
    BY <1>b DEF Finish, HandlerInv, IdleRequest, TypeOK, FirewallTypeOK
  <1>c. ASSUME NEW r \in Requests, NEW op, NEW d, NEW pc, Start(r, op, d, pc),
               pc \in {"policyRead", "activeIps", "release"} => op \in Unblocking
        PROVE  HandlerInv'
    BY <1>c DEF Start, HandlerInv, TypeOK, FirewallTypeOK
  <1>1. CASE NewRequest
    BY <1>1, <1>c DEF NewRequest, StartBlock, StartUnblock
  <1>2. CASE NewQuotaRequest
    BY <1>2, <1>c DEF NewQuotaRequest, StartQuotaBlock, StartQuotaUnblock, Unblocking
  <1>3. CASE Handler
    <2>1. PICK r \in Requests : RequestStep(r)
      BY <1>3 DEF Handler
    <2>2. CASE \/ PersistPolicy(r) \/ ReadPolicy(r)
      BY <2>2, <1>a, <1>b
      DEF PersistPolicy, ReadPolicy, UnblockStep, At, RequestSteps, Unblocking, HandlerInv
    <2>3. CASE ReadActiveIps(r)
      <3>1. req[r] \in BusyRequests /\ req[r].op \in Unblocking
        BY <2>3, BusyWhenNotIdle DEF ReadActiveIps, At, TypeOK, HandlerInv
      <3>2. PICK ips, step : req' = [req EXCEPT ![r].ips = ips, ![r].pc = step]
        BY <2>3 DEF ReadActiveIps
      <3>3. req'[r].op \in Unblocking
        BY <3>1, <3>2 DEF BusyRequests, TypeOK, FirewallTypeOK
      <3>. QED  BY <3>2, <3>3 DEF HandlerInv, TypeOK, FirewallTypeOK
    <2>4. CASE KernelUnblockIp(r)
      <3>1. req[r] \in BusyRequests /\ req[r].op \in Unblocking
        BY <2>4, BusyWhenNotIdle DEF KernelUnblockIp, At, TypeOK
      <3>2. PICK ips, step : req' = [req EXCEPT ![r].ips = ips, ![r].pc = step]
        BY <2>4 DEF KernelUnblockIp
      <3>3. req'[r].op \in Unblocking
        BY <3>1, <3>2 DEF BusyRequests, TypeOK, FirewallTypeOK
      <3>. QED  BY <3>2, <3>3 DEF HandlerInv, TypeOK, FirewallTypeOK
    <2>5. CASE KernelBlock(r) \/ KernelUnblockMac(r) \/ RecordDevice(r)
      BY <2>5, <1>a, <1>b DEF KernelBlock, KernelUnblockMac, RecordDevice, At, RequestSteps
    <2>6. CASE NoEnforcementPath(r) \/ RecordBinding(r) \/ ReleaseBlock(r)
      BY <2>6, <1>b DEF NoEnforcementPath, RecordBinding, ReleaseBlock
    <2>. QED  BY <2>1, <2>2, <2>3, <2>4, <2>5, <2>6 DEF RequestStep
  <1>4. CASE HandlerFails
    BY <1>4, <1>b DEF HandlerFails, RequestFails
  <1>5. CASE BackendCrash \/ HostReboot
    BY <1>5 DEF BackendCrash, HostReboot, Stop, HandlerInv, IdleRequest
  <1>6. CASE UNCHANGED req
    BY <1>6 DEF HandlerInv
  <1>. QED
    BY <1>1, <1>2, <1>3, <1>4, <1>5, <1>6
    DEF Next, vars, firewallVars, Accept, AcceptUnconfirmedIdentity, Startup, StartupStep,
        StartupBlock, StartupBlocked, StartupUnblock, StartupDone, Recon, Life, CycleFails,
        LeaseChange, LeaseGranted, LeaseExpires, EvidenceChange, EvidenceSeen, EvidenceFades,
        Sync, SyncDevice, NetworkFrame

\* What the reconciliation is going to release is refuted by its snapshot.
ReconInv ==
    /\ recon.pc \in {"release", "releaseDb"} =>
         \A i \in recon.todo : Justified(recon.leases, i.owner, i.ip)
    /\ recon.pc = "releaseDb" => Justified(recon.leases, recon.item.owner, recon.item.ip)

\* BlockedIpReconciliationService plans a release only where its own lease
\* snapshot refutes the binding, and the plan does not change until it is
\* carried out.
LEMMA ReconKeepsInv ==
  ASSUME ReconTypeOK, ReconInv, ReconStep
  PROVE  ReconInv'
  <1>a. ASSUME recon.pc \in ReconSteps  PROVE recon \in ReconRunning
    BY <1>a DEF ReconTypeOK, ReconOff, ReconWaiting, ReconSteps
  <1>1. CASE ReconTick \/ ReconSnapshot \/ ReconDone
    BY <1>1 DEF ReconTick, ReconSnapshot, ReconDone, ReconInv, ReconOff, ReconWaiting
  <1>2. CASE ReconReadPolicy
    <2>1. recon \in ReconRunning
      BY <1>2, <1>a DEF ReconReadPolicy, ReconSteps
    <2>2. recon'.pc = "plan"
      BY <1>2, <2>1 DEF ReconReadPolicy, ReconRunning
    <2>. QED  BY <2>2 DEF ReconInv
  <1>3. CASE ReconPlanReleases
    <2>. DEFINE stale == recon.blocked \ ItemIps(recon.expected)
                refuted(owner) == {a \in stale : \/ Moved(recon.leases, owner[a], a)
                                                 \/ Reassigned(recon.leases, owner[a], a)}
                items(owner) == {[owner |-> owner[ip], ip |-> ip] : ip \in refuted(owner)}
    <2>1. recon \in ReconRunning
      BY <1>3, <1>a DEF ReconPlanReleases, ReconSteps
    <2>2. PICK owner \in [stale -> SUBSET Devices] :
            /\ \A ip \in stale : owner[ip] \in Owners(recon.bound, ip)
            /\ recon' = [recon EXCEPT !.pc = "release", !.blocked = {}, !.bound = {},
                                      !.todo = items(owner)]
      BY <1>3 DEF ReconPlanReleases
    <2>3. recon'.pc = "release" /\ recon'.leases = recon.leases /\ recon'.todo = items(owner)
      BY <2>1, <2>2 DEF ReconRunning
    <2>4. ASSUME NEW ip \in refuted(owner)  PROVE Justified(recon.leases, owner[ip], ip)
      <3>1. owner[ip] = {} \/ \E d \in Devices : owner[ip] = {d}
        BY <2>2 DEF Owners
      <3>. QED  BY <3>1 DEF Moved, Reassigned, Justified, Refutes
    <2>5. \A i \in items(owner) : Justified(recon.leases, i.owner, i.ip)
      BY <2>4
    <2>. QED  BY <2>3, <2>5 DEF ReconInv, Justified
  <1>4. CASE ReconRelease
    <2>1. recon \in ReconRunning
      BY <1>4, <1>a DEF ReconRelease, ReconSteps
    <2>2. PICK i \in recon.todo :
            \/ recon' = [recon EXCEPT !.todo = recon.todo \ {i}]
            \/ recon' = [recon EXCEPT !.todo = recon.todo \ {i}, !.pc = "releaseDb", !.item = i]
      BY <1>4 DEF ReconRelease
    <2>3. /\ recon'.leases = recon.leases /\ recon'.todo = recon.todo \ {i}
          /\ recon'.pc = "releaseDb" => recon'.item = i
      BY <1>4, <2>1, <2>2 DEF ReconRelease, ReconRunning
    <2>4. recon.pc = "release"
      BY <1>4 DEF ReconRelease
    <2>. QED  BY <2>2, <2>3, <2>4 DEF ReconInv, Justified
  <1>5. CASE ReconReleaseDb
    <2>1. recon \in ReconRunning
      BY <1>5, <1>a DEF ReconReleaseDb, ReconSteps
    <2>2. recon'.pc = "release" /\ recon'.leases = recon.leases /\ recon'.todo = recon.todo
      BY <1>5, <2>1 DEF ReconReleaseDb, ReconRunning
    <2>. QED  BY <1>5, <2>2 DEF ReconReleaseDb, ReconInv, Justified
  <1>6. CASE ReconReread \/ ReconInstall \/ ReconRecordDevice \/ ReconRecordBinding
    <2>1. recon \in ReconRunning
      BY <1>6, <1>a DEF ReconReread, ReconInstall, ReconRecordDevice, ReconRecordBinding, ReconSteps
    <2>2. recon'.pc \in {"install", "record", "bind"}
      BY <1>6, <2>1 DEF ReconReread, ReconInstall, ReconRecordDevice, ReconRecordBinding, ReconRunning
    <2>. QED  BY <2>2 DEF ReconInv
  <1>. QED  BY <1>1, <1>2, <1>3, <1>4, <1>5, <1>6 DEF ReconStep

\* No cycle runs at first.
LEMMA ReconInvInit == Init => ReconInv
  BY DEF Init, ReconInit, ReconOff, ReconInv

\* Every step of the whole system keeps ReconInv.
LEMMA ReconInvStep == TypeOK /\ ReconInv /\ [Next]_vars => ReconInv'
  <1>. SUFFICES ASSUME TypeOK, ReconInv, [Next]_vars  PROVE ReconInv'
    OBVIOUS
  <1>1. CASE Recon
    BY <1>1, ReconKeepsInv DEF Recon, TypeOK
  <1>2. CASE CycleFails \/ BackendCrash \/ HostReboot
    BY <1>2 DEF CycleFails, ReconFails, LifeFails, BackendCrash, HostReboot, Stop, ReconOff,
       ReconInv, Justified
  <1>3. CASE Life
    BY <1>3 DEF Life, ReconInv, Justified
  <1>4. CASE UNCHANGED cycleVars
    BY <1>4 DEF cycleVars, ReconInv, Justified
  <1>5. CASE UNCHANGED vars
    BY <1>5 DEF vars, ReconInv, Justified
  <1>. QED  BY <1>1, <1>2, <1>3, <1>4, <1>5, CyclesUntouched

\* A step that ends a binding is the release of an unblocking handler or a
\* reconciler's release of a binding that its snapshot refutes.
LEMMA BindingsEndJustified ==
  ASSUME TypeOK, LifeInv, ReconInv, HandlerInv, [Next]_vars, NEW b \in bindings \ bindings'
  PROVE  BindingEndJustified(b[1], b[2])
  <1>. USE DEF database, kernel, network, stateVars, firewallVars
  <1>b. b = <<b[1], b[2]>>
    BY DEF TypeOK, StateTypeOK
  <1>1. CASE Handler
    <2>1. PICK r \in Requests : RequestStep(r)
      BY <1>1 DEF Handler
    <2>2. ReleaseBlock(r)
      BY <2>1 DEF RequestStep, PersistPolicy, ReadPolicy, ReadActiveIps, KernelBlock,
         NoEnforcementPath, KernelUnblockMac, KernelUnblockIp, RecordDevice, RecordBinding, BindIps
    <2>3. req'[r] = IdleRequest
      BY <2>2 DEF ReleaseBlock, Finish, TypeOK, FirewallTypeOK
    <2>. QED
      BY <2>2, <2>3 DEF ReleaseBlock, At, DeactivateRecord, HandlerInv, BindingEndJustified
  <1>2. CASE Recon
    <2>1. ReconReleaseDb
      BY <1>2 DEF Recon, ReconStep, ReconTick, ReconSnapshot, ReconReadPolicy, ReconPlanReleases,
         ReconRelease, ReconReread, ReconInstall, ReconRecordDevice, ReconRecordBinding,
         ReconDone, BindIps
    <2>2. b[1] \in recon.item.owner /\ b[2] = recon.item.ip
      BY <1>b, <2>1 DEF ReconReleaseDb, ReleaseBindings
    <2>3. recon.pc = "releaseDb"
      BY <2>1 DEF ReconReleaseDb
    <2>. QED  BY <2>2, <2>3 DEF ReconInv, Justified, BindingEndJustified, ReconIdle
  <1>3. CASE Life
    <2>1. LifeRelease
      BY <1>3 DEF Life, LifeStep, LifeTick, LifeSnapshot, LifeDecide, LifeBlock, LifeRecordDevice,
         LifeRecordBinding, LifeReadRemaining, LifeUnblock, LifeDone, BindIps
    <2>2. b[1] \in life.owner /\ b[2] = life.from
      BY <1>b, <2>1 DEF LifeRelease, ReleaseBindings
    <2>3. life.pc = "release"
      BY <2>1 DEF LifeRelease
    <2>. QED  BY <2>2, <2>3 DEF LifeInv, LifeSteps, Justified, BindingEndJustified, LifeIdle
  <1>. QED
    BY <1>1, <1>2, <1>3
    DEF Next, vars, NewRequest, StartBlock, StartUnblock, NewQuotaRequest, StartQuotaBlock,
        StartQuotaUnblock, Start, Accept, AcceptUnconfirmedIdentity, HandlerFails, RequestFails,
        Startup, StartupStep, StartupBlock, StartupBlocked, StartupUnblock, StartupDone,
        CycleFails, ReconFails, LifeFails, BackendCrash, HostReboot,
        LeaseChange, LeaseGranted, LeaseExpires, EvidenceChange, EvidenceSeen, EvidenceFades,
        Sync, SyncDevice, NetworkFrame

\* An active binding ends only by an explicit unblock of its device or on
\* positive evidence, never because a device went quiet (releaseBlock,
\* releaseIp and their callers).
THEOREM BindingsEndOnlyOnEvidence == Spec => BindingsEndOnEvidence
  <1>. DEFINE A == \A b \in bindings \ bindings' : BindingEndJustified(b[1], b[2])
  <1>1. TypeInv /\ ReconInv /\ HandlerInv /\ [Next]_vars => [A]_vars
    BY BindingsEndJustified DEF TypeInv
  <1>2. TypeInv => TypeOK
    BY DEF TypeInv
  <1>3. Spec => []ReconInv
    BY <1>2, ReconInvInit, ReconInvStep, TypeInvariant, PTL DEF Spec
  <1>4. Spec => []HandlerInv
    BY <1>2, HandlerInvInit, HandlerInvStep, TypeInvariant, PTL DEF Spec
  <1>. QED  BY <1>1, <1>3, <1>4, TypeInvariant, PTL DEF Spec, BindingsEndOnEvidence

-----------------------------------------------------------------------------
(* Startup.                                                                *)

\* Neither a handler nor a reconciler is running.
Alone ==
    /\ \A r \in Requests : req[r] = IdleRequest
    /\ recon = ReconOff
    /\ life = LifeOff

\* Startup runs alone, and its sweeps start from installed blocks.
StartupInv ==
    boot # "up" =>
      /\ Alone
      /\ boot = "unblock" => DesiredMacs \subseteq blockedMacs /\ DesiredIps \subseteq blockedIps

\* The system starts up.
LEMMA StartupInvInit == Init => StartupInv
  BY DEF Init, FirewallInit, StartupInv

\* While FirewallService.reconcile runs, nothing else of the backend does: the
\* network may change, the backend may stop.
LEMMA OnlyStartupRuns ==
  ASSUME Alone, boot # "up", Next
  PROVE  \/ Startup
         \/ BackendCrash
         \/ HostReboot
         \/ UNCHANGED <<database, kernel, firewallVars, cycleVars>>
  <1>. USE DEF Alone
  <1>1. ~NewRequest /\ ~NewQuotaRequest /\ ~Accept /\ ~Recon /\ ~Life /\ ~Sync
    BY DEF NewRequest, StartBlock, StartUnblock, NewQuotaRequest, StartQuotaBlock,
       StartQuotaUnblock, Start, Accept, AcceptUnconfirmedIdentity, Recon, Life, Sync, SyncDevice
  <1>2. ~Handler /\ ~HandlerFails
    <2>1. \A r \in Requests : req[r].pc = "idle"
      BY DEF IdleRequest
    <2>2. \A r \in Requests : ~RequestStep(r)
      BY <2>1 DEF RequestStep, PersistPolicy, ReadPolicy, ReadActiveIps, KernelBlock,
         NoEnforcementPath, KernelUnblockMac, KernelUnblockIp, RecordDevice, RecordBinding,
         ReleaseBlock, At
    <2>3. \A r \in Requests : ~RequestFails(r)
      BY <2>1 DEF RequestFails, At
    <2>. QED  BY <2>2, <2>3 DEF Handler, HandlerFails
  <1>3. CASE LeaseChange \/ EvidenceChange
    BY <1>3 DEF LeaseChange, LeaseGranted, LeaseExpires, EvidenceChange, EvidenceSeen,
       EvidenceFades, NetworkFrame, database
  <1>4. ~CycleFails
    BY DEF CycleFails, ReconFails, LifeFails
  <1>. QED  BY <1>1, <1>2, <1>3, <1>4 DEF Next

\* Every step keeps StartupInv: the blocks installed by the first loops are
\* still there when the sweeps begin, and the sweeps keep them.
LEMMA StartupInvStep == StartupInv /\ [Next]_vars => StartupInv'
  <1>. SUFFICES ASSUME StartupInv, [Next]_vars, boot' # "up"
       PROVE  StartupInv'
    BY DEF StartupInv
  <1>. USE DEF database, kernel, stateVars, firewallVars, cycleVars
  <1>1. CASE BackendCrash \/ HostReboot
    BY <1>1 DEF BackendCrash, HostReboot, Stop, StartupInv, Alone
  <1>2. CASE UNCHANGED vars
    BY <1>2 DEF vars, StartupInv, Alone, DesiredMacs, DesiredIps
  <1>3. CASE Next /\ ~BackendCrash /\ ~HostReboot
    <2>1. boot # "up"
      BY <1>3 DEF Next, NewRequest, StartBlock, StartUnblock, NewQuotaRequest, StartQuotaBlock,
         StartQuotaUnblock, Start, Accept, AcceptUnconfirmedIdentity, Handler, RequestStep,
         PersistPolicy, ReadPolicy, ReadActiveIps, KernelBlock, NoEnforcementPath,
         KernelUnblockMac, KernelUnblockIp, RecordDevice, RecordBinding, ReleaseBlock,
         HandlerFails, RequestFails, Startup, StartupStep, StartupBlock, StartupBlocked,
         StartupUnblock, StartupDone, Recon, Life, CycleFails, LeaseChange, LeaseGranted,
         LeaseExpires, EvidenceChange, EvidenceSeen, EvidenceFades, Sync, SyncDevice, NetworkFrame
    <2>2. CASE Startup
      <3>1. Alone'
        BY <2>1, <2>2 DEF Startup, StartupStep, StartupBlock, StartupBlocked, StartupUnblock,
           StartupDone, StartupInv, Alone
      <3>2. DesiredMacs' = DesiredMacs /\ DesiredIps' = DesiredIps
        BY <2>2 DEF Startup, StartupStep, StartupBlock, StartupBlocked, StartupUnblock,
           StartupDone, DesiredMacs, DesiredIps
      <3>3. boot' = "unblock" => DesiredMacs \subseteq blockedMacs' /\ DesiredIps \subseteq blockedIps'
        BY <2>1, <2>2 DEF Startup, StartupStep, StartupBlock, StartupBlocked, StartupUnblock,
           StartupDone, StartupInv, UnblockMac, UnblockIp, DesiredIps
      <3>. QED  BY <3>1, <3>2, <3>3 DEF StartupInv
    <2>3. CASE UNCHANGED <<database, kernel, firewallVars, cycleVars>>
      BY <2>3 DEF StartupInv, Alone, DesiredMacs, DesiredIps
    <2>. QED  BY <1>3, <2>1, <2>2, <2>3, OnlyStartupRuns DEF StartupInv
  <1>. QED  BY <1>1, <1>2, <1>3

\* FirewallService.reconcile leaves the kernel sets exactly as the stored
\* policies ask, whatever state it found them in.
THEOREM StartupRebuilds == Spec => StartupMatchesPolicy
  <1>. USE DEF database, kernel, stateVars, firewallVars, cycleVars
  <1>. DEFINE A == boot # "up" /\ boot' = "up" =>
                     blockedMacs' = DesiredMacs' /\ blockedIps' = DesiredIps'
  <1>1. StartupInv /\ [Next]_vars => [A]_vars
    <2>. SUFFICES ASSUME StartupInv, Next, boot # "up", boot' = "up"
         PROVE  blockedMacs' = DesiredMacs' /\ blockedIps' = DesiredIps'
      OBVIOUS
    <2>1. Startup
      BY OnlyStartupRuns DEF StartupInv, BackendCrash, HostReboot, Stop
    <2>2. StartupDone
      BY <2>1 DEF Startup, StartupStep, StartupBlock, StartupBlocked, StartupUnblock
    <2>3. boot = "unblock"
      BY <2>2 DEF StartupDone
    <2>4. DesiredMacs' = DesiredMacs /\ DesiredIps' = DesiredIps
      BY <2>2 DEF StartupDone, DesiredMacs, DesiredIps
    <2>. QED  BY <2>2, <2>3, <2>4 DEF StartupDone, StartupInv
  <1>. QED
    BY <1>1, StartupInvInit, StartupInvStep, PTL DEF Spec, StartupMatchesPolicy

\* While it runs, no device that the policies ask to block and the kernel
\* blocks is let through, not even for one step.
THEOREM StartupNeverLetsThrough == Spec => StartupKeepsDesired
  <1>. USE DEF database, kernel, stateVars, firewallVars, cycleVars
  <1>. DEFINE A == boot # "up" /\ ~HostReboot =>
                     /\ blockedMacs \cap DesiredMacs \subseteq blockedMacs'
                     /\ blockedIps \cap DesiredIps \subseteq blockedIps'
  <1>1. StartupInv /\ [Next]_vars => [A]_vars
    <2>. SUFFICES ASSUME StartupInv, Next, boot # "up", ~HostReboot
         PROVE  /\ blockedMacs \cap DesiredMacs \subseteq blockedMacs'
                /\ blockedIps \cap DesiredIps \subseteq blockedIps'
      OBVIOUS
    <2>1. CASE Startup
      BY <2>1 DEF Startup, StartupStep, StartupBlock, StartupBlocked, StartupUnblock, StartupDone,
         BlockMac, BlockIp, UnblockMac, UnblockIp, DesiredIps
    <2>2. CASE BackendCrash
      BY <2>2 DEF BackendCrash
    <2>. QED  BY <2>1, <2>2, OnlyStartupRuns DEF StartupInv
  <1>. QED
    BY <1>1, StartupInvInit, StartupInvStep, PTL DEF Spec, StartupKeepsDesired

-----------------------------------------------------------------------------
(* Following a device to its new address.  meddled is a history variable   *)
(* of MCSpec; the budgets of MCSpec play no part.                          *)

\* The moves of the lifecycle after the new address is blocked, and after the
\* new binding is written.
Blocked == {"record", "bind", "release", "remaining", "unblock"}
Bound   == {"release", "remaining", "unblock"}

\* The address a device is moved to is another one; unless a handler meddled, it
\* stays blocked from the moment it was blocked, and bound from the moment it
\* was bound, until the old address has been given up.
FollowInv ==
    /\ life.pc = "decide" => life.owner = {}
    /\ life.pc \in LifeSteps /\ life.to # NoIp => life.to # life.from
    /\ life.pc \in Blocked /\ life.to # NoIp /\ ~meddled => life.to \in blockedIps
    /\ life.pc \in Bound /\ life.to # NoIp /\ ~meddled =>
         \A d \in life.owner : <<d, life.to>> \in bindings

\* Every step of the lifecycle keeps FollowInv: it meddles with nothing itself.
LEMMA LifeKeepsFollowInv ==
  ASSUME LifeTypeOK, FollowInv, LifeStep, ~meddled' => ~meddled \/ life'.pc \notin LifeSteps
  PROVE  FollowInv'
  <1>a. ASSUME life.pc \in LifeSteps  PROVE life \in LifeRunning
    BY <1>a DEF LifeTypeOK, LifeOff, LifeWaiting, LifeSteps
  <1>1. CASE LifeTick \/ LifeDone
    BY <1>1 DEF LifeTick, LifeDone, FollowInv, LifeOff, LifeWaiting, LifeSteps, Blocked, Bound
  <1>2. CASE LifeSnapshot
    BY <1>2 DEF LifeSnapshot, FollowInv, Blocked, Bound
  <1>3. CASE LifeDecide
    <2>1. life \in LifeRunning /\ life.pc = "decide"
      BY <1>3, <1>a DEF LifeDecide, LifeSteps
    <2>2. PICK b \in life.todo :
            \/ /\ Claimed(b[1], b[2])
               /\ life' = [life EXCEPT !.pc = "release", !.todo = life.todo \ {b},
                             !.owner = {b[1]}, !.from = b[2], !.to = NoIp]
            \/ /\ Rebound(b[1], b[2])
               /\ life' = [life EXCEPT !.pc = "block", !.todo = life.todo \ {b},
                             !.owner = {b[1]}, !.from = b[2], !.to = life.leases[b[1]]]
            \/ life' = [life EXCEPT !.todo = life.todo \ {b}]
      BY <1>3 DEF LifeDecide
    <2>3. CASE life' = [life EXCEPT !.pc = "release", !.todo = life.todo \ {b},
                          !.owner = {b[1]}, !.from = b[2], !.to = NoIp]
      <3>1. life'.pc = "release" /\ life'.to = NoIp
        BY <2>1, <2>3 DEF LifeRunning
      <3>. QED  BY <3>1 DEF FollowInv
    <2>4. CASE /\ Rebound(b[1], b[2])
               /\ life' = [life EXCEPT !.pc = "block", !.todo = life.todo \ {b},
                             !.owner = {b[1]}, !.from = b[2], !.to = life.leases[b[1]]]
      <3>1. life'.pc = "block" /\ life'.from = b[2] /\ life'.to = life.leases[b[1]]
        BY <2>1, <2>4 DEF LifeRunning
      <3>2. life.leases[b[1]] # b[2]
        BY <2>4 DEF Rebound
      <3>. QED  BY <3>1, <3>2 DEF FollowInv, Blocked, Bound
    <2>5. CASE life' = [life EXCEPT !.todo = life.todo \ {b}]
      <3>1. /\ life'.pc = "decide" /\ life'.owner = life.owner
            /\ life'.from = life.from /\ life'.to = life.to
        BY <2>1, <2>5 DEF LifeRunning
      <3>. QED  BY <2>1, <3>1 DEF FollowInv, Blocked, Bound, LifeSteps
    <2>. QED  BY <2>2, <2>3, <2>4, <2>5
  <1>4. CASE LifeBlock \/ LifeRecordDevice \/ LifeRecordBinding \/ LifeRelease
    <2>1. life \in LifeRunning
      BY <1>4, <1>a DEF LifeBlock, LifeRecordDevice, LifeRecordBinding, LifeRelease, LifeSteps
    <2>2. PICK pc \in LifeSteps : pc # "decide" /\ life' = [life EXCEPT !.pc = pc]
      BY <1>4 DEF LifeBlock, LifeRecordDevice, LifeRecordBinding, LifeRelease, LifeSteps
    <2>3. /\ life'.pc = pc /\ life'.owner = life.owner
          /\ life'.from = life.from /\ life'.to = life.to
      BY <2>1, <2>2 DEF LifeRunning
    <2>4. life.pc \in LifeSteps /\ ~meddled' => ~meddled
      BY <2>2, <2>3 DEF LifeSteps
    <2>5. CASE LifeBlock
      <3>1. life.pc = "block" /\ pc = "record" /\ blockedIps' = blockedIps \cup {life.to}
        BY <2>1, <2>3, <2>5 DEF LifeBlock, BlockIp, LifeRunning
      <3>. QED  BY <2>3, <3>1 DEF FollowInv, Blocked, Bound, LifeSteps
    <2>6. CASE LifeRecordDevice
      <3>1. life.pc = "record" /\ pc = "bind" /\ blockedIps' = blockedIps
        BY <2>1, <2>3, <2>6 DEF LifeRecordDevice, kernel, LifeRunning
      <3>. QED  BY <2>3, <2>4, <3>1 DEF FollowInv, Blocked, Bound, LifeSteps
    <2>7. CASE LifeRecordBinding
      <3>1. /\ life.pc = "bind" /\ pc = "release" /\ blockedIps' = blockedIps
            /\ bindings' = bindings \cup (life.owner \X ({life.to} \ {NoIp}))
        BY <2>1, <2>3, <2>7 DEF LifeRecordBinding, BindIps, kernel, LifeRunning
      <3>. QED  BY <2>3, <2>4, <3>1 DEF FollowInv, Blocked, Bound, LifeSteps
    <2>8. CASE LifeRelease
      <3>1. /\ life.pc = "release" /\ pc = "remaining" /\ blockedIps' = blockedIps
            /\ bindings' = bindings \ (life.owner \X {life.from})
        BY <2>1, <2>3, <2>8 DEF LifeRelease, ReleaseBindings, kernel, LifeRunning
      <3>. QED  BY <2>3, <2>4, <3>1 DEF FollowInv, Blocked, Bound, LifeSteps
    <2>. QED  BY <1>4, <2>5, <2>6, <2>7, <2>8
  <1>5. CASE LifeReadRemaining \/ LifeUnblock
    <2>1. life \in LifeRunning
      BY <1>5, <1>a DEF LifeReadRemaining, LifeUnblock, LifeSteps
    <2>2. \/ life' = NextBinding
          \/ LifeReadRemaining /\ life' = [life EXCEPT !.pc = "unblock"]
      BY <1>5 DEF LifeReadRemaining, LifeUnblock
    <2>3. CASE life' = NextBinding
      <3>1. life'.pc = "decide" /\ life'.owner = {} /\ life'.to = NoIp
        BY <2>1, <2>3 DEF NextBinding, LifeRunning
      <3>. QED  BY <3>1 DEF FollowInv, Blocked, Bound
    <2>4. CASE LifeReadRemaining /\ life' = [life EXCEPT !.pc = "unblock"]
      <3>1. /\ life'.pc = "unblock" /\ life'.owner = life.owner
            /\ life'.from = life.from /\ life'.to = life.to
        BY <2>1, <2>4 DEF LifeRunning
      <3>2. life.pc = "remaining" /\ blockedIps' = blockedIps /\ bindings' = bindings
        BY <2>4 DEF LifeReadRemaining, stateVars
      <3>3. ~meddled' => ~meddled
        BY <3>1, <3>2 DEF LifeSteps
      <3>. QED  BY <3>1, <3>2, <3>3 DEF FollowInv, Blocked, Bound, LifeSteps
    <2>. QED  BY <2>2, <2>3, <2>4
  <1>. QED  BY <1>1, <1>2, <1>3, <1>4, <1>5 DEF LifeStep

\* A handler that gives up an address or a binding has moved on.
LEMMA HandlersMeddle ==
  ASSUME FirewallTypeOK, NEW r \in Requests, RequestStep(r) \/ RequestFails(r),
         ~(blockedIps \subseteq blockedIps' /\ bindings \subseteq bindings')
  PROVE  req' # req
  <1>. USE DEF database, kernel
  <1>1. CASE KernelUnblockMac(r)
    <2>1. req[r].pc = "kernel" /\ req' = [req EXCEPT ![r].pc = "release"]
      BY <1>1 DEF KernelUnblockMac, At, GoTo
    <2>2. req[r] \in BusyRequests
      BY <2>1, BusyWhenNotIdle
    <2>3. req'[r].pc = "release"
      BY <2>1, <2>2 DEF FirewallTypeOK, BusyRequests
    <2>. QED  BY <2>1, <2>3
  <1>2. CASE KernelUnblockIp(r)
    <2>1. req[r].pc = "kernel"
      BY <1>2 DEF KernelUnblockIp, At
    <2>2. req[r] \in BusyRequests
      BY <2>1, BusyWhenNotIdle
    <2>3. PICK ip, step :
             req' = [req EXCEPT ![r].ips = req[r].ips \ {ip}, ![r].pc = step] /\ ip \in req[r].ips
      BY <1>2 DEF KernelUnblockIp
    <2>4. req'[r].ips = req[r].ips \ {ip}
      BY <2>2, <2>3 DEF FirewallTypeOK, BusyRequests
    <2>. QED  BY <2>3, <2>4
  <1>3. CASE ReleaseBlock(r) \/ RequestFails(r)
    <2>1. req[r].pc # "idle" /\ req' = [req EXCEPT ![r] = IdleRequest]
      BY <1>3 DEF ReleaseBlock, RequestFails, At, Finish
    <2>2. req'[r].pc = "idle"
      BY <2>1 DEF FirewallTypeOK, IdleRequest
    <2>. QED  BY <2>1, <2>2
  <1>. QED
    BY <1>1, <1>2, <1>3 DEF RequestStep, PersistPolicy, ReadPolicy, ReadActiveIps, KernelBlock,
       NoEnforcementPath, RecordDevice, RecordBinding, BlockMac, BlockIp, BindIps, stateVars

\* While the lifecycle works, only a handler gives up addresses or bindings
\* behind its back: the lock keeps the other reconciler away, and startup is over.
LEMMA OnlyHandlersMeddle ==
  ASSUME TypeOK, LockInv, StartupInv, Next, life.pc \in LifeSteps, UNCHANGED life, ~LifeStep,
         ~(blockedIps \subseteq blockedIps' /\ bindings \subseteq bindings')
  PROVE  req' # req
  <1>. USE DEF database, kernel, stateVars, firewallVars
  <1>1. CASE Handler \/ HandlerFails
    BY <1>1, HandlersMeddle DEF Handler, HandlerFails, TypeOK
  <1>2. ~Startup
    <2>1. boot = "up"
      BY DEF StartupInv, Alone, LifeOff, LifeSteps
    <2>. QED  BY <2>1 DEF Startup, StartupStep, StartupBlock, StartupBlocked, StartupUnblock, StartupDone
  <1>3. ~Recon
    <2>1. recon.pc \notin ReconSteps /\ ~Holds("recon")
      BY DEF LockInv, Holds
    <2>2. SUFFICES ASSUME Recon  PROVE FALSE
      OBVIOUS
    <2>3. ReconStep
      BY <2>2 DEF Recon
    <2>4. ReconTick \/ ReconSnapshot \/ recon.pc \in ReconSteps
      BY <2>3 DEF ReconStep, ReconReadPolicy, ReconPlanReleases, ReconRelease, ReconReleaseDb,
         ReconReread, ReconInstall, ReconRecordDevice, ReconRecordBinding, ReconDone, ReconSteps
    <2>5. ReconTick
      BY <2>1, <2>4 DEF ReconSnapshot
    <2>. QED  BY <2>5 DEF ReconTick
  <1>4. ~BackendCrash /\ ~HostReboot
    BY DEF BackendCrash, HostReboot, Stop, LifeOff, LifeSteps
  <1>. QED
    BY <1>1, <1>2, <1>3, <1>4
    DEF Next, NewRequest, StartBlock, StartUnblock, NewQuotaRequest, StartQuotaBlock,
        StartQuotaUnblock, Start, Accept, AcceptUnconfirmedIdentity, Life,
        CycleFails, ReconFails, LifeFails, LeaseChange, LeaseGranted, LeaseExpires,
        EvidenceChange, EvidenceSeen, EvidenceFades, Sync, SyncDevice, NetworkFrame

\* The lifecycle is off at first.
LEMMA FollowInvInit == Init => FollowInv
  BY DEF Init, LifeInit, LifeOff, LifeSteps, FollowInv, Blocked, Bound

\* Every step of MCSpec keeps FollowInv.
LEMMA FollowInvStep ==
  ASSUME TypeOK, LockInv, StartupInv, FollowInv, Next, Remember
  PROVE  FollowInv'
  <1>1. CASE LifeStep
    <2>1. ~meddled' => ~meddled \/ life'.pc \notin LifeSteps
      BY DEF Remember, LifeIdle, LifeSteps
    <2>. QED  BY <1>1, <2>1, LifeKeepsFollowInv DEF TypeOK
  <1>2. CASE life' = LifeOff
    BY <1>2 DEF LifeOff, LifeSteps, FollowInv, Blocked, Bound
  <1>3. CASE UNCHANGED life /\ ~LifeStep
    <2>1. SUFFICES ASSUME life.pc \in LifeSteps  PROVE FollowInv'
      BY <1>3 DEF FollowInv, LifeSteps, Blocked, Bound
    <2>2. ~meddled' => /\ ~meddled
                       /\ blockedIps \subseteq blockedIps' /\ bindings \subseteq bindings'
      BY <1>3, <2>1, OnlyHandlersMeddle DEF Remember, LifeIdle, LifeSteps
    <2>. QED  BY <1>3, <2>2 DEF FollowInv
  <1>4. LifeStep \/ life' = LifeOff \/ UNCHANGED life
    BY DEF Next, Life, Recon, CycleFails, LifeFails, BackendCrash, HostReboot, Stop, NewRequest,
       NewQuotaRequest, Accept, Handler, HandlerFails, Startup, LeaseChange, LeaseGranted,
       LeaseExpires, EvidenceChange, EvidenceSeen, EvidenceFades, Sync, SyncDevice, NetworkFrame,
       cycleVars
  <1>. QED  BY <1>1, <1>2, <1>3, <1>4

\* No step of the lifecycle takes a device it moves from a recorded kernel block
\* to none: it gives up the old address only with the new one blocked and bound.
LEMMA FollowingProtects ==
  ASSUME TypeOK, FollowInv, LifeStep, life.pc \notin LifeIdle, ~meddled,
         NEW d \in life.owner, life.to # NoIp, Protected(d)
  PROVE  Protected(d)'
  <1>. USE DEF database, kernel, stateVars
  <1>1. PICK ip \in Ips : d \in record /\ <<d, ip>> \in bindings /\ ip \in blockedIps
    BY DEF Protected, ActiveBindings, TypeOK, StateTypeOK
  <1>2. SUFFICES \E a \in Ips : d \in record' /\ <<d, a>> \in bindings' /\ a \in blockedIps'
    BY DEF Protected, ActiveBindings
  <1>3. CASE LifeTick \/ LifeSnapshot \/ LifeDecide \/ LifeReadRemaining \/ LifeDone
    <2>1. UNCHANGED stateVars
      BY <1>3 DEF LifeTick, LifeSnapshot, LifeDecide, LifeReadRemaining, LifeDone
    <2>. QED  BY <1>1, <2>1
  <1>4. CASE LifeBlock \/ LifeRecordDevice \/ LifeRecordBinding
    BY <1>1, <1>4 DEF LifeBlock, LifeRecordDevice, LifeRecordBinding, BlockIp, ActivateRecords,
       BindIps
  <1>5. CASE LifeRelease \/ LifeUnblock
    <2>1. life.pc \in Bound
      BY <1>5 DEF LifeRelease, LifeUnblock, Bound
    <2>2. life.to # life.from /\ life.to \in blockedIps /\ <<d, life.to>> \in bindings
      BY <2>1 DEF FollowInv, Bound, Blocked, LifeSteps
    <2>3. life.to \in Ips
      BY <2>2 DEF TypeOK, StateTypeOK
    <2>4. <<d, life.to>> \in bindings' /\ life.to \in blockedIps' /\ record' = record
      BY <1>5, <2>2 DEF LifeRelease, LifeUnblock, ReleaseBindings, UnblockIp
    <2>. QED  BY <1>1, <2>3, <2>4
  <1>. QED  BY <1>3, <1>4, <1>5 DEF LifeStep

\* Following a blocked device to its new address never lets it through, unless
\* a handler meddles (IpBindingLifecycleService, case 2).
THEOREM FollowingNeverLetsThrough == MCSpec => FollowedDeviceStaysBlocked
  <1>. DEFINE A == LifeStep /\ life.pc \notin LifeIdle /\ ~meddled =>
                     \A d \in life.owner : life.to # NoIp /\ Protected(d) => Protected(d)'
  <1>. DEFINE Inv == TypeInv /\ LockInv /\ StartupInv /\ FollowInv
  <1>1. MCInit => Inv
    BY TypeInvInit, LockInvInit, StartupInvInit, FollowInvInit DEF MCInit
  <1>2. Inv /\ [MCNext]_<<vars, used, meddled>> => Inv'
    <2>1. CASE MCNext
      <3>1. Next /\ Remember
        BY <2>1 DEF MCNext, MCStep, Next
      <3>. QED
        BY <3>1, TypeInvStep, LockInvStep, StartupInvStep, FollowInvStep DEF TypeInv
    <2>2. CASE UNCHANGED <<vars, used, meddled>>
      <3>1. Inv => TypeInv' /\ LockInv' /\ StartupInv'
        BY <2>2, TypeInvStep, LockInvStep, StartupInvStep DEF TypeInv
      <3>2. Inv => FollowInv'
        BY <2>2 DEF vars, stateVars, FollowInv
      <3>. QED  BY <3>1, <3>2
    <2>. QED  BY <2>1, <2>2
  <1>3. Inv => [A]_vars
    BY FollowingProtects DEF TypeInv
  <1>. QED  BY <1>1, <1>2, <1>3, PTL DEF MCSpec, FollowedDeviceStaysBlocked

=============================================================================
