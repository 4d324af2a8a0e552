-------------------------- MODULE FirewallService --------------------------
(***************************************************************************)
(* FirewallService: the handlers that block and unblock a device for the   *)
(* admin or for its quota, and the rebuild of the kernel sets at startup.  *)
(*                                                                         *)
(* A handler is cut at its awaits.  It reads the device row once, at the   *)
(* start, and goes on using that copy; between two of its steps any other  *)
(* handler, any reconciler and the network may run.  No handler takes the  *)
(* reconcilers' lock.                                                      *)
(***************************************************************************)
EXTENDS BlockingState

CONSTANT Requests   \* handlers that may be in flight together

VARIABLES
    req,   \* req[r]: the handler in slot r
    boot   \* stage of FirewallService.reconcile: "block", "unblock", or "up"

firewallVars == <<req, boot>>

Blocking   == {"block", "quotaBlock"}
Unblocking == {"unblock", "quotaUnblock"}
AdminOps   == {"block", "unblock"}

\* pc names the await a handler is about to perform.
RequestSteps == {"policy", "policyRead", "activeIps", "kernel", "record", "bind", "release"}

IdleRequest == [pc |-> "idle"]
BusyRequests ==
    [pc : RequestSteps, op : Blocking \cup Unblocking,
     device : Devices, kind : Kinds, ip : Addresses, ips : SUBSET Ips]

FirewallTypeOK ==
    /\ req \in [Requests -> {IdleRequest} \cup BusyRequests]
    /\ boot \in {"block", "unblock", "up"}

FirewallInit ==
    /\ req = [r \in Requests |-> IdleRequest]
    /\ boot = "up"

-----------------------------------------------------------------------------

At(r, step) == req[r].pc = step

GoTo(r, step) == req' = [req EXCEPT ![r].pc = step]

Finish(r) == req' = [req EXCEPT ![r] = IdleRequest]

\* resolveDeviceIdentifier: the handler's copy of the device row.
Start(r, op, d, step) ==
    /\ boot = "up"
    /\ At(r, "idle")
    /\ req' = [req EXCEPT ![r] =
                 [pc |-> step, op |-> op, device |-> d, kind |-> identity[d],
                  ip |-> deviceIp[d], ips |-> {}]]
    /\ UNCHANGED <<stateVars, boot>>

\* A requester at address from may not block the device row that has it.
StartBlock(r, d, from) ==
    /\ Validated(identity[d])
    /\ from # NoIp => deviceIp[d] # from
    /\ Start(r, "block", d, "policy")

StartUnblock(r, d) == Start(r, "unblock", d, "policy")

StartQuotaBlock(r, d) == Validated(identity[d]) /\ Start(r, "quotaBlock", d, "kernel")

StartQuotaUnblock(r, d) == Start(r, "quotaUnblock", d, "policyRead")

\* Where an unblocking handler goes on: by MAC, or by the recorded addresses.
UnblockStep(r) == IF L2Visible(req[r].kind) THEN "kernel" ELSE "activeIps"

\* The desired state is durable before the kernel is touched.
PersistPolicy(r) ==
    /\ At(r, "policy")
    /\ \/ /\ req[r].op = "block"
          /\ policy' = policy \cup {req[r].device}
          /\ GoTo(r, "kernel")
       \/ /\ req[r].op = "unblock"
          /\ policy' = policy \ {req[r].device}
          /\ GoTo(r, UnblockStep(r))
    /\ UNCHANGED <<identity, deviceIp, record, bindings, kernel, network, boot>>

\* unblockForQuota leaves a device alone that the admin also blocked.
ReadPolicy(r) ==
    /\ At(r, "policyRead")
    /\ IF req[r].device \in policy THEN Finish(r) ELSE GoTo(r, UnblockStep(r))
    /\ UNCHANGED <<stateVars, boot>>

\* unblockForQuota falls back to the address of the device row.
ReadActiveIps(r) ==
    LET active == ActiveIps(req[r].device)
        ips    == IF active = {} /\ req[r].op = "quotaUnblock"
                  THEN {req[r].ip} \ {NoIp} ELSE active
    IN  /\ At(r, "activeIps")
        /\ req' = [req EXCEPT ![r].ips = ips,
                              ![r].pc = IF ips = {} THEN "release" ELSE "kernel"]
        /\ UNCHANGED <<stateVars, boot>>

KernelBlock(r) ==
    /\ At(r, "kernel") /\ req[r].op \in Blocking
    /\ \/ L2Visible(req[r].kind) /\ BlockMac(req[r].device)
       \/ ~L2Visible(req[r].kind) /\ req[r].ip # NoIp /\ BlockIp(req[r].ip)
    /\ GoTo(r, "record")
    /\ UNCHANGED <<database, network, boot>>

\* A hidden device without an address: the handler ends, its policy stored.
NoEnforcementPath(r) ==
    /\ At(r, "kernel") /\ req[r].op \in Blocking
    /\ ~L2Visible(req[r].kind) /\ req[r].ip = NoIp
    /\ Finish(r)
    /\ UNCHANGED <<stateVars, boot>>

KernelUnblockMac(r) ==
    /\ At(r, "kernel") /\ req[r].op \in Unblocking
    /\ L2Visible(req[r].kind)
    /\ UnblockMac(req[r].device, req[r].ip)
    /\ GoTo(r, "release")
    /\ UNCHANGED <<database, network, boot>>

KernelUnblockIp(r) ==
    /\ At(r, "kernel") /\ req[r].op \in Unblocking
    /\ ~L2Visible(req[r].kind)
    /\ \E ip \in req[r].ips :
         LET rest == req[r].ips \ {ip}
         IN  /\ UnblockIp(ip)
             /\ req' = [req EXCEPT ![r].ips = rest,
                                   ![r].pc = IF rest = {} THEN "release" ELSE "kernel"]
    /\ UNCHANGED <<database, network, boot>>

\* recordBlock: the BlockedDevice row, then the IpBinding row.
RecordDevice(r) ==
    /\ At(r, "record")
    /\ ActivateRecords({req[r].device})
    /\ IF req[r].ip = NoIp THEN Finish(r) ELSE GoTo(r, "bind")
    /\ UNCHANGED <<policy, identity, deviceIp, bindings, kernel, network, boot>>

RecordBinding(r) ==
    /\ At(r, "bind")
    /\ BindIps({req[r].device}, req[r].ip)
    /\ Finish(r)
    /\ UNCHANGED <<policy, identity, deviceIp, record, kernel, network, boot>>

ReleaseBlock(r) ==
    /\ At(r, "release")
    /\ DeactivateRecord(req[r].device)
    /\ Finish(r)
    /\ UNCHANGED <<policy, identity, deviceIp, kernel, network, boot>>

\* A query or a command fails: the handler answers with an error (202 once the
\* policy is stored) and leaves everything it did so far.  An unblock by MAC may
\* fail between its two deletions.
RequestFails(r) ==
    /\ ~At(r, "idle")
    /\ Finish(r)
    /\ \/ UNCHANGED kernel
       \/ /\ At(r, "kernel") /\ req[r].op \in Unblocking /\ L2Visible(req[r].kind)
          /\ UnblockMac(req[r].device, NoIp)
    /\ UNCHANGED <<database, network, boot>>

RequestStep(r) ==
    \/ PersistPolicy(r) \/ ReadPolicy(r) \/ ReadActiveIps(r)
    \/ KernelBlock(r) \/ NoEnforcementPath(r)
    \/ KernelUnblockMac(r) \/ KernelUnblockIp(r)
    \/ RecordDevice(r) \/ RecordBinding(r) \/ ReleaseBlock(r)

\* acceptUnconfirmedIdentity, with the acknowledgement supplied.
AcceptUnconfirmedIdentity(d) ==
    /\ boot = "up"
    /\ identity[d] = "unconfirmed"
    /\ identity' = [identity EXCEPT ![d] = "accepted"]
    /\ UNCHANGED <<policy, deviceIp, record, bindings, kernel, network, firewallVars>>

-----------------------------------------------------------------------------
(* FirewallService.reconcile.  It runs alone, before the timers start and  *)
(* before the server listens, so the rows it reads do not change under it. *)

DesiredMacs == {d \in policy : L2Visible(identity[d])}

\* Faulty variant, for the mutation runs: the NULL address is not left out.
DesiredIpsWithNull == {deviceIp[d] : d \in {e \in policy : ProxyBacked(identity[e])}}

DesiredIps == {deviceIp[d] : d \in {e \in policy : ProxyBacked(identity[e])}} \ {NoIp}

StartupBlock ==
    /\ boot = "block"
    /\ \/ \E d \in DesiredMacs \ blockedMacs : BlockMac(d)
       \/ \E ip \in DesiredIps \ blockedIps : BlockIp(ip)
    /\ UNCHANGED <<database, network, firewallVars>>

StartupBlocked ==
    /\ boot = "block"
    /\ DesiredMacs \subseteq blockedMacs /\ DesiredIps \subseteq blockedIps
    /\ boot' = "unblock"
    /\ UNCHANGED <<stateVars, req>>

\* Faulty variant, for the mutation runs: every address is swept, wanted or not.
StartupUnblockEverything ==
    /\ boot = "unblock"
    /\ \/ \E d \in blockedMacs \ DesiredMacs : UnblockMac(d, NoIp)
       \/ \E ip \in blockedIps : UnblockIp(ip)
    /\ UNCHANGED <<database, network, firewallVars>>

StartupUnblock ==
    /\ boot = "unblock"
    /\ \/ \E d \in blockedMacs \ DesiredMacs : UnblockMac(d, NoIp)
       \/ \E ip \in blockedIps \ DesiredIps : UnblockIp(ip)
    /\ UNCHANGED <<database, network, firewallVars>>

\* Faulty variant, for the mutation runs: the address sweep may be skipped.
StartupDoneWithoutIpSweep ==
    /\ boot = "unblock"
    /\ blockedMacs \subseteq DesiredMacs
    /\ boot' = "up"
    /\ UNCHANGED <<stateVars, req>>

StartupDone ==
    /\ boot = "unblock"
    /\ blockedMacs \subseteq DesiredMacs /\ blockedIps \subseteq DesiredIps
    /\ boot' = "up"
    /\ UNCHANGED <<stateVars, req>>

StartupStep == StartupBlock \/ StartupBlocked \/ StartupUnblock \/ StartupDone

=============================================================================
