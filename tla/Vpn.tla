-------------------------------- MODULE Vpn --------------------------------
(***************************************************************************)
(* The VPN: VpnService (enable, disable, configure, the monitor and the    *)
(* reconciliation at startup), the controller that restarts sing-box and   *)
(* rewrites the NAT and fail-closed rules, and the guard that copies the   *)
(* blocked addresses into a set consulted before routing.                  *)
(*                                                                         *)
(* The controller takes no lock: callers interleave at every nft command,  *)
(* and delete rules by handles they have listed before.  The guard's       *)
(* operations run under the nft mutation lock and are one step each.       *)
(***************************************************************************)
EXTENDS Naturals

CONSTANTS Handlers,   \* HTTP requests that may be in flight together
          Ips,        \* client addresses
          MaxRules    \* bound on the handles that exist or are remembered

ASSUME MaxRulesAssumption == MaxRules \in Nat

VARIABLES
    desired,   \* vpn_config.enabled
    service,   \* sing-box: "stopped", "starting", or "up" (the tunnel exists)
    rules,     \* rules[h]: the kind of the nft rule with handle h, or "none"
    guard,     \* vpnBlockedIpGuardEnabled
    blocked,   \* nft set blocked_ips
    mirror,    \* nft set vpn_blocked_ips
    anchor,    \* the rule with handle 3, which the fail-closed rule is put in
               \* front of: "new" (the table is), "present", or "gone"
    job,       \* job[c]: what caller c is doing
    boot       \* startup stage: "firewall", "nat", "vpn", or "up"

vpnVars == <<desired, service, rules, guard, blocked, mirror, anchor, job, boot>>

Handles == 1..MaxRules
NatKinds == {"uplinkNat", "vpnNat"}

\* The monitor's timer; its slot also runs the reconciliation at startup.
Callers == Handlers \cup {"monitor"}

\* pc is the command a caller is about to give, enabled and connected are the
\* arguments of the controller, todo the handles its loop has left.
Steps == {"status", "restart", "ready", "guard", "stop", "natRead", "natDelete",
          "dropRead", "dropDelete", "row"}
IdleJob == [pc |-> "idle"]
BusyJobs == [pc : Steps, op : {"enable", "disable", "configure", "reconcile", "check"},
             enabled : BOOLEAN, connected : BOOLEAN, todo : SUBSET Handles]

VpnTypeOK ==
    /\ desired \in BOOLEAN
    /\ service \in {"stopped", "starting", "up"}
    /\ rules \in [Handles -> NatKinds \cup {"drop", "none"}]
    /\ guard \in BOOLEAN
    /\ blocked \subseteq Ips
    /\ mirror \subseteq Ips
    /\ anchor \in {"new", "present", "gone"}
    /\ job \in [Callers -> {IdleJob} \cup BusyJobs]
    /\ boot \in {"firewall", "nat", "vpn", "up"}

\* After a startup, with the VPN disabled, or enabled and connected.
VpnInit ==
    /\ desired \in BOOLEAN
    /\ service = IF desired THEN "up" ELSE "stopped"
    /\ rules = [h \in Handles |-> IF h > 1 THEN "none"
                                  ELSE IF desired THEN "vpnNat" ELSE "uplinkNat"]
    /\ guard = desired
    /\ blocked = {}
    /\ mirror = {}
    /\ anchor \in {"present", "gone"}
    /\ job = [c \in Callers |-> IdleJob]
    /\ boot = "up"

-----------------------------------------------------------------------------

HandlesOf(kinds) == {h \in Handles : rules[h] \in kinds}

\* nft never uses a handle again; one that nobody holds stands for it.
FreeHandles == {h \in HandlesOf({"none"}) : \A c \in Callers :
                                              job[c] = IdleJob \/ h \notin job[c].todo}

WithRule(kind) == [rules EXCEPT ![CHOOSE h \in FreeHandles : TRUE] = kind]

AtStep(c, step) == job[c].pc = step

GoTo(c, step) == job' = [job EXCEPT ![c].pc = step]

Finish(c) == job' = [job EXCEPT ![c] = IdleJob]

Begin(c, op, step, enabled) ==
    /\ job[c] = IdleJob
    /\ job' = [job EXCEPT ![c] = [pc |-> step, op |-> op, enabled |-> enabled,
                                  connected |-> FALSE, todo |-> {}]]
    /\ UNCHANGED <<desired, service, rules, guard, blocked, mirror, anchor, boot>>

-----------------------------------------------------------------------------
(* VpnService.  A link is taken to be stored: without one enabling is      *)
(* refused, and no link is ever removed.                                   *)

StartEnable(c) == boot = "up" /\ Begin(c, "enable", "restart", TRUE)

StartDisable(c) == boot = "up" /\ Begin(c, "disable", "guard", FALSE)

\* A new configuration is applied at once if the VPN is enabled.
StartConfigure(c) == boot = "up" /\ desired /\ Begin(c, "configure", "restart", TRUE)

\* The monitor's timer reads the desired state, once.
MonitorTick == boot = "up" /\ desired /\ Begin("monitor", "check", "status", TRUE)

\* getStatus and waitForReadiness: the service is active and the tunnel exists.
Live == service = "up"

Status(c) ==
    /\ AtStep(c, "status")
    /\ job' = IF Live THEN [job EXCEPT ![c].pc = "guard", ![c].connected = TRUE]
                     ELSE [job EXCEPT ![c].pc = "restart"]
    /\ UNCHANGED <<desired, service, rules, guard, blocked, mirror, anchor, boot>>

\* A status command that fails counts as "not connected".
StatusFails(c) ==
    /\ AtStep(c, "status")
    /\ GoTo(c, "restart")
    /\ UNCHANGED <<desired, service, rules, guard, blocked, mirror, anchor, boot>>

\* The row is written when the controller is done.
WriteRow(c) ==
    /\ AtStep(c, "row")
    /\ desired' = CASE job[c].op = "enable"  -> TRUE
                    [] job[c].op = "disable" -> FALSE
                    [] OTHER                 -> desired
    /\ boot' = IF job[c].op = "reconcile" THEN "up" ELSE boot
    /\ Finish(c)
    /\ UNCHANGED <<service, rules, guard, blocked, mirror, anchor>>

-----------------------------------------------------------------------------
(* SingleInterfaceVpnController.  A systemctl command that fails is        *)
(* ignored.                                                                *)

Restart(c) ==
    /\ AtStep(c, "restart")
    /\ service' \in {service, "stopped", "starting"}
    /\ GoTo(c, "ready")
    /\ UNCHANGED <<desired, rules, guard, blocked, mirror, anchor, boot>>

\* waitForReadiness: polls until the tunnel exists or the time is up.
Ready(c) ==
    /\ AtStep(c, "ready")
    /\ \E connected \in {Live, FALSE} :
         job' = [job EXCEPT ![c].pc = "guard", ![c].connected = connected]
    /\ UNCHANGED <<desired, service, rules, guard, blocked, mirror, anchor, boot>>

\* Faulty variant, for the mutation runs: addresses blocked before are not copied.
SetGuardForNewBlocks(c) ==
    /\ AtStep(c, "guard")
    /\ guard' = job[c].enabled
    /\ mirror' = IF job[c].enabled THEN mirror ELSE {}
    /\ GoTo(c, IF job[c].enabled THEN "natRead" ELSE "stop")
    /\ UNCHANGED <<desired, service, rules, blocked, anchor, boot>>

\* setVpnBlockedIpGuardEnabled.
SetGuard(c) ==
    /\ AtStep(c, "guard")
    /\ guard' = job[c].enabled
    /\ mirror' = IF job[c].enabled THEN mirror \cup blocked ELSE {}
    /\ GoTo(c, IF job[c].enabled THEN "natRead" ELSE "stop")
    /\ UNCHANGED <<desired, service, rules, blocked, anchor, boot>>

Stop(c) ==
    /\ AtStep(c, "stop")
    /\ service' \in {service, "stopped"}
    /\ GoTo(c, "natRead")
    /\ UNCHANGED <<desired, rules, guard, blocked, mirror, anchor, boot>>

\* setNat lists the rules it is going to delete...
ListRules(c, step, kinds, next) ==
    /\ AtStep(c, step)
    /\ job' = [job EXCEPT ![c].pc = next, ![c].todo = HandlesOf(kinds)]
    /\ UNCHANGED <<desired, service, rules, guard, blocked, mirror, anchor, boot>>

ListNat(c) == ListRules(c, "natRead", NatKinds, "natDelete")

\* Faulty variant, for the mutation runs: looked for only when it is made again.
ListDropsWhenLost(c) ==
    ListRules(c, "dropRead", IF job[c].connected THEN {} ELSE {"drop"}, "dropDelete")

ListDrops(c) == ListRules(c, "dropRead", {"drop"}, "dropDelete")

\* ... and deletes them one by one.
DeleteRule(c) ==
    /\ AtStep(c, "natDelete") \/ AtStep(c, "dropDelete")
    /\ \E h \in job[c].todo :
         /\ rules[h] # "none"
         /\ rules' = [rules EXCEPT ![h] = "none"]
         /\ job' = [job EXCEPT ![c].todo = @ \ {h}]
    /\ UNCHANGED <<desired, service, guard, blocked, mirror, anchor, boot>>

\* Another caller has deleted the rule: nft refuses, and the operation fails.
DeleteConflict(c) ==
    /\ AtStep(c, "natDelete") \/ AtStep(c, "dropDelete")
    /\ \E h \in job[c].todo : rules[h] = "none"
    /\ Finish(c)
    /\ UNCHANGED <<desired, service, rules, guard, blocked, mirror, anchor, boot>>

\* Faulty variant, for the mutation runs: a rule that setNat will not find again.
AddNatWithoutComment(c) ==
    /\ AtStep(c, "natDelete") /\ job[c].todo = {}
    /\ rules' = WithRule("unmarked")
    /\ GoTo(c, "dropRead")
    /\ UNCHANGED <<desired, service, guard, blocked, mirror, anchor, boot>>

AddNat(c) ==
    /\ AtStep(c, "natDelete") /\ job[c].todo = {}
    /\ rules' = WithRule(IF job[c].connected THEN "vpnNat" ELSE "uplinkNat")
    /\ GoTo(c, "dropRead")
    /\ UNCHANGED <<desired, service, guard, blocked, mirror, anchor, boot>>

\* Faulty variant, for the mutation runs: setNat's arguments are swapped.
WantsDropSwapped(c) == job[c].connected /\ ~job[c].enabled

WantsDrop(c) == job[c].enabled /\ ~job[c].connected

\* The end of setNat; configure reports an error if there is no tunnel.
AddDrop(c) ==
    /\ AtStep(c, "dropDelete") /\ job[c].todo = {}
    /\ WantsDrop(c) => anchor = "present"
    /\ rules' = IF WantsDrop(c) THEN WithRule("drop") ELSE rules
    /\ GoTo(c, "row")
    /\ UNCHANGED <<desired, service, guard, blocked, mirror, anchor, boot>>

Down == job' = [c \in Callers |-> IdleJob] /\ guard' = FALSE /\ boot' = "firewall"

\* The fail-closed rule is inserted at "position 3", which nft takes for a rule's
\* handle: without that rule nft refuses, and the operation ends here, the rule
\* towards the uplink added.  A startup that fails ends the backend.
DropRefused(c) ==
    /\ AtStep(c, "dropDelete") /\ job[c].todo = {}
    /\ WantsDrop(c) /\ anchor # "present"
    /\ IF job[c].op = "reconcile" THEN Down ELSE Finish(c) /\ UNCHANGED <<guard, boot>>
    /\ UNCHANGED <<desired, service, rules, blocked, mirror, anchor>>

\* A command or query fails, and the operation ends there.  The guard may have
\* copied or removed some addresses.
JobFails(c) ==
    /\ job[c] # IdleJob /\ job[c].op # "reconcile"
    /\ \/ mirror' = mirror
       \/ AtStep(c, "guard") /\ job[c].enabled /\ \E s \in SUBSET blocked : mirror' = mirror \cup s
       \/ AtStep(c, "guard") /\ ~job[c].enabled /\ mirror' \in SUBSET mirror
    /\ Finish(c)
    /\ UNCHANGED <<desired, service, rules, guard, blocked, anchor, boot>>

JobStep(c) ==
    \/ Status(c) \/ Restart(c) \/ Ready(c) \/ SetGuard(c) \/ Stop(c)
    \/ ListNat(c) \/ DeleteRule(c) \/ DeleteConflict(c) \/ AddNat(c)
    \/ ListDrops(c) \/ AddDrop(c) \/ DropRefused(c) \/ WriteRow(c)

-----------------------------------------------------------------------------
(* Startup: ensureFirewallState, ensureSingleInterfaceNat, and, after the  *)
(* other services, VpnService.reconcile.  A startup that fails is a crash. *)

\* The control chain is flushed, the fail-closed rule with it, and gets its two
\* rules again.  Handles are never used twice, so that only in a new table one of
\* them may have handle 3; whether it has depends on what else the table holds.
BootFirewall ==
    /\ boot = "firewall"
    /\ rules' = [h \in Handles |-> IF rules[h] = "drop" THEN "none" ELSE rules[h]]
    /\ anchor' \in IF anchor = "new" THEN {"present", "gone"} ELSE {"gone"}
    /\ guard' = FALSE
    /\ mirror' = {}
    /\ boot' = "nat"
    /\ UNCHANGED <<desired, service, blocked, job>>

\* One rule towards the uplink is replaced, or made.
BootNat ==
    /\ boot = "nat"
    /\ LET old == HandlesOf({"uplinkNat"})
       IN  rules' = IF old = {} THEN WithRule("uplinkNat") ELSE rules
    /\ boot' = "vpn"
    /\ UNCHANGED <<desired, service, guard, blocked, mirror, anchor, job>>

BootVpn ==
    /\ boot = "vpn"
    /\ Begin("monitor", "reconcile", IF desired THEN "restart" ELSE "guard", desired)

Boot == BootFirewall \/ BootNat \/ BootVpn

BackendCrash == Down /\ UNCHANGED <<desired, service, rules, blocked, mirror, anchor>>

HostReboot ==
    /\ Down
    /\ service' = "stopped"
    /\ rules' = [h \in Handles |-> "none"]
    /\ anchor' = "new"
    /\ blocked' = {}
    /\ mirror' = {}
    /\ UNCHANGED desired

-----------------------------------------------------------------------------
(* Outside VpnService: sing-box and its network, and blocking by address.  *)

TunnelRises ==
    /\ service = "starting"
    /\ service' = "up"
    /\ UNCHANGED <<desired, rules, guard, blocked, mirror, anchor, job, boot>>

TunnelFalls ==
    /\ service = "up"
    /\ service' \in {"starting", "stopped"}
    /\ UNCHANGED <<desired, rules, guard, blocked, mirror, anchor, job, boot>>

BlockIp(ip) ==
    /\ boot \notin {"firewall", "nat"}
    /\ blocked' = blocked \cup {ip}
    /\ mirror' = IF guard THEN mirror \cup {ip} ELSE mirror
    /\ UNCHANGED <<desired, service, rules, guard, anchor, job, boot>>

UnblockIp(ip) ==
    /\ boot \notin {"firewall", "nat"}
    /\ blocked' = blocked \ {ip}
    /\ mirror' = mirror \ {ip}
    /\ UNCHANGED <<desired, service, rules, guard, anchor, job, boot>>

\* The second command fails: the guard's set is as it was.
BlockIpHalfway(ip) ==
    /\ boot \notin {"firewall", "nat"}
    /\ blocked' = blocked \cup {ip}
    /\ UNCHANGED <<desired, service, rules, guard, mirror, anchor, job, boot>>

UnblockIpHalfway(ip) ==
    /\ boot \notin {"firewall", "nat"}
    /\ blocked' = blocked \ {ip}
    /\ UNCHANGED <<desired, service, rules, guard, mirror, anchor, job, boot>>

-----------------------------------------------------------------------------

NewCall == \E c \in Handlers : StartEnable(c) \/ StartDisable(c) \/ StartConfigure(c)

Call == \E c \in Callers : JobStep(c)

CallFails == \E c \in Callers : JobFails(c) \/ StatusFails(c)

VpnCrash == BackendCrash \/ HostReboot

TunnelChange == TunnelRises \/ TunnelFalls

Blocking == \E ip \in Ips : BlockIp(ip) \/ UnblockIp(ip)

BlockingFails == \E ip \in Ips : BlockIpHalfway(ip) \/ UnblockIpHalfway(ip)

VpnNext ==
    \/ NewCall \/ MonitorTick \/ Call \/ CallFails \/ Boot \/ VpnCrash
    \/ TunnelChange \/ Blocking \/ BlockingFails

VpnSpec == VpnInit /\ [][VpnNext]_vpnVars

\* Timers fire and commands time out: whoever has started goes on, and the
\* monitor ticks again and again.
VpnFairness ==
    /\ WF_vpnVars(Boot)
    /\ WF_vpnVars(MonitorTick)
    /\ \A c \in Callers : WF_vpnVars(JobStep(c))

-----------------------------------------------------------------------------

Quiet == boot = "up" /\ \A c \in Callers : job[c] = IdleJob

KindsOfRules == {rules[h] : h \in Handles} \ {"none"}

\* After failures, crashes, changes of the tunnel and colliding callers the
\* system finds back: in the end, while the VPN is enabled, its tunnel exists and
\* nobody is rewriting the rules, clients leave through the tunnel, and no rule
\* towards the uplink or against leaving is left over (VpnService.checkConnection).
TunnelSettles == <>[](desired /\ Quiet /\ Live => KindsOfRules = {"vpnNat"})

\* In the end the guard's set holds every blocked address while the VPN is
\* enabled, though blocking and the guard fail halfway and restarts clear it.
GuardCatchesUp == <>[](desired /\ Quiet => blocked \subseteq mirror)

-----------------------------------------------------------------------------
(* What the documentation promises and the code does not keep.             *)

\* Clients are not masqueraded onto the uplink, or are dropped before it.
Closed == HandlesOf({"uplinkNat"}) = {} \/ HandlesOf({"drop"}) # {}

\* README.md:579 forbids to "silently fail open when an enabled VPN policy
\* requires fail-closed behavior": in the end, while the VPN is enabled and
\* nobody is rewriting the rules, nothing leaves on the uplink.
SettlesClosed == <>[](desired /\ Quiet => Closed)

\* The same, of single steps: the monitor, repairing a lost tunnel, never opens
\* what is closed.
MonitorKeepsClosed ==
    [][desired /\ Closed /\ JobStep("monitor") => Closed']_vpnVars

\* Section 13.1 of the implementation spec, line 333: units restart on failure,
\* which makes "the system self-healing": the backend comes up again.
ComesUp == []<>(boot = "up")

\* Section 9.2 of the implementation spec: with the VPN disabled the "nftables
\* postrouting masquerade rule targets UPLINK_INTERFACE".
DisabledIsDirect ==
    <>[](~desired /\ Quiet => HandlesOf({"uplinkNat"}) # {} /\ HandlesOf({"vpnNat", "drop"}) = {})

=============================================================================
