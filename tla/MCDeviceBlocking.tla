------------------------- MODULE MCDeviceBlocking -------------------------
(***************************************************************************)
(* DeviceBlocking with a budget for every event the backend does not       *)
(* schedule itself, so that TLC's state space is finite.  The reconcilers  *)
(* and the started handlers are not bounded.                               *)
(***************************************************************************)
EXTENDS DeviceBlocking, Naturals, TLC

CONSTANTS
    MaxRequests,   \* admin requests
    MaxQuota,      \* quota blocks and unblocks
    MaxAccepts,    \* acceptances of an unconfirmed identity
    MaxFailures,   \* failed handlers and failed cycles
    MaxCrashes,    \* backend restarts and host reboots
    MaxLeases,     \* lease changes
    MaxEvidence,   \* changes of the evidence
    MaxSyncs       \* discovery results merged into a row

VARIABLES
    used,      \* used[e]: events of kind e that have happened
    meddled    \* history: since the lifecycle took its snapshot, a handler has
               \* unblocked an address or ended a binding

Budget == [request |-> MaxRequests, quota |-> MaxQuota, accept |-> MaxAccepts,
           fail |-> MaxFailures, crash |-> MaxCrashes, lease |-> MaxLeases,
           evidence |-> MaxEvidence, sync |-> MaxSyncs]

Spend(event) ==
    /\ used[event] < Budget[event]
    /\ used' = [used EXCEPT ![event] = @ + 1]

MCInit ==
    /\ Init
    /\ used = [e \in DOMAIN Budget |-> 0]
    /\ meddled = FALSE

Remember ==
    meddled' = /\ life'.pc \notin LifeIdle
               /\ \/ meddled
                  \/ /\ req' # req
                     /\ ~(blockedIps \subseteq blockedIps' /\ bindings \subseteq bindings')

MCStep ==
    \/ NewRequest /\ Spend("request")
    \/ NewQuotaRequest /\ Spend("quota")
    \/ Accept /\ Spend("accept")
    \/ HandlerFails /\ Spend("fail")
    \/ CycleFails /\ Spend("fail")
    \/ BackendCrash /\ Spend("crash")
    \/ HostReboot /\ Spend("crash")
    \/ LeaseChange /\ Spend("lease")
    \/ EvidenceChange /\ Spend("evidence")
    \/ Sync /\ Spend("sync")
    \/ (Handler \/ Startup \/ Recon \/ Life) /\ UNCHANGED used

MCNext == MCStep /\ Remember

MCSpec == MCInit /\ [][MCNext]_<<vars, used, meddled>>

MCFairSpec == MCSpec /\ Fairness

\* The address at which a blocking handler has left d.
RowIps(d) == {deviceIp[d]} \ {NoIp}

\* A running system of hidden devices, some of which have been blocked by
\* handlers that nothing disturbed, each at the address its row has.  Up to
\* the names of devices and addresses: one of them is d at ip.
BlockedInit ==
    LET d  == CHOOSE e \in Devices : TRUE
        ip == CHOOSE i \in Ips : TRUE
    IN  /\ policy \in SUBSET Devices
        /\ d \in policy
        /\ identity = [e \in Devices |-> "accepted"]
        /\ NetworkInit
        /\ deviceIp[d] = ip
        /\ \A e \in policy : RowIps(e) # {}
        /\ record = policy
        /\ bindings = UNION {{e} \X RowIps(e) : e \in policy}
        /\ blockedMacs = {}
        /\ blockedIps = UNION {RowIps(e) : e \in policy}
        /\ FirewallInit
        /\ ReconInit
        /\ LifeInit
        /\ lockQueue = <<>>
        /\ used = [e \in DOMAIN Budget |-> 0]
        /\ meddled = FALSE

MCBlockedSpec == BlockedInit /\ [][MCNext]_<<vars, used, meddled>> /\ Fairness

\* A binding of d whose address the kernel blocks.
Protected(d) == \E b \in ActiveBindings : b[1] = d /\ b[2] \in blockedIps

\* Following a blocked device to its new address never lets it through: as long
\* as no handler meddles, no step of the lifecycle takes the device it moves
\* from a recorded kernel block to none (IpBindingLifecycleService, case 2).
FollowedDeviceStaysBlocked ==
    [][LifeStep /\ life.pc \notin LifeIdle /\ ~meddled =>
         \A d \in life.owner : life.to # NoIp /\ Protected(d) => Protected(d)']_vars

\* Interchangeable values; used by the runs without a liveness property.
Symmetry == Permutations(Devices) \cup Permutations(Ips) \cup Permutations(Requests)

=============================================================================
