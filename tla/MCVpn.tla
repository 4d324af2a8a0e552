------------------------------- MODULE MCVpn -------------------------------
(***************************************************************************)
(* Vpn with a budget for every event that the backend does not schedule.   *)
(***************************************************************************)
EXTENDS Vpn

CONSTANTS
    MaxCalls,      \* enable, disable and configure requests
    MaxTroubles,   \* failed operations, backend restarts and host reboots
    MaxChanges     \* changes of the tunnel, addresses blocked or unblocked

VARIABLES
    used,    \* used[e]: events of kind e that have happened
    single   \* history: busy callers that no other one has overlapped so far

Budget == [call |-> MaxCalls, trouble |-> MaxTroubles, change |-> MaxChanges]

Spend(event) ==
    /\ used[event] < Budget[event]
    /\ used' = [used EXCEPT ![event] = @ + 1]

MCVpnInit ==
    /\ VpnInit
    /\ used = [e \in DOMAIN Budget |-> 0]
    /\ single = {}

Busy == {c \in Callers : job[c] # IdleJob}

Watch ==
    single' = {c \in Busy' : Busy' = {c} /\ (c \in Busy => c \in single)}

MCVpnStep ==
    \/ NewCall /\ Spend("call")
    \/ (CallFails \/ BlockingFails \/ VpnCrash) /\ Spend("trouble")
    \/ (TunnelChange \/ Blocking) /\ Spend("change")
    \/ (MonitorTick \/ Call \/ Boot) /\ UNCHANGED used

MCVpnNext == MCVpnStep /\ Watch

MCVpnSpec == MCVpnInit /\ [][MCVpnNext]_<<vpnVars, used, single>>

MCFairSpec == MCVpnSpec /\ VpnFairness

\* What setNat has been asked for.
Wanted(call) ==
    IF call.connected THEN {"vpnNat"}
    ELSE {"uplinkNat"} \cup (IF call.enabled THEN {"drop"} ELSE {})

\* A request, a check of the monitor or a startup that ends without an error, and
\* that no other caller overlapped, leaves exactly the rules it was to make,
\* whatever earlier operations left half done: with the VPN enabled and no tunnel
\* there is the fail-closed rule, or an error (SingleInterfaceVpnController.setNat).
SuccessIsExact ==
    [][\A c \in single : WriteRow(c) => KindsOfRules = Wanted(job[c])]_vpnVars

=============================================================================
