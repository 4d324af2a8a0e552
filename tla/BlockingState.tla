--------------------------- MODULE BlockingState ---------------------------
(***************************************************************************)
(* The state that every blocking service of the backend shares, and the    *)
(* operations of the two stores it lives in:                               *)
(*                                                                         *)
(*  - PostgreSQL: the desired policy, the device rows, and the record of   *)
(*    what is enforced (BlockedDevice and IpBinding rows);                 *)
(*  - the kernel: the nft sets blocked_macs and blocked_ips;               *)
(*  - the network, which the backend only reads: DHCP leases and the       *)
(*    evidence (neighbour table, captures) that a lease is really in use.  *)
(*                                                                         *)
(* A device stands for its MAC address: mac is unique per device row.      *)
(***************************************************************************)

CONSTANTS Devices,  \* device rows, one per MAC
          Ips,      \* client addresses of the subnet
          NoIp      \* the SQL NULL of an address column, or no lease

ASSUME NoIpAssumption == NoIp \notin Ips

Addresses == Ips \cup {NoIp}

\* The (identitySource, l2Visible, identityValidated) triples that the identity
\* validator and acceptUnconfirmedIdentity write, by name:
\*   direct       DHCP or STATIC_ARP, seen on layer 2, validated
\*   proxy        DHCP_CONFIRMED_PROXY, hidden behind an access point, validated
\*   accepted     PROXY_ACCEPTED_BY_ADMIN, hidden, validated by the admin
\*   unconfirmed  PROXY_UNCONFIRMED, hidden, not validated
\*   deferred     DHCP without usable neighbour evidence, hidden, not validated
Kinds == {"direct", "proxy", "accepted", "unconfirmed", "deferred"}

L2Visible(kind) == kind = "direct"
Validated(kind) == kind \in {"direct", "proxy", "accepted"}

\* Devices that can only be blocked by address.
ProxyBacked(kind) == Validated(kind) /\ ~L2Visible(kind)

VARIABLES
    policy,       \* set of devices whose DevicePolicy row has blocked = true
    identity,     \* identity[d]: the kind of device row d
    deviceIp,     \* deviceIp[d]: the ip column of device row d
    record,       \* set of devices whose BlockedDevice row is active
    bindings,     \* IpBinding rows with active = true, as <<device, ip>>
    blockedMacs,  \* nft set blocked_macs
    blockedIps,   \* nft set blocked_ips
    lease,        \* lease[d]: address of d's unexpired DHCP lease, or NoIp
    evidence      \* devices whose lease is confirmed: by the neighbour table,
                  \* by a capture, or by the recorded proxy's MAC

database  == <<policy, identity, deviceIp, record, bindings>>
kernel    == <<blockedMacs, blockedIps>>
network   == <<lease, evidence>>
stateVars == <<policy, identity, deviceIp, record, bindings,
               blockedMacs, blockedIps, lease, evidence>>

StateTypeOK ==
    /\ policy \subseteq Devices
    /\ identity \in [Devices -> Kinds]
    /\ deviceIp \in [Devices -> Addresses]
    /\ record \subseteq Devices
    /\ bindings \subseteq Devices \X Ips
    /\ blockedMacs \subseteq Devices
    /\ blockedIps \subseteq Ips
    /\ lease \in [Devices -> Addresses]
    /\ evidence \subseteq Devices

\* Every device row exists.  A row keeps the address of the lease it was last
\* seen with; its column may be NULL.
NetworkInit ==
    /\ lease \in [Devices -> Addresses]
    /\ \A d, e \in Devices : d # e /\ lease[d] = lease[e] => lease[d] = NoIp
    /\ deviceIp \in [Devices -> Addresses]
    /\ \A d \in Devices : lease[d] # NoIp => deviceIp[d] = lease[d]
    /\ evidence = {d \in Devices : lease[d] # NoIp /\ Validated(identity[d])}

\* Nothing is blocked yet.
StateInit ==
    /\ policy = {}
    /\ identity \in [Devices -> {"direct", "proxy", "unconfirmed"}]
    /\ record = {}
    /\ bindings = {}
    /\ blockedMacs = {}
    /\ blockedIps = {}
    /\ NetworkInit

-----------------------------------------------------------------------------
(* PrismaBlockedDeviceRepository.  recordBlock is two queries outside a    *)
(* transaction; releaseBlock and releaseIp are one transaction each.       *)

ActiveBindings == {b \in bindings : b[1] \in record}

ActiveIps(d) == {ip \in Ips : <<d, ip>> \in ActiveBindings}

ActivateRecords(ds) == record' = record \cup ds

BindIps(ds, ip) == bindings' = bindings \cup (ds \X ({ip} \ {NoIp}))

DeactivateRecord(d) ==
    /\ record' = record \ {d}
    /\ bindings' = {b \in bindings : b[1] # d}

ReleaseBindings(ds, ip) == bindings' = bindings \ (ds \X {ip})

-----------------------------------------------------------------------------
(* NftDeviceBlocker.  Each call runs under the nft mutation lock, adds an  *)
(* element that may exist and deletes one that may be missing.             *)

BlockMac(d) == blockedMacs' = blockedMacs \cup {d} /\ UNCHANGED blockedIps

BlockIp(ip) == blockedIps' = blockedIps \cup {ip} /\ UNCHANGED blockedMacs

UnblockMac(d, ip) ==
    /\ blockedMacs' = blockedMacs \ {d}
    /\ blockedIps' = blockedIps \ {ip}

UnblockIp(ip) == blockedIps' = blockedIps \ {ip} /\ UNCHANGED blockedMacs

=============================================================================
