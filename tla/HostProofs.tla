------------------------------- MODULE HostProofs ------------------------------
(***************************************************************************)
(* The two services that reconfigure the host's network.  First, what a    *)
(* setup request does to it, for any configurations and any number of      *)
(* requests, of failures and of crashes; at the end, for any number of     *)
(* callers, addresses and handles, what a VPN request makes of the rules.  *)
(*                                                                         *)
(* RolledBack rests on RollInv: of a rollback that runs alone, the files   *)
(* restored so far, and from then on all of them, are those of the latest  *)
(* snapshot. FailedApplyRestored and SuccessWhole rest on AloneInv, which  *)
(* follows an apply that nobody overlaps from step to step: what it has to *)
(* give back and can, what it has given back, and what it has put in       *)
(* force. SuccessExact rests on SingleInv, which follows a VPN caller that *)
(* nobody overlaps through setNat: which rules it still has to delete, and *)
(* which it has left. Nothing is said of requests that overlap.            *)
(***************************************************************************)
EXTENDS MCSetup, MCVpn, TLAPS

PCs == {"idle", "snapshot", "gateway", "write", "migrate", "load", "restart",
        "health", "readflag", "writeflag", "ungateway", "restore", "nft",
        "reload", "applied", "failed", "rolledback"}

\* The types; and the gateway address to be added is one of a configuration.
TInv ==
    /\ SetupTypeOK
    /\ \A r \in Requests : req[r].pc \in {"snapshot", "gateway"} => req[r].input \in Inputs

-----------------------------------------------------------------------------
\* A rollback, and how far it has come: Undone holds of one that no other
\* request has overlapped since the process started.
RollbackSteps == {"restore", "nft", "reload", "readflag", "writeflag"}

Undone(t) ==
    /\ t.activated
    /\ snapshots # <<>> /\ t.snap = Last(snapshots)
    /\ t.pc = "restore" => \A n \in 1 .. t.next - 1 : files[Paths[n]] = t.snap.files[Paths[n]]
    /\ t.pc # "restore" => files = t.snap.files
    /\ t.pc = "writeflag" => t.read = files["config"]

RollInv ==
    \A r \in Requests :
        req[r].op = "rollback" =>
            /\ req[r].pc \in RollbackSteps \cup {"applied", "failed", "rolledback"}
            /\ (/\ Active(r) /\ req[r].saved
                /\ \A other \in Requests \ {r} : At(other, "idle")) => Undone(req[r])

-----------------------------------------------------------------------------
\* An apply that no other request has overlapped, old being what it can give
\* back of the host: what it has done so far (Written, Served), what it will
\* give back (Kept) and has given back (Restored).
Returning == {"restore", "nft", "reload"}
Undoing == {"ungateway"} \cup Returning
FilesWritten == {"migrate", "load", "restart", "health", "readflag", "writeflag"}

Kept(t, old) ==
    /\ t.pc \in {"snapshot", "gateway"} => ~t.added /\ t.next = 1
    /\ t.pc = "ungateway" => t.added
    /\ t.pc \in Returning => addresses = old.addresses
    /\ t.pc \notin Returning =>
          /\ t.added => t.input \notin old.addresses
          /\ addresses = IF t.added THEN old.addresses \cup {t.input} ELSE old.addresses
    /\ t.saved => t.snap = [files |-> old.files, completed |-> old.completed]
    /\ t.pc = "gateway" \/ t.added \/ t.pc \in Undoing => t.saved
    /\ t.pc = "snapshot" => files = old.files /\ completed = old.completed
    /\ ~t.activated => dnsmasq \in {old.dnsmasq, "failed"}

Restored(t, old) ==
    /\ t.pc = "restore" =>
          /\ \A n \in 1 .. t.next - 1 : files[Paths[n]] = old.files[Paths[n]]
          /\ t.next > 1 => completed = old.completed
    /\ t.pc \in {"nft", "reload"} => files = old.files /\ completed = old.completed

Written(t) ==
    /\ t.pc = "write" => \A n \in 1 .. t.next - 1 : files[Paths[n]] = t.input
    /\ t.pc \in FilesWritten => \A n \in 1 .. 3 : files[Paths[n]] = t.input
    /\ t.pc = "writeflag" => t.read = t.input

Served(t) ==
    t.activate =>
        /\ t.pc \in {"write"} \cup FilesWritten => t.input \in addresses
        /\ t.pc \in FilesWritten \ {"migrate", "load"} => table
        /\ t.pc \in {"health", "readflag", "writeflag"} => dnsmasq = t.input

ApplyCourse(t, old) == Kept(t, old) /\ Restored(t, old) /\ Written(t) /\ Served(t)

AloneInv ==
    /\ alone \subseteq Requests
    /\ \A r \in alone :
          /\ Active(r)
          /\ \A other \in Requests \ {r} : ~Active(other)
          /\ At(r, "snapshot") => missed[r] = {}
          /\ req[r].op = "apply" => ApplyCourse(req[r], Recoverable(r))

-----------------------------------------------------------------------------
\* Paths, fields and single writes.

LEMMA PathFacts ==
    /\ Len(Paths) = 4 /\ Paths[1] = "config" /\ Paths[2] = "dnsmasq"
    /\ Paths[3] = "nftables" /\ Paths[4] = "legacy"
    /\ PathSet = {"config", "dnsmasq", "nftables", "legacy"}
<1>1. /\ Len(Paths) = 4 /\ Paths[1] = "config" /\ Paths[2] = "dnsmasq"
      /\ Paths[3] = "nftables" /\ Paths[4] = "legacy" /\ DOMAIN Paths = 1 .. 4
  BY DEF Paths
<1>2. PathSet = {Paths[n] : n \in 1 .. 4}
  BY <1>1 DEF PathSet, Range
<1> QED BY <1>1, <1>2

LEMMA LatestType ==
    ASSUME NEW S, NEW q \in Seq(S), q # <<>>
    PROVE  Last(q) \in S
  BY DEF Last

\* A request goes on as t; the others stay as they are.
LEMMA GoneTo ==
    ASSUME req \in [Requests -> Request], NEW r \in Requests, NEW t \in Request, Goto(r, t)
    PROVE  /\ req' \in [Requests -> Request] /\ req'[r] = t
           /\ \A other \in Requests : other # r => req'[other] = req[other]
  BY DEF Goto

LEMMA IdleType == Idle \in Request
<1>1. NoSnapshot \in Snapshot
  BY DEF NoSnapshot, Snapshot
<1> QED BY <1>1, PathFacts DEF Idle, Request

-----------------------------------------------------------------------------
\* Types.

LEMMA InitTypes == Init => TInv
<1> SUFFICES ASSUME Init PROVE TInv
  OBVIOUS
<1>1. req \in [Requests -> Request] /\ \A r \in Requests : req[r].pc = "idle"
  BY IdleType DEF Init, Idle
<1>2. /\ files \in [PathSet -> Versions \cup {None}] /\ completed \in BOOLEAN
      /\ addresses \subseteq Versions /\ table \in BOOLEAN
  BY DEF Init, Versions
<1>3. dnsmasq \in Versions \cup {None, "inactive", "failed"} /\ snapshots \in Seq(Snapshot)
  BY DEF Init, Versions
<1> QED BY <1>1, <1>2, <1>3 DEF TInv, SetupTypeOK

\* The request goes on as t, to a step that adds no gateway address, and the
\* host and the snapshots keep their types.
LEMMA GoesOn ==
    ASSUME TInv, NEW r \in Requests, NEW t \in Request, Goto(r, t),
           t.pc \in {"snapshot", "gateway"} => t.input \in Inputs,
           files' \in [PathSet -> Versions \cup {None}], completed' \in BOOLEAN,
           addresses' \subseteq Versions, table' \in BOOLEAN,
           dnsmasq' \in Versions \cup {None, "inactive", "failed"}, snapshots' \in Seq(Snapshot)
    PROVE  TInv'
<1>1. /\ req' \in [Requests -> Request] /\ req'[r] = t
      /\ \A other \in Requests : other # r => req'[other] = req[other]
  BY GoneTo DEF TInv, SetupTypeOK
<1>2. SetupTypeOK'
  BY <1>1 DEF SetupTypeOK
<1> QED BY <1>1, <1>2 DEF TInv

\* Only the file that is written changes.
LEMMA FileSet ==
    ASSUME files \in [PathSet -> Versions \cup {None}], NEW path \in PathSet,
           NEW version \in Versions \cup {None}, SetFile(path, version)
    PROVE  /\ files' \in [PathSet -> Versions \cup {None}] /\ files'[path] = version
           /\ \A other \in PathSet : other # path => files'[other] = files[other]
  BY DEF SetFile

LEMMA RequestFields ==
    ASSUME NEW t \in Request
    PROVE  /\ t.pc \in PCs /\ t.op \in {"none", "apply", "rollback"}
           /\ t.input \in Inputs \cup {None} /\ t.input \in Versions \cup {None}
           /\ t.activate \in BOOLEAN /\ t.next \in 1 .. 4 /\ t.saved \in BOOLEAN
           /\ t.snap \in Snapshot /\ t.snap.completed \in BOOLEAN
           /\ t.snap.files \in [PathSet -> Versions \cup {None}]
           /\ t.added \in BOOLEAN /\ t.activated \in BOOLEAN /\ t.read \in Versions \cup {None}
  BY PathFacts DEF Request, PCs, Snapshot, Versions

\* The snapshot that SaveSnapshot takes.
SnapshotOf(unread) ==
    [files     |-> [p \in PathSet |-> IF p \in unread THEN None ELSE files[p]],
     completed |-> completed /\ "config" \notin unread]

LEMMA SnapshotType ==
    ASSUME files \in [PathSet -> Versions \cup {None}], completed \in BOOLEAN, NEW unread
    PROVE  SnapshotOf(unread) \in Snapshot
<1>1. [p \in PathSet |-> IF p \in unread THEN None ELSE files[p]]
        \in [PathSet -> Versions \cup {None}]
  OBVIOUS
<1>2. (completed /\ "config" \notin unread) \in BOOLEAN
  OBVIOUS
<1> QED BY <1>1, <1>2 DEF SnapshotOf, Snapshot

LEMMA NextTypes == TInv /\ [Next]_vars => TInv'
<1> SUFFICES ASSUME TInv, [Next]_vars PROVE TInv'
  OBVIOUS
<1>a. /\ files \in [PathSet -> Versions \cup {None}] /\ completed \in BOOLEAN
      /\ addresses \subseteq Versions /\ table \in BOOLEAN
      /\ dnsmasq \in Versions \cup {None, "inactive", "failed"}
      /\ snapshots \in Seq(Snapshot) /\ req \in [Requests -> Request]
      /\ files["dnsmasq"] \in Versions \cup {None} /\ files["config"] \in Versions \cup {None}
  BY PathFacts DEF TInv, SetupTypeOK
<1>c. \A r \in Requests : req[r] \in Request
  BY <1>a
<1>d. 1 \in 1 .. Len(Paths) /\ Len(Paths) = 4
  BY PathFacts
<1>1. ASSUME NEW r \in Requests, NEW input \in Inputs, NEW activate \in BOOLEAN,
             Apply(r, input, activate)
      PROVE  TInv'
  <2>1. PICK t : t = [Idle EXCEPT !.pc = IF activate THEN "snapshot" ELSE "write",
                                  !.op = "apply", !.input = input, !.activate = activate]
    OBVIOUS
  <2>2. t \in Request /\ t.input \in Inputs
    BY <2>1, IdleType DEF Request
  <2> QED BY <1>1, <1>a, <2>1, <2>2, GoesOn DEF Apply, host
<1>2. ASSUME NEW r \in Requests, Rollback(r) PROVE TInv'
  <2>1. CASE snapshots = <<>>
    <3>1. PICK t : t = [Idle EXCEPT !.op = "rollback", !.pc = "readflag"]
      OBVIOUS
    <3>2. t \in Request /\ t.pc = "readflag"
      BY <3>1, IdleType DEF Request
    <3> QED BY <1>2, <1>a, <2>1, <3>1, <3>2, GoesOn DEF Rollback, host
  <2>2. CASE snapshots # <<>>
    <3>1. PICK t : t = [Idle EXCEPT !.op = "rollback", !.pc = "restore", !.saved = TRUE,
                                    !.snap = Last(snapshots), !.activated = TRUE]
      OBVIOUS
    <3>2. t \in Request /\ t.pc = "restore"
      BY <1>a, <2>2, <3>1, IdleType, LatestType DEF Request
    <3> QED BY <1>2, <1>a, <2>2, <3>1, <3>2, GoesOn DEF Rollback, host
  <2> QED BY <2>1, <2>2
<1>3. ASSUME NEW r \in Requests, TakeSnapshot(r) \/ SnapshotMisses(r) PROVE TInv'
  <2>a. req[r] \in Request
    BY <1>c
  <2>b. PICK unread : SaveSnapshot(r, unread)
    BY <1>3 DEF TakeSnapshot, SnapshotMisses
  <2>1. PICK snap : snap = SnapshotOf(unread)
    OBVIOUS
  <2>2. snap \in Snapshot
    BY <1>a, <2>1, SnapshotType
  <2>3. PICK t : t = [req[r] EXCEPT !.pc = "gateway", !.saved = TRUE, !.snap = snap]
    OBVIOUS
  <2>4. t \in Request /\ t.input = req[r].input
    BY <2>a, <2>2, <2>3 DEF Request
  <2>5. Goto(r, t) /\ snapshots' = Append(snapshots, snap) /\ At(r, "snapshot") /\ UNCHANGED host
    BY <2>b, <2>1, <2>3 DEF SaveSnapshot, SnapshotOf
  <2>6. req[r].input \in Inputs
    BY <2>5 DEF TInv, At
  <2>7. snapshots' \in Seq(Snapshot)
    BY <1>a, <2>2, <2>5
  <2> QED BY <1>a, <2>4, <2>5, <2>6, <2>7, GoesOn DEF host
<1>4. ASSUME NEW r \in Requests, EnsureGateway(r) PROVE TInv'
  <2>a. req[r] \in Request
    BY <1>c
  <2>1. PICK t : t = [req[r] EXCEPT !.pc = "write", !.added = req[r].input \notin addresses]
    OBVIOUS
  <2>2. PICK added \in BOOLEAN : added = (req[r].input \notin addresses)
    OBVIOUS
  <2>3. t \in Request /\ t.pc = "write"
    BY <2>a, <2>1, <2>2 DEF Request
  <2>4. /\ addresses' \subseteq Versions /\ Goto(r, t)
        /\ UNCHANGED <<files, completed, table, dnsmasq, snapshots>>
    BY <1>4, <1>a, <2>1 DEF EnsureGateway, TInv, At, Versions
  <2> QED BY <1>a, <2>3, <2>4, GoesOn
<1>5. ASSUME NEW r \in Requests, WriteFile(r) PROVE TInv'
  <2>a. req[r] \in Request
    BY <1>c
  <2>1. /\ Paths[req[r].next] \in PathSet /\ req[r].next \in 1 .. Len(Paths)
        /\ req[r].input \in Versions \cup {None}
    BY <1>a, PathFacts, RequestFields
  <2>2. /\ files' \in [PathSet -> Versions \cup {None}] /\ completed' \in BOOLEAN
        /\ UNCHANGED <<addresses, table, dnsmasq, snapshots>>
    BY <1>5, <1>a, <2>1, FileSet DEF WriteFile
  <2>3. CASE req[r].next < 3 /\ Goto(r, [req[r] EXCEPT !.next = @ + 1])
    <3>1. PICK t : t = [req[r] EXCEPT !.next = @ + 1]
      OBVIOUS
    <3>2. t \in Request /\ t.pc = req[r].pc
      BY <2>a, <2>1, <2>3, <3>1, <1>d DEF Request
    <3>3. t.pc = "write"
      BY <1>5, <3>2 DEF WriteFile, At
    <3> QED BY <1>a, <2>2, <2>3, <3>1, <3>2, <3>3, GoesOn
  <2>4. CASE Goto(r, [req[r] EXCEPT !.next = 1, !.pc = IF req[r].activate THEN "migrate"
                                                       ELSE "readflag"])
    <3>1. PICK pc \in {"migrate", "readflag"} :
             pc = IF req[r].activate THEN "migrate" ELSE "readflag"
      OBVIOUS
    <3>2. PICK t : t = [req[r] EXCEPT !.next = 1, !.pc = pc]
      OBVIOUS
    <3>3. t \in Request /\ t.pc = pc
      BY <2>a, <3>2, <1>d DEF Request
    <3>4. Goto(r, t)
      BY <2>4, <3>1, <3>2
    <3> QED BY <1>a, <2>2, <3>1, <3>3, <3>4, GoesOn
  <2> QED BY <1>5, <2>3, <2>4 DEF WriteFile
\* The steps that only move the request on, and leave the files alone.
<1>b. ASSUME NEW r \in Requests, NEW pc \in PCs \ {"snapshot", "gateway"}, Step(r, pc),
             UNCHANGED <<files, completed, addresses, snapshots>>, table' \in BOOLEAN,
             dnsmasq' \in Versions \cup {None, "inactive", "failed"}
      PROVE  TInv'
  <2>a. req[r] \in Request
    BY <1>c
  <2>1. PICK t : t = [req[r] EXCEPT !.pc = pc]
    OBVIOUS
  <2>2. t \in Request /\ t.pc = pc
    BY <2>a, <2>1 DEF Request, PCs
  <2> QED BY <1>a, <1>b, <2>1, <2>2, GoesOn DEF Step
<1>6. ASSUME NEW r \in Requests, MigrateLegacy(r) \/ LegacyStays(r) PROVE TInv'
  <2>a. req[r] \in Request
    BY <1>c
  <2>1. PICK t : t = [req[r] EXCEPT !.pc = "load"]
    OBVIOUS
  <2>2. t \in Request /\ t.pc = "load"
    BY <2>a, <2>1 DEF Request
  <2>3. files' \in [PathSet -> Versions \cup {None}]
    BY <1>6, <1>a, PathFacts, FileSet DEF MigrateLegacy, LegacyStays, host
  <2>4. Goto(r, t) /\ UNCHANGED <<completed, addresses, table, dnsmasq, snapshots>>
    BY <1>6, <2>1 DEF MigrateLegacy, LegacyStays, Step, host
  <2> QED BY <1>a, <2>2, <2>3, <2>4, GoesOn
<1>7. ASSUME NEW r \in Requests, LoadNftables(r) PROVE TInv'
  BY <1>7, <1>a, <1>b DEF LoadNftables, PCs
<1>8. ASSUME NEW r \in Requests, RestartDnsmasq(r) PROVE TInv'
  <2>a. req[r] \in Request
    BY <1>c
  <2>1. PICK t : t = [req[r] EXCEPT !.pc = "health", !.activated = TRUE]
    OBVIOUS
  <2>2. t \in Request /\ t.pc = "health"
    BY <2>a, <2>1 DEF Request
  <2> QED BY <1>8, <1>a, <2>1, <2>2, GoesOn DEF RestartDnsmasq
<1>9. ASSUME NEW r \in Requests, Healthy(r) PROVE TInv'
  BY <1>9, <1>a, <1>b DEF Healthy, PCs, host
<1>10. ASSUME NEW r \in Requests, ReadFlag(r) PROVE TInv'
  <2>a. req[r] \in Request
    BY <1>c
  <2>1. CASE Step(r, "failed")
    BY <1>10, <1>a, <1>b, <2>1 DEF ReadFlag, PCs, host
  <2>2. CASE Goto(r, [req[r] EXCEPT !.pc = "writeflag", !.read = files["config"]])
    <3>1. PICK t : t = [req[r] EXCEPT !.pc = "writeflag", !.read = files["config"]]
      OBVIOUS
    <3>2. t \in Request /\ t.pc = "writeflag"
      BY <1>a, <2>a, <3>1 DEF Request
    <3> QED BY <1>10, <1>a, <2>2, <3>1, <3>2, GoesOn DEF ReadFlag, host
  <2> QED BY <1>10, <2>1, <2>2 DEF ReadFlag
<1>11. ASSUME NEW r \in Requests, WriteFlag(r) PROVE TInv'
  <2>a. req[r] \in Request
    BY <1>c
  <2>1. PICK pc \in {"applied", "rolledback"} :
           pc = IF req[r].op = "apply" THEN "applied" ELSE "rolledback"
    OBVIOUS
  <2>2. PICK t : t = [req[r] EXCEPT !.pc = pc]
    OBVIOUS
  <2>3. t \in Request /\ t.pc = pc
    BY <2>a, <2>1, <2>2 DEF Request
  <2>4. files' \in [PathSet -> Versions \cup {None}] /\ completed' \in BOOLEAN
    BY <1>11, <1>a, PathFacts, FileSet, RequestFields DEF WriteFlag
  <2>5. Goto(r, t) /\ UNCHANGED <<addresses, table, dnsmasq, snapshots>>
    BY <1>11, <2>1, <2>2 DEF WriteFlag, Step
  <2> QED BY <1>a, <2>1, <2>3, <2>4, <2>5, GoesOn
<1>12. ASSUME NEW r \in Requests, StepFails(r) PROVE TInv'
  <2>a. req[r] \in Request
    BY <1>c
  <2>1. /\ UNCHANGED <<files, completed, addresses, table, snapshots>>
        /\ dnsmasq' \in Versions \cup {None, "inactive", "failed"}
    BY <1>12, <1>a DEF StepFails
  <2>2. CASE Step(r, "ungateway") \/ Step(r, "failed")
    BY <1>a, <1>b, <2>1, <2>2 DEF PCs
  <2>3. CASE Goto(r, [req[r] EXCEPT !.pc = "restore", !.next = 1])
    <3>1. PICK t : t = [req[r] EXCEPT !.pc = "restore", !.next = 1]
      OBVIOUS
    <3>2. t \in Request /\ t.pc = "restore"
      BY <2>a, <3>1, <1>d DEF Request
    <3> QED BY <1>a, <2>1, <2>3, <3>1, <3>2, GoesOn
  <2> QED BY <1>12, <2>2, <2>3 DEF StepFails
<1>13. ASSUME NEW r \in Requests, RemoveGateway(r) PROVE TInv'
  <2>a. req[r] \in Request
    BY <1>c
  <2>1. PICK fails \in BOOLEAN :
           /\ addresses' = IF fails THEN addresses ELSE addresses \ {req[r].input}
           /\ Goto(r, [req[r] EXCEPT !.pc = "restore", !.next = 1, !.added = fails])
    BY <1>13 DEF RemoveGateway
  <2>2. PICK t : t = [req[r] EXCEPT !.pc = "restore", !.next = 1, !.added = fails]
    OBVIOUS
  <2>3. t \in Request /\ t.pc = "restore"
    BY <2>a, <1>d, <2>2 DEF Request
  <2>4. addresses' \subseteq Versions
    BY <1>a, <2>1
  <2> QED BY <1>13, <1>a, <2>1, <2>2, <2>3, <2>4, GoesOn DEF RemoveGateway
<1>14. ASSUME NEW r \in Requests, RestoreFile(r) PROVE TInv'
  <2>a. req[r] \in Request
    BY <1>c
  <2> DEFINE path == Paths[req[r].next]
  <2>1. /\ path \in PathSet /\ req[r].next \in 1 .. Len(Paths) /\ Len(Paths) = 4
        /\ req[r].snap.files[path] \in Versions \cup {None}
        /\ req[r].snap.completed \in BOOLEAN
    BY <1>a, PathFacts, RequestFields
  <2>2. /\ files' \in [PathSet -> Versions \cup {None}] /\ completed' \in BOOLEAN
        /\ UNCHANGED <<addresses, table, dnsmasq, snapshots>>
    BY <1>14, <1>a, <2>1, FileSet DEF RestoreFile
  <2>3. CASE req[r].next < Len(Paths) /\ Goto(r, [req[r] EXCEPT !.next = @ + 1])
    <3>1. PICK t : t = [req[r] EXCEPT !.next = @ + 1]
      OBVIOUS
    <3>2. t \in Request /\ t.pc = req[r].pc
      BY <2>a, <1>d, <2>1, <2>3, <3>1 DEF Request
    <3>3. t.pc = "restore"
      BY <1>14, <3>2 DEF RestoreFile, At
    <3> QED BY <1>a, <2>2, <2>3, <3>1, <3>2, <3>3, GoesOn
  <2>4. CASE Goto(r, [req[r] EXCEPT !.next = 1, !.pc = "nft"])
    <3>1. PICK t : t = [req[r] EXCEPT !.next = 1, !.pc = "nft"]
      OBVIOUS
    <3>2. t \in Request /\ t.pc = "nft"
      BY <2>a, <3>1, <1>d DEF Request
    <3> QED BY <1>a, <2>2, <2>4, <3>1, <3>2, GoesOn
  <2> QED BY <1>14, <2>3, <2>4 DEF RestoreFile
<1>15. ASSUME NEW r \in Requests, RestoreNft(r) PROVE TInv'
  BY <1>15, <1>a, <1>b DEF RestoreNft, PCs, host
<1>16. ASSUME NEW r \in Requests, ReloadDnsmasq(r) PROVE TInv'
  <2>1. PICK pc \in {"rolledback", "readflag"} :
           pc = IF req[r].op = "apply" THEN "rolledback" ELSE "readflag"
    OBVIOUS
  <2>2. Step(r, pc) /\ UNCHANGED <<files, completed, addresses, table, snapshots>>
    BY <1>16, <2>1 DEF ReloadDnsmasq
  <2>3. dnsmasq' \in Versions \cup {None, "inactive", "failed"}
    BY <1>16, <1>a DEF ReloadDnsmasq
  <2> QED BY <1>a, <1>b, <2>1, <2>2, <2>3 DEF PCs
<1>17. ASSUME NEW r \in Requests, Throws(r) PROVE TInv'
  BY <1>17, <1>a, <1>b DEF Throws, PCs, host
<1>18. CASE AutoRestart
  BY <1>18, <1>a DEF AutoRestart, TInv, SetupTypeOK
<1>19. CASE Crash
  <2>1. req' \in [Requests -> Request] /\ \A r \in Requests : req'[r].pc = "idle"
    BY <1>19, IdleType DEF Crash, Idle
  <2> QED BY <1>19, <1>a, <2>1 DEF Crash, TInv, SetupTypeOK, host
<1>20. CASE UNCHANGED vars
  BY <1>20 DEF vars, host, TInv, SetupTypeOK
<1> QED
  BY <1>1, <1>2, <1>3, <1>4, <1>5, <1>6, <1>7, <1>8, <1>9, <1>10, <1>11, <1>12, <1>13,
     <1>14, <1>15, <1>16, <1>17, <1>18, <1>19, <1>20
  DEF Next, NewRequest, ApplyStep, UndoStep, Unnoticed

\* The host, the snapshots and what every request holds between two awaits keep
\* their types, whoever runs at the same time.
THEOREM SetupTypes == Spec => []SetupTypeOK
<1>1. TInv => SetupTypeOK
  BY DEF TInv
<1> QED BY <1>1, InitTypes, NextTypes, PTL DEF Spec

-----------------------------------------------------------------------------
\* Rolling back.

LEMMA InitRoll == Init => RollInv
  BY DEF Init, Idle, RollInv

\* What another request holds is no concern of this one, and one that has acted
\* is not idle again unless the process dies.
LEMMA RollGoesOn ==
    ASSUME TInv, RollInv, NEW r \in Requests, NEW t, Goto(r, t), t.pc # "idle",
           t.op = "rollback" => t.pc \in RollbackSteps \cup {"applied", "failed", "rolledback"},
           (/\ t.op = "rollback" /\ t.pc \notin Finished /\ t.saved
            /\ \A other \in Requests \ {r} : At(other, "idle")) => Undone(t)'
    PROVE  RollInv'
<1>1. /\ req'[r] = t
      /\ \A other \in Requests : other # r => req'[other] = req[other]
  BY DEF Goto, TInv, SetupTypeOK
<1> SUFFICES ASSUME NEW q \in Requests, req'[q].op = "rollback"
             PROVE  /\ req'[q].pc \in RollbackSteps \cup {"applied", "failed", "rolledback"}
                    /\ (/\ req'[q].pc \notin Finished /\ req'[q].saved
                        /\ \A other \in Requests \ {q} : req'[other].pc = "idle")
                           => Undone(req[q])'
  BY DEF RollInv, Active, At
<1>2. CASE q = r
  BY <1>1, <1>2 DEF At
<1>3. CASE q # r
  <2>1. req'[q] = req[q] /\ req'[r].pc # "idle"
    BY <1>1, <1>3
  <2> QED BY <1>3, <2>1 DEF RollInv
<1> QED BY <1>2, <1>3

\* A request at a step of apply is no rollback.
LEMMA RollApplies ==
    ASSUME TInv, RollInv, NEW r \in Requests, NEW t, Goto(r, t), t.pc # "idle",
           t.op = req[r].op, req[r].pc \notin RollbackSteps \cup Finished
    PROVE  RollInv'
<1>1. t.op # "rollback"
  BY DEF RollInv, Finished
<1> QED BY <1>1, RollGoesOn

\* A request that ends.
LEMMA RollEnds ==
    ASSUME TInv, RollInv, NEW r \in Requests, NEW t, Goto(r, t),
           t.pc \in {"applied", "failed", "rolledback"}
    PROVE  RollInv'
<1>1. t.pc \in Finished /\ t.pc # "idle"
  BY DEF Finished
<1> QED BY <1>1, RollGoesOn

LEMMA StepFields ==
    ASSUME NEW t \in Request, NEW pc, NEW u, u = [t EXCEPT !.pc = pc]
    PROVE  /\ u.pc = pc /\ u.op = t.op /\ u.input = t.input /\ u.activate = t.activate
           /\ u.next = t.next /\ u.saved = t.saved /\ u.snap = t.snap
           /\ u.added = t.added /\ u.activated = t.activated /\ u.read = t.read
  BY DEF Request

LEMMA NextRoll == TInv /\ RollInv /\ [Next]_vars => RollInv'
<1> SUFFICES ASSUME TInv, RollInv, [Next]_vars PROVE RollInv'
  OBVIOUS
<1>a. \A r \in Requests : req[r] \in Request
  BY DEF TInv, SetupTypeOK
<1>b. files \in [PathSet -> Versions \cup {None}]
  BY DEF TInv, SetupTypeOK
<1>1. ASSUME NEW r \in Requests, NEW input \in Inputs, NEW activate \in BOOLEAN,
             Apply(r, input, activate)
      PROVE  RollInv'
  <2>1. PICK t : t = [Idle EXCEPT !.pc = IF activate THEN "snapshot" ELSE "write",
                                  !.op = "apply", !.input = input, !.activate = activate]
    OBVIOUS
  <2>2. t.op = "apply" /\ t.pc # "idle"
    BY <2>1 DEF Idle
  <2>3. Goto(r, t)
    BY <1>1, <2>1 DEF Apply
  <2> QED BY <2>2, <2>3, RollGoesOn
<1>2. ASSUME NEW r \in Requests, Rollback(r) PROVE RollInv'
  <2>1. CASE snapshots = <<>>
    <3>1. PICK t : t = [Idle EXCEPT !.op = "rollback", !.pc = "readflag"]
      OBVIOUS
    <3>2. t.pc = "readflag" /\ t.saved = FALSE
      BY <3>1 DEF Idle
    <3>3. Goto(r, t)
      BY <1>2, <2>1, <3>1 DEF Rollback
    <3> QED BY <3>2, <3>3, RollGoesOn DEF RollbackSteps
  <2>2. CASE snapshots # <<>>
    <3>1. PICK t : t = [Idle EXCEPT !.op = "rollback", !.pc = "restore", !.saved = TRUE,
                                    !.snap = Last(snapshots), !.activated = TRUE]
      OBVIOUS
    <3>2. /\ t.pc = "restore" /\ t.activated = TRUE /\ t.snap = Last(snapshots)
          /\ t.next = 1
      BY <3>1 DEF Idle
    <3>3. Goto(r, t) /\ UNCHANGED <<files, snapshots>>
      BY <1>2, <2>2, <3>1 DEF Rollback, host
    <3>4. Undone(t)'
      BY <2>2, <3>2, <3>3 DEF Undone
    <3> QED BY <3>2, <3>3, <3>4, RollGoesOn DEF RollbackSteps
  <2> QED BY <2>1, <2>2
<1>c. ASSUME NEW r \in Requests, NEW pc \in PCs \ {"idle"}, Step(r, pc),
             req[r].pc \notin RollbackSteps \cup Finished
      PROVE  RollInv'
  <2>1. PICK t : t = [req[r] EXCEPT !.pc = pc]
    OBVIOUS
  <2>2. t.op = req[r].op /\ t.pc # "idle"
    BY <1>a, <2>1, StepFields
  <2> QED BY <1>c, <2>1, <2>2, RollApplies DEF Step
<1>d. ASSUME NEW r \in Requests, NEW pc \in {"applied", "failed", "rolledback"}, Step(r, pc)
      PROVE  RollInv'
  <2>1. PICK t : t = [req[r] EXCEPT !.pc = pc]
    OBVIOUS
  <2>2. t.pc = pc
    BY <1>a, <2>1, StepFields
  <2> QED BY <1>d, <2>1, <2>2, RollEnds DEF Step
<1>3. ASSUME NEW r \in Requests, TakeSnapshot(r) \/ SnapshotMisses(r) PROVE RollInv'
  <2>a. PICK unread : SaveSnapshot(r, unread)
    BY <1>3 DEF TakeSnapshot, SnapshotMisses
  <2>1. PICK t : t = [req[r] EXCEPT !.pc = "gateway", !.saved = TRUE,
                                    !.snap = SnapshotOf(unread)]
    OBVIOUS
  <2>2. req[r] \in Request /\ req[r].pc = "snapshot" /\ Goto(r, t)
    BY <2>a, <1>a, <2>1 DEF SaveSnapshot, SnapshotOf, At
  <2>3. t.op = req[r].op /\ t.pc = "gateway"
    BY <2>1, <2>2 DEF Request
  <2> QED BY <2>2, <2>3, RollApplies DEF RollbackSteps, Finished
<1>4. ASSUME NEW r \in Requests, EnsureGateway(r) PROVE RollInv'
  <2>1. PICK t : t = [req[r] EXCEPT !.pc = "write", !.added = req[r].input \notin addresses]
    OBVIOUS
  <2>2. req[r] \in Request /\ req[r].pc = "gateway" /\ Goto(r, t)
    BY <1>4, <1>a, <2>1 DEF EnsureGateway, At
  <2>3. t.op = req[r].op /\ t.pc = "write"
    BY <2>1, <2>2 DEF Request
  <2> QED BY <2>2, <2>3, RollApplies DEF RollbackSteps, Finished
<1>5. ASSUME NEW r \in Requests, WriteFile(r) PROVE RollInv'
  <2>1. req[r] \in Request /\ req[r].pc = "write"
    BY <1>5, <1>a DEF WriteFile, At
  <2>2. PICK t : Goto(r, t) /\ (\/ t = [req[r] EXCEPT !.next = req[r].next + 1]
                                \/ t = [req[r] EXCEPT !.next = 1, !.pc = "migrate"]
                                \/ t = [req[r] EXCEPT !.next = 1, !.pc = "readflag"])
    BY <1>5 DEF WriteFile
  <2>3. t.op = req[r].op /\ t.pc # "idle"
    BY <2>1, <2>2 DEF Request
  <2> QED BY <2>1, <2>2, <2>3, RollApplies DEF RollbackSteps, Finished
<1>6. ASSUME NEW r \in Requests, MigrateLegacy(r) \/ LegacyStays(r) PROVE RollInv'
  BY <1>6, <1>c DEF MigrateLegacy, LegacyStays, At, PCs, RollbackSteps, Finished
<1>7. ASSUME NEW r \in Requests, LoadNftables(r) PROVE RollInv'
  BY <1>7, <1>c DEF LoadNftables, At, PCs, RollbackSteps, Finished
<1>8. ASSUME NEW r \in Requests, RestartDnsmasq(r) PROVE RollInv'
  <2>1. PICK t : t = [req[r] EXCEPT !.pc = "health", !.activated = TRUE]
    OBVIOUS
  <2>2. req[r] \in Request /\ req[r].pc = "restart" /\ Goto(r, t)
    BY <1>8, <1>a, <2>1 DEF RestartDnsmasq, At
  <2>3. t.op = req[r].op /\ t.pc = "health"
    BY <2>1, <2>2 DEF Request
  <2> QED BY <2>2, <2>3, RollApplies DEF RollbackSteps, Finished
<1>9. ASSUME NEW r \in Requests, Healthy(r) PROVE RollInv'
  BY <1>9, <1>c DEF Healthy, At, PCs, RollbackSteps, Finished
<1>10. ASSUME NEW r \in Requests, ReadFlag(r) PROVE RollInv'
  <2>1. CASE Step(r, "failed")
    BY <1>d, <2>1
  <2>2. CASE Goto(r, [req[r] EXCEPT !.pc = "writeflag", !.read = files["config"]])
    <3>1. PICK t : t = [req[r] EXCEPT !.pc = "writeflag", !.read = files["config"]]
      OBVIOUS
    <3>2. /\ req[r] \in Request /\ req[r].pc = "readflag" /\ Goto(r, t)
          /\ UNCHANGED <<files, snapshots>>
      BY <1>10, <1>a, <2>2, <3>1 DEF ReadFlag, At, host
    <3>3. /\ t.pc = "writeflag" /\ t.op = req[r].op /\ t.read = files["config"]
          /\ t.saved = req[r].saved /\ t.snap = req[r].snap /\ t.activated = req[r].activated
      BY <3>1, <3>2 DEF Request
    <3>4. ASSUME t.op = "rollback", t.saved, \A other \in Requests \ {r} : At(other, "idle")
          PROVE  Undone(t)'
      <4>1. Undone(req[r])
        BY <3>2, <3>3, <3>4 DEF RollInv, Active, Finished
      <4> QED BY <3>2, <3>3, <4>1 DEF Undone
    <3> QED BY <3>2, <3>3, <3>4, RollGoesOn DEF RollbackSteps
  <2> QED BY <1>10, <2>1, <2>2 DEF ReadFlag
<1>11. ASSUME NEW r \in Requests, WriteFlag(r) PROVE RollInv'
  BY <1>11, <1>d DEF WriteFlag
<1>12. ASSUME NEW r \in Requests, StepFails(r) PROVE RollInv'
  <2>1. req[r] \in Request /\ req[r].pc \notin RollbackSteps \cup Finished
    BY <1>12, <1>a DEF StepFails, RollbackSteps, Finished
  <2>2. CASE Step(r, "ungateway") \/ Step(r, "failed")
    BY <1>c, <2>1, <2>2 DEF PCs
  <2>3. CASE Goto(r, [req[r] EXCEPT !.pc = "restore", !.next = 1])
    <3>1. PICK t : t = [req[r] EXCEPT !.pc = "restore", !.next = 1]
      OBVIOUS
    <3>2. t.op = req[r].op /\ t.pc = "restore"
      BY <2>1, <3>1 DEF Request
    <3> QED BY <2>1, <2>3, <3>1, <3>2, RollApplies
  <2> QED BY <1>12, <2>2, <2>3 DEF StepFails
<1>13. ASSUME NEW r \in Requests, RemoveGateway(r) PROVE RollInv'
  <2>1. PICK t, fails : /\ t = [req[r] EXCEPT !.pc = "restore", !.next = 1, !.added = fails]
                        /\ Goto(r, t)
    BY <1>13 DEF RemoveGateway
  <2>2. req[r] \in Request /\ req[r].pc = "ungateway"
    BY <1>13, <1>a DEF RemoveGateway, At
  <2>3. t.op = req[r].op /\ t.pc = "restore"
    BY <2>1, <2>2 DEF Request
  <2> QED BY <2>1, <2>2, <2>3, RollApplies DEF RollbackSteps, Finished
<1>14. ASSUME NEW r \in Requests, RestoreFile(r) PROVE RollInv'
  <2> DEFINE path == Paths[req[r].next]
  <2>1. /\ req[r] \in Request /\ req[r].pc = "restore" /\ req[r].next \in 1 .. 4
        /\ SetFile(path, req[r].snap.files[path]) /\ UNCHANGED snapshots
    BY <1>14, <1>a, RequestFields DEF RestoreFile, At
  <2>2. /\ req[r].snap.files \in [PathSet -> Versions \cup {None}]
        /\ \A n \in 1 .. 4 : Paths[n] \in PathSet
    <3>1. req[r].snap.files \in [PathSet -> Versions \cup {None}]
      BY <2>1, RequestFields
    <3> QED BY <3>1, PathFacts
  <2>3. /\ files' \in [PathSet -> Versions \cup {None}]
        /\ files'[path] = req[r].snap.files[path]
        /\ \A other \in PathSet : other # path => files'[other] = files[other]
    BY <1>b, <2>1, <2>2 DEF SetFile
  <2> HIDE DEF path
  <2>4. ASSUME Undone(req[r]), NEW n \in 1 .. 4, n <= req[r].next
        PROVE  files'[Paths[n]] = req[r].snap.files[Paths[n]]
    <3>1. CASE n = req[r].next
      BY <2>3, <3>1 DEF path
    <3>2. CASE n < req[r].next
      <4>1. files[Paths[n]] = req[r].snap.files[Paths[n]]
        BY <2>1, <2>4, <3>2 DEF Undone
      <4>2. Paths[n] \in PathSet
        BY <2>2
      <4> QED BY <2>3, <4>1, <4>2
    <3> QED BY <2>1, <2>4, <3>1, <3>2
  <2>5. CASE req[r].next < Len(Paths) /\ Goto(r, [req[r] EXCEPT !.next = @ + 1])
    <3>1. PICK t : t = [req[r] EXCEPT !.next = req[r].next + 1]
      OBVIOUS
    <3>2. /\ t.pc = "restore" /\ t.op = req[r].op /\ t.next = req[r].next + 1
          /\ t.saved = req[r].saved /\ t.snap = req[r].snap /\ t.activated = req[r].activated
      BY <2>1, <3>1 DEF Request
    <3>3. ASSUME t.op = "rollback", t.saved, \A other \in Requests \ {r} : At(other, "idle")
          PROVE  Undone(t)'
      <4>1. Undone(req[r])
        BY <2>1, <3>2, <3>3 DEF RollInv, Active, Finished
      <4>2. \A n \in 1 .. t.next - 1 : n \in 1 .. 4 /\ n <= req[r].next
        BY <2>1, <3>2
      <4> QED BY <2>1, <2>4, <3>2, <4>1, <4>2 DEF Undone
    <3> QED BY <2>5, <3>1, <3>2, <3>3, RollGoesOn DEF RollbackSteps
  <2>6. CASE /\ req[r].next = Len(Paths)
             /\ Goto(r, [req[r] EXCEPT !.next = 1, !.pc = "nft"])
    <3>1. PICK t : t = [req[r] EXCEPT !.next = 1, !.pc = "nft"]
      OBVIOUS
    <3>2. /\ t.pc = "nft" /\ t.op = req[r].op
          /\ t.saved = req[r].saved /\ t.snap = req[r].snap /\ t.activated = req[r].activated
      BY <2>1, <3>1 DEF Request
    <3>3. ASSUME t.op = "rollback", t.saved, \A other \in Requests \ {r} : At(other, "idle")
          PROVE  Undone(t)'
      <4>1. Undone(req[r])
        BY <2>1, <3>2, <3>3 DEF RollInv, Active, Finished
      <4>2. \A n \in 1 .. 4 : files'[Paths[n]] = req[r].snap.files[Paths[n]]
        BY <2>4, <2>6, <4>1, PathFacts
      <4>3. files' = req[r].snap.files
        <5>1. ASSUME NEW p \in PathSet PROVE files'[p] = req[r].snap.files[p]
          BY <4>2, PathFacts
        <5> QED BY <2>2, <2>3, <5>1
      <4> QED BY <2>1, <3>2, <4>1, <4>3 DEF Undone
    <3> QED BY <2>6, <3>1, <3>2, <3>3, RollGoesOn DEF RollbackSteps
  <2> QED BY <1>14, <2>5, <2>6 DEF RestoreFile
\* The steps of a rollback that only move it on.
<1>e. ASSUME NEW r \in Requests, NEW pc \in {"reload", "readflag"}, Step(r, pc),
             req[r].pc \in {"nft", "reload"}, UNCHANGED <<files, snapshots>>
      PROVE  RollInv'
  <2>1. PICK t : t = [req[r] EXCEPT !.pc = pc]
    OBVIOUS
  <2>2. /\ t.pc = pc /\ t.op = req[r].op
        /\ t.saved = req[r].saved /\ t.snap = req[r].snap /\ t.activated = req[r].activated
    BY <1>a, <2>1, StepFields
  <2>3. ASSUME t.op = "rollback", t.saved, \A other \in Requests \ {r} : At(other, "idle")
        PROVE  Undone(t)'
    <3>1. Undone(req[r])
      BY <1>e, <2>2, <2>3 DEF RollInv, Active, Finished
    <3> QED BY <1>e, <2>2, <3>1 DEF Undone
  <2>4. Goto(r, t)
    BY <1>e, <2>1 DEF Step
  <2> QED BY <2>2, <2>3, <2>4, RollGoesOn DEF RollbackSteps
<1>15. ASSUME NEW r \in Requests, RestoreNft(r) PROVE RollInv'
  BY <1>15, <1>d, <1>e DEF RestoreNft, At, host
<1>16. ASSUME NEW r \in Requests, ReloadDnsmasq(r) PROVE RollInv'
  <2>1. CASE Step(r, "rolledback")
    BY <1>d, <2>1
  <2>2. CASE Step(r, "readflag")
    BY <1>16, <1>e, <2>2 DEF ReloadDnsmasq, At
  <2> QED BY <1>16, <2>1, <2>2 DEF ReloadDnsmasq
<1>17. ASSUME NEW r \in Requests, Throws(r) PROVE RollInv'
  BY <1>17, <1>d DEF Throws
<1>18. CASE Crash
  BY <1>18 DEF Crash, RollInv, Idle
<1>19. CASE AutoRestart \/ UNCHANGED vars
  <2>1. UNCHANGED <<files, snapshots, req>>
    BY <1>19 DEF AutoRestart, vars, host
  <2> QED BY <2>1 DEF RollInv, Undone, Active, At
<1> QED
  BY <1>1, <1>2, <1>3, <1>4, <1>5, <1>6, <1>7, <1>8, <1>9, <1>10, <1>11, <1>12, <1>13,
     <1>14, <1>15, <1>16, <1>17, <1>18, <1>19
  DEF Next, NewRequest, ApplyStep, UndoStep, Unnoticed

\* One request acts at a time.
LEMMA OneActs ==
    ASSUME TInv, NEW s \in Requests,
           \/ NewRequest(s) \/ ApplyStep(s) \/ UndoStep(s)
           \/ StepFails(s) \/ Throws(s) \/ Unnoticed(s)
    PROVE  \A r \in Requests : r # s => req'[r] = req[r]
<1>1. \E t : Goto(s, t)
  BY DEF NewRequest, Apply, Rollback, ApplyStep, TakeSnapshot, SnapshotMisses, SaveSnapshot,
         Unnoticed, EnsureGateway, WriteFile, MigrateLegacy, LegacyStays, LoadNftables,
         RestartDnsmasq, Healthy, ReadFlag, WriteFlag, UndoStep, RemoveGateway, RestoreFile,
         RestoreNft, ReloadDnsmasq, StepFails, Throws, Step
<1> QED BY <1>1 DEF Goto, TInv, SetupTypeOK

\* Where a request is reported to have been applied, or rolled back.
LEMMA ReportedBy ==
    ASSUME TInv, Next, NEW r \in Requests, Active(r), req'[r].pc \in {"applied", "rolledback"}
    PROVE  WriteFlag(r) \/ RestoreNft(r) \/ ReloadDnsmasq(r)
<1>a. req \in [Requests -> Request] /\ req[r] \in Request /\ req[r].pc \notin Finished
  BY DEF TInv, SetupTypeOK, Active
<1>b. ASSUME NEW pc, pc \notin {"applied", "rolledback"}, Step(r, pc) PROVE FALSE
  <2>1. req'[r] = [req[r] EXCEPT !.pc = pc]
    BY <1>a, <1>b DEF Step, Goto
  <2>2. req'[r].pc = pc
    BY <1>a, <2>1, StepFields
  <2> QED BY <1>b, <2>2
<1>c. ASSUME NEW t, Goto(r, t) PROVE req'[r] = t
  BY <1>a, <1>c DEF Goto
<1>1. CASE NewRequest(r)
  BY <1>1 DEF NewRequest, Apply, Rollback
<1>2. CASE TakeSnapshot(r) \/ SnapshotMisses(r)
  <2>a. PICK unread : SaveSnapshot(r, unread)
    BY <1>2 DEF TakeSnapshot, SnapshotMisses
  <2>1. PICK t : t = [req[r] EXCEPT !.pc = "gateway", !.saved = TRUE,
                                    !.snap = SnapshotOf(unread)]
    OBVIOUS
  <2>2. req'[r] = t /\ t.pc = "gateway"
    BY <2>a, <1>a, <1>c, <2>1 DEF SaveSnapshot, SnapshotOf, Request
  <2> QED BY <2>2
<1>3. CASE EnsureGateway(r)
  <2>1. PICK t : t = [req[r] EXCEPT !.pc = "write", !.added = req[r].input \notin addresses]
    OBVIOUS
  <2>2. req'[r] = t /\ t.pc = "write"
    BY <1>3, <1>a, <1>c, <2>1 DEF EnsureGateway, Request
  <2> QED BY <2>2
<1>4. CASE RestartDnsmasq(r)
  <2>1. PICK t : t = [req[r] EXCEPT !.pc = "health", !.activated = TRUE]
    OBVIOUS
  <2>2. req'[r] = t /\ t.pc = "health"
    BY <1>4, <1>a, <1>c, <2>1 DEF RestartDnsmasq, Request
  <2> QED BY <2>2
<1>5. CASE WriteFile(r)
  <2>1. PICK t : Goto(r, t) /\ (\/ t = [req[r] EXCEPT !.next = req[r].next + 1]
                                \/ t = [req[r] EXCEPT !.next = 1, !.pc = "migrate"]
                                \/ t = [req[r] EXCEPT !.next = 1, !.pc = "readflag"])
    BY <1>5 DEF WriteFile
  <2>2. t.pc \in {req[r].pc, "migrate", "readflag"}
    BY <1>a, <2>1 DEF Request
  <2> QED BY <1>a, <1>c, <2>1, <2>2 DEF Finished
<1>6. CASE ReadFlag(r)
  <2>1. CASE Step(r, "failed")
    BY <1>b, <2>1
  <2>2. CASE Goto(r, [req[r] EXCEPT !.pc = "writeflag", !.read = files["config"]])
    <3>1. PICK t : t = [req[r] EXCEPT !.pc = "writeflag", !.read = files["config"]]
      OBVIOUS
    <3>2. req'[r] = t /\ t.pc = "writeflag"
      BY <1>a, <1>c, <2>2, <3>1 DEF Request
    <3> QED BY <3>2
  <2> QED BY <1>6, <2>1, <2>2 DEF ReadFlag
<1>7. CASE RemoveGateway(r)
  <2>1. PICK t, fails : /\ t = [req[r] EXCEPT !.pc = "restore", !.next = 1, !.added = fails]
                        /\ Goto(r, t)
    BY <1>7 DEF RemoveGateway
  <2>2. req'[r] = t /\ t.pc = "restore"
    BY <1>a, <1>c, <2>1 DEF Request
  <2> QED BY <2>2
<1>8. CASE RestoreFile(r)
  <2>1. PICK t : Goto(r, t) /\ (\/ t = [req[r] EXCEPT !.next = req[r].next + 1]
                                \/ t = [req[r] EXCEPT !.next = 1, !.pc = "nft"])
    BY <1>8 DEF RestoreFile
  <2>2. t.pc \in {req[r].pc, "nft"}
    BY <1>a, <2>1 DEF Request
  <2> QED BY <1>a, <1>c, <2>1, <2>2 DEF Finished
<1>9. CASE StepFails(r)
  <2>1. CASE Step(r, "ungateway") \/ Step(r, "failed")
    BY <1>b, <2>1
  <2>2. CASE Goto(r, [req[r] EXCEPT !.pc = "restore", !.next = 1])
    <3>1. PICK t : t = [req[r] EXCEPT !.pc = "restore", !.next = 1]
      OBVIOUS
    <3>2. req'[r] = t /\ t.pc = "restore"
      BY <1>a, <1>c, <2>2, <3>1 DEF Request
    <3> QED BY <3>2
  <2> QED BY <1>9, <2>1, <2>2 DEF StepFails
<1>10. CASE MigrateLegacy(r) \/ LegacyStays(r) \/ LoadNftables(r) \/ Healthy(r) \/ Throws(r)
  BY <1>10, <1>b DEF MigrateLegacy, LegacyStays, LoadNftables, Healthy, Throws
<1>11. CASE AutoRestart \/ Crash
  BY <1>11, <1>a DEF AutoRestart, Crash, Idle, Active, Finished
<1>12. ASSUME NEW s \in Requests, s # r,
              \/ NewRequest(s) \/ ApplyStep(s) \/ UndoStep(s)
              \/ StepFails(s) \/ Throws(s) \/ Unnoticed(s)
       PROVE  FALSE
  <2>1. req'[r] = req[r]
    BY <1>12, OneActs
  <2> QED BY <1>a, <2>1 DEF Finished
<1> QED
  BY <1>1, <1>2, <1>3, <1>4, <1>5, <1>6, <1>7, <1>8, <1>9, <1>10, <1>11, <1>12
  DEF Next, ApplyStep, UndoStep, Unnoticed

\* A rollback that ends alone has undone the latest apply, in every state of
\* every run, for any configurations and any number of requests.
THEOREM RolledBack == Spec => RollbackUndoes
<1>1. ASSUME TInv, RollInv, [Next]_vars, NEW r \in Requests,
             req[r].op = "rollback", Active(r), req'[r].pc = "rolledback",
             req[r].saved, \A other \in Requests \ {r} : At(other, "idle")
      PROVE  files' = Last(snapshots).files /\ ~completed'
  <2>1. Undone(req[r]) /\ req[r] \in Request /\ req \in [Requests -> Request]
    BY <1>1 DEF RollInv, TInv, SetupTypeOK
  <2>2. Next
    BY <1>1 DEF vars, Active, Finished
  <2>3. CASE WriteFlag(r)
    <3>1. /\ files' = [files EXCEPT !["config"] = req[r].read]
          /\ completed' = FALSE /\ req[r].pc = "writeflag"
      BY <1>1, <2>3 DEF WriteFlag, SetFile, At
    <3>2. files = req[r].snap.files /\ req[r].read = files["config"]
      BY <2>1, <3>1 DEF Undone
    <3>3. files' = files
      BY <1>1, <3>1, <3>2 DEF TInv, SetupTypeOK
    <3> QED BY <2>1, <3>1, <3>2, <3>3 DEF Undone
  <2>4. CASE RestoreNft(r)
    <3>1. Step(r, "reload")
      BY <2>1, <2>4 DEF RestoreNft, Undone
    <3>2. req'[r] = [req[r] EXCEPT !.pc = "reload"]
      BY <2>1, <3>1 DEF Step, Goto
    <3>3. req'[r].pc = "reload"
      BY <2>1, <3>2, StepFields
    <3> QED BY <1>1, <3>3
  <2>5. CASE ReloadDnsmasq(r)
    <3>1. Step(r, "readflag")
      BY <1>1, <2>5 DEF ReloadDnsmasq
    <3>2. req'[r] = [req[r] EXCEPT !.pc = "readflag"]
      BY <2>1, <3>1 DEF Step, Goto
    <3>3. req'[r].pc = "readflag"
      BY <2>1, <3>2, StepFields
    <3> QED BY <1>1, <3>3
  <2> QED BY <1>1, <2>2, <2>3, <2>4, <2>5, ReportedBy
<1>2. TInv /\ RollInv /\ [Next]_vars
        => [\A r \in Requests :
              (/\ req[r].op = "rollback" /\ Active(r) /\ req'[r].pc = "rolledback"
               /\ req[r].saved /\ \A other \in Requests \ {r} : At(other, "idle"))
                  => files' = Last(snapshots).files /\ ~completed']_vars
  BY <1>1
<1> QED
  BY <1>2, InitTypes, NextTypes, InitRoll, NextRoll, PTL DEF Spec, RollbackUndoes

-----------------------------------------------------------------------------
\* Applying, alone.

\* A request that has begun remembers what it can give back; only its snapshot
\* and its removal of the gateway address change that.
LEMMA Recovers ==
    ASSUME TInv, Remember, NEW r \in Requests, Active(r), NEW t, Goto(r, t),
           t.input = req[r].input,
           req[r].pc # "snapshot" \/ t.pc # "gateway",
           req[r].pc # "ungateway" \/ t.pc # "restore"
    PROVE  Recoverable(r)' = Recoverable(r)
<1>1. req'[r] = t
  BY DEF Goto, TInv, SetupTypeOK
<1>2. before'[r] = before[r] /\ missed'[r] = missed[r] /\ (r \in stuck' <=> r \in stuck)
  BY <1>1 DEF Remember, Begins, Snaps, KeepsAddress, At
<1> QED BY <1>1, <1>2 DEF Recoverable

LEMMA AloneMoves ==
    ASSUME TInv, AloneInv, Remember, NEW r \in Requests, Active(r), NEW t, Goto(r, t),
           t.pc # "snapshot",
           r \in alone /\ t.op = "apply" /\ t.pc \notin Finished
              => \E old : old = Recoverable(r)' /\ ApplyCourse(t, old)'
    PROVE  AloneInv'
<1>1. /\ req'[r] = t
      /\ \A other \in Requests : other # r => req'[other] = req[other]
  BY DEF Goto, TInv, SetupTypeOK
<1>2. alone' \subseteq Requests
  BY DEF Remember
<1>3. ASSUME NEW q \in alone'
      PROVE  (/\ Active(q)
              /\ \A other \in Requests \ {q} : ~Active(other)
              /\ At(q, "snapshot") => missed[q] = {}
              /\ req[q].op = "apply" => ApplyCourse(req[q], Recoverable(q)))'
  <2>1. /\ q \in Requests /\ Active(q)' /\ (q \in alone \/ Begins(q))
        /\ \A other \in Requests \ {q} : ~Active(other)'
    BY <1>3 DEF Remember
  <2>2. q = r
    <3>1. SUFFICES ASSUME q # r PROVE FALSE
      OBVIOUS
    <3>2. q \in alone
      BY <1>1, <2>1, <3>1 DEF Begins, Active
    <3> QED BY <2>1, <3>1, <3>2 DEF AloneInv
  <2>3. r \in alone /\ t.pc \notin Finished /\ ~At(r, "snapshot")'
    BY <1>1, <2>1, <2>2 DEF Begins, Active, At
  <2>4. t.op = "apply" => ApplyCourse(req[r], Recoverable(r))'
    BY <1>1, <2>3
  <2> QED BY <1>1, <2>1, <2>2, <2>3, <2>4
<1> QED BY <1>2, <1>3 DEF AloneInv

\* A step that changes nothing of what the request can give back.
LEMMA AloneGoesOn ==
    ASSUME TInv, AloneInv, Remember, NEW r \in Requests, Active(r), NEW t, Goto(r, t),
           t.pc # "snapshot", t.input = req[r].input,
           req[r].pc # "snapshot" \/ t.pc # "gateway",
           req[r].pc # "ungateway" \/ t.pc # "restore",
           NEW old, old = Recoverable(r),
           r \in alone /\ t.op = "apply" /\ t.pc \notin Finished => ApplyCourse(t, old)'
    PROVE  AloneInv'
<1>1. old = Recoverable(r)'
  BY Recovers
<1> QED BY <1>1, AloneMoves

LEMMA AloneBegins ==
    ASSUME TInv, AloneInv, Remember, NEW r \in Requests, ~Active(r), NEW t, Goto(r, t),
           t.pc \notin Finished, NEW old, old = HostNow,
           t.op = "apply" => ApplyCourse(t, old)'
    PROVE  AloneInv'
<1>1. /\ req'[r] = t
      /\ \A other \in Requests : other # r => req'[other] = req[other]
  BY DEF Goto, TInv, SetupTypeOK
<1>a. old = Recoverable(r)'
  <2>1. before'[r] = HostNow /\ missed'[r] = {} /\ r \notin stuck'
    BY <1>1 DEF Remember, Begins, KeepsAddress, Active, At, Finished
  <2>2. files = [p \in PathSet |-> files[p]]
    BY DEF TInv, SetupTypeOK
  <2>3. completed = (completed /\ "config" \notin {})
    BY DEF TInv, SetupTypeOK
  <2> QED BY <2>1, <2>2, <2>3 DEF Recoverable, HostNow
<1>2. alone' \subseteq Requests
  BY DEF Remember
<1>3. ASSUME NEW q \in alone'
      PROVE  (/\ Active(q)
              /\ \A other \in Requests \ {q} : ~Active(other)
              /\ At(q, "snapshot") => missed[q] = {}
              /\ req[q].op = "apply" => ApplyCourse(req[q], Recoverable(q)))'
  <2>1. /\ q \in Requests /\ Active(q)'
        /\ \A other \in Requests \ {q} : ~Active(other)'
    BY <1>3 DEF Remember
  <2>2. q = r
    BY <1>1, <2>1 DEF Active
  <2>3. missed'[r] = {}
    BY <1>1 DEF Begins, Remember, Active
  <2>4. req'[r].op = "apply" => ApplyCourse(req[r], Recoverable(r))'
    BY <1>a, <1>1
  <2> QED BY <1>1, <2>1, <2>2, <2>3, <2>4
<1> QED BY <1>2, <1>3 DEF AloneInv

LEMMA AloneEnds ==
    ASSUME TInv, AloneInv, Remember, NEW r \in Requests, Active(r), NEW pc \in Finished, Step(r, pc)
    PROVE  AloneInv'
<1>1. PICK t : t = [req[r] EXCEPT !.pc = pc]
  OBVIOUS
<1>2. Goto(r, t) /\ req[r] \in Request
  BY <1>1 DEF Step, TInv, SetupTypeOK
<1>3. t.pc \in Finished
  BY <1>1, <1>2, StepFields
<1>4. t.pc # "snapshot"
  BY <1>3 DEF Finished
<1> QED BY <1>2, <1>3, <1>4, AloneMoves

LEMMA InitAlone == MCInit => AloneInv
  BY DEF MCInit, AloneInv

\* Where the host stays as it is and the request takes the way back.
LEMMA WayBack ==
    ASSUME NEW t, NEW u, NEW old, ApplyCourse(t, old),
           UNCHANGED <<files, completed, addresses>>, dnsmasq' \in {dnsmasq, "failed"},
           u.added = t.added, u.input = t.input, u.saved = t.saved, u.snap = t.snap,
           u.activated = t.activated, u.pc \in {"ungateway", "restore"}, u.saved,
           u.pc = "restore" => u.next = 1 /\ ~u.added, u.pc = "ungateway" => u.added,
           t.pc \notin Returning
    PROVE  ApplyCourse(u, old)'
<1>1. Kept(u, old)'
  BY DEF ApplyCourse, Kept, Returning
<1>2. Restored(u, old)'
  BY DEF Restored
<1>3. Written(u)' /\ Served(u)'
  BY DEF Written, Served, FilesWritten
<1> QED BY <1>1, <1>2, <1>3 DEF ApplyCourse

LEMMA NextAlone == TInv /\ AloneInv /\ [MCNext]_mcVars => AloneInv'
<1> SUFFICES ASSUME TInv, AloneInv, [MCNext]_mcVars PROVE AloneInv'
  OBVIOUS
<1>1. CASE UNCHANGED mcVars
  BY <1>1 DEF mcVars, vars, host, AloneInv, Active, At, Recoverable, ApplyCourse, Kept,
              Restored, Written, Served
<1> SUFFICES ASSUME Remember, Next PROVE AloneInv'
  BY <1>1 DEF MCNext, Next
<1>a. \A r \in Requests : req[r] \in Request
  BY DEF TInv, SetupTypeOK
<1>b. /\ files \in [PathSet -> Versions \cup {None}]
      /\ \A n \in 1 .. 4 : Paths[n] \in PathSet
  BY PathFacts DEF TInv, SetupTypeOK
<1>2. ASSUME NEW r \in Requests, NEW input \in Inputs, NEW activate \in BOOLEAN,
             Apply(r, input, activate)
      PROVE  AloneInv'
  <2>1. PICK t : t = [Idle EXCEPT !.pc = IF activate THEN "snapshot" ELSE "write",
                                  !.op = "apply", !.input = input, !.activate = activate]
    OBVIOUS
  <2>2. /\ t.pc \in {"snapshot", "write"} /\ t.activate = activate /\ t.input = input
        /\ t.next = 1 /\ t.saved = FALSE /\ t.added = FALSE /\ t.activated = FALSE
        /\ activate => t.pc = "snapshot"
    BY <2>1 DEF Idle
  <2>3. Goto(r, t) /\ UNCHANGED host /\ ~Active(r)
    BY <1>2, <2>1 DEF Apply
  <2>4. PICK old : old = HostNow
    OBVIOUS
  <2>5. Kept(t, old)'
    BY <2>2, <2>3, <2>4 DEF Kept, HostNow, host, Undoing, Returning
  <2>6. Restored(t, old)' /\ Written(t)' /\ Served(t)'
    BY <2>2 DEF Restored, Written, Served, FilesWritten
  <2>7. t.pc \notin Finished
    BY <2>2 DEF Finished
  <2> QED BY <2>3, <2>4, <2>5, <2>6, <2>7, AloneBegins DEF ApplyCourse
<1>3. ASSUME NEW r \in Requests, Rollback(r) PROVE AloneInv'
  <2>1. PICK t : /\ Goto(r, t) /\ ~Active(r)
                 /\ \/ t = [Idle EXCEPT !.op = "rollback", !.pc = "readflag"]
                    \/ t = [Idle EXCEPT !.op = "rollback", !.pc = "restore", !.saved = TRUE,
                                        !.snap = Last(snapshots), !.activated = TRUE]
    BY <1>3 DEF Rollback
  <2>2. t.op = "rollback" /\ t.pc \notin Finished
    BY <2>1 DEF Idle, Finished
  <2>3. PICK old : old = HostNow
    OBVIOUS
  <2> QED BY <2>1, <2>2, <2>3, AloneBegins
<1>4. ASSUME NEW r \in Requests, TakeSnapshot(r) \/ SnapshotMisses(r) PROVE AloneInv'
  <2>a. PICK unread : SaveSnapshot(r, unread) /\ unread \subseteq {p \in PathSet : files[p] # None}
    BY <1>4 DEF TakeSnapshot, SnapshotMisses
  <2>b. PICK snap : snap = SnapshotOf(unread)
    OBVIOUS
  <2>c. /\ snap.files = [p \in PathSet |-> IF p \in unread THEN None ELSE files[p]]
        /\ snap.completed = (completed /\ "config" \notin unread)
        /\ snap = [files |-> snap.files, completed |-> snap.completed]
    BY <2>b DEF SnapshotOf
  <2>1. PICK t : t = [req[r] EXCEPT !.pc = "gateway", !.saved = TRUE, !.snap = snap]
    OBVIOUS
  <2>2. /\ req[r] \in Request /\ req[r].pc = "snapshot" /\ Goto(r, t)
        /\ UNCHANGED <<files, completed, addresses, table, dnsmasq>>
    BY <2>a, <1>a, <2>b, <2>1 DEF SaveSnapshot, SnapshotOf, At, host
  <2>3. /\ t.pc = "gateway" /\ t.saved /\ t.snap = snap
        /\ t.op = req[r].op /\ t.input = req[r].input /\ t.activate = req[r].activate
        /\ t.next = req[r].next /\ t.added = req[r].added /\ t.activated = req[r].activated
        /\ t.read = req[r].read
    BY <2>1, <2>2 DEF Request
  <2>4. PICK old : old = Recoverable(r)'
    OBVIOUS
  <2>6. Active(r)
    BY <2>2 DEF Active, Finished
  <2>5. ASSUME r \in alone, t.op = "apply" PROVE ApplyCourse(t, old)'
    <3>a. PICK was : was = Recoverable(r)
      OBVIOUS
    <3>1. ApplyCourse(req[r], was) /\ missed[r] = {}
      BY <2>2, <2>3, <3>a, <2>5 DEF AloneInv, At
    <3>b. /\ before'[r] = before[r] /\ (r \in stuck' <=> r \in stuck)
          /\ missed'[r] = {p \in PathSet : snap.files[p] # files[p]}
          /\ req'[r] = t
      <4>1. req'[r] = t
        BY <2>2 DEF Goto, TInv, SetupTypeOK
      <4> QED BY <2>2, <2>3, <2>6, <4>1 DEF Remember, Begins, Snaps, KeepsAddress, At
    <3>c. missed'[r] = unread
      BY <2>a, <2>c, <3>b
    <3>d. /\ files = [p \in PathSet |-> before[r].files[p]]
          /\ completed <=> before[r].completed
      <4>1. was.files = files /\ was.completed = completed
        BY <2>2, <3>1 DEF ApplyCourse, Kept
      <4>2. /\ was.files = [p \in PathSet |-> IF p \in {} THEN None ELSE before[r].files[p]]
            /\ was.completed = (before[r].completed /\ "config" \notin {})
        BY <3>a, <3>1 DEF Recoverable
      <4> QED BY <4>1, <4>2
    <3>e. /\ old.files = snap.files /\ old.completed = snap.completed
          /\ old.addresses = was.addresses /\ old.dnsmasq = was.dnsmasq
      <4>1. /\ old.files = [p \in PathSet |-> IF p \in unread THEN None ELSE before[r].files[p]]
            /\ old.completed = (before[r].completed /\ "config" \notin unread)
            /\ old.addresses = before[r].addresses \cup (IF r \in stuck' THEN {t.input} ELSE {})
            /\ old.dnsmasq = before[r].dnsmasq
        BY <2>4, <3>b, <3>c DEF Recoverable
      <4>2. /\ was.addresses = before[r].addresses
                                 \cup (IF r \in stuck THEN {req[r].input} ELSE {})
            /\ was.dnsmasq = before[r].dnsmasq
        BY <3>a DEF Recoverable
      <4>3. \A p \in PathSet : files[p] = before[r].files[p]
        BY <3>d
      <4> QED BY <2>3, <2>c, <3>b, <3>d, <4>1, <4>2, <4>3
    <3>2. Kept(t, old)'
      BY <2>2, <2>3, <2>c, <3>1, <3>e DEF ApplyCourse, Kept, Undoing, Returning
    <3>3. Restored(t, old)'
      BY <2>3 DEF Restored
    <3>4. Written(t)'
      BY <2>2, <2>3, <3>1 DEF ApplyCourse, Written, FilesWritten
    <3>5. Served(t)'
      BY <2>2, <2>3, <3>1 DEF ApplyCourse, Served, FilesWritten
    <3> QED BY <3>2, <3>3, <3>4, <3>5 DEF ApplyCourse
  <2> QED BY <2>2, <2>3, <2>4, <2>5, <2>6, AloneMoves
<1>5. ASSUME NEW r \in Requests, EnsureGateway(r) PROVE AloneInv'
  <2>1. PICK t : t = [req[r] EXCEPT !.pc = "write", !.added = req[r].input \notin addresses]
    OBVIOUS
  <2>2. /\ req[r] \in Request /\ req[r].pc = "gateway" /\ Goto(r, t)
        /\ addresses' = addresses \cup {req[r].input}
        /\ UNCHANGED <<files, completed, table, dnsmasq>>
    BY <1>5, <1>a, <2>1 DEF EnsureGateway, At
  <2>3. /\ t.pc = "write" /\ t.added = (req[r].input \notin addresses)
        /\ t.op = req[r].op /\ t.input = req[r].input /\ t.activate = req[r].activate
        /\ t.next = req[r].next /\ t.saved = req[r].saved /\ t.snap = req[r].snap
        /\ t.activated = req[r].activated /\ t.read = req[r].read
    BY <2>1, <2>2 DEF Request
  <2>4. PICK old : old = Recoverable(r)
    OBVIOUS
  <2>5. ASSUME r \in alone, t.op = "apply" PROVE ApplyCourse(t, old)'
    <3>1. ApplyCourse(req[r], old)
      BY <2>3, <2>4, <2>5 DEF AloneInv
    <3>2. Kept(t, old)'
      BY <2>2, <2>3, <3>1 DEF ApplyCourse, Kept, Undoing, Returning
    <3>3. Restored(t, old)'
      BY <2>2, <2>3, <3>1 DEF ApplyCourse, Restored
    <3>4. Written(t)'
      BY <2>2, <2>3, <3>1 DEF ApplyCourse, Kept, Written, FilesWritten
    <3>5. Served(t)'
      BY <2>2, <2>3, <3>1 DEF ApplyCourse, Served, FilesWritten
    <3> QED BY <3>2, <3>3, <3>4, <3>5 DEF ApplyCourse
  <2>6. Active(r)
    BY <2>2 DEF Active, Finished
  <2> QED BY <2>2, <2>3, <2>4, <2>5, <2>6, AloneGoesOn
<1>6. ASSUME NEW r \in Requests, WriteFile(r) PROVE AloneInv'
  <2> DEFINE path == Paths[req[r].next]
  <2>1. PICK t : /\ Goto(r, t)
                 /\ \/ /\ req[r].next < 3
                       /\ t = [req[r] EXCEPT !.next = req[r].next + 1]
                    \/ /\ req[r].next = 3 /\ req[r].activate
                       /\ t = [req[r] EXCEPT !.next = 1, !.pc = "migrate"]
                    \/ /\ req[r].next = 3 /\ ~req[r].activate
                       /\ t = [req[r] EXCEPT !.next = 1, !.pc = "readflag"]
    BY <1>6 DEF WriteFile
  <2>2. /\ req[r] \in Request /\ req[r].pc = "write" /\ req[r].next \in 1 .. 4
        /\ SetFile(path, req[r].input) /\ UNCHANGED <<addresses, table, dnsmasq>>
    BY <1>6, <1>a, RequestFields DEF WriteFile, At
  <2>3. /\ \/ t.pc = "write" /\ req[r].next < 3 /\ t.next = req[r].next + 1
           \/ t.pc = "migrate" /\ req[r].next = 3
           \/ t.pc = "readflag" /\ req[r].next = 3 /\ ~req[r].activate
        /\ t.op = req[r].op /\ t.input = req[r].input /\ t.activate = req[r].activate
        /\ t.saved = req[r].saved /\ t.snap = req[r].snap /\ t.added = req[r].added
        /\ t.activated = req[r].activated /\ t.read = req[r].read
    BY <2>1, <2>2 DEF Request
  <2>4. PICK old : old = Recoverable(r)
    OBVIOUS
  <2>5. ASSUME r \in alone, t.op = "apply" PROVE ApplyCourse(t, old)'
    <3>1. ApplyCourse(req[r], old)
      BY <2>3, <2>4, <2>5 DEF AloneInv
    <3>2. Kept(t, old)'
      BY <2>2, <2>3, <3>1 DEF ApplyCourse, Kept, Undoing, Returning
    <3>3. Restored(t, old)'
      BY <2>3 DEF Restored
    <3>4. Written(t)'
      <4>1. \A n \in 1 .. req[r].next - 1 : files[Paths[n]] = req[r].input
        BY <2>2, <3>1 DEF ApplyCourse, Written
      <4>2. /\ files'[path] = req[r].input
            /\ \A other \in PathSet : other # path => files'[other] = files[other]
        BY <1>b, <2>2 DEF SetFile
      <4> HIDE DEF path
      <4>3. ASSUME NEW n \in 1 .. 4, n <= req[r].next PROVE files'[Paths[n]] = req[r].input
        <5>1. CASE n = req[r].next
          BY <4>2, <5>1 DEF path
        <5>2. CASE n < req[r].next
          <6>1. n \in 1 .. req[r].next - 1 /\ Paths[n] \in PathSet
            BY <1>b, <2>2, <5>2
          <6> QED BY <4>1, <4>2, <6>1
        <5> QED BY <2>2, <4>3, <5>1, <5>2
      <4>4. t.pc = "write" => \A n \in 1 .. t.next - 1 : n \in 1 .. 4 /\ n <= req[r].next
        BY <2>2, <2>3
      <4>5. t.pc # "write" => \A n \in 1 .. 3 : n \in 1 .. 4 /\ n <= req[r].next
        BY <2>3
      <4> QED BY <2>3, <4>3, <4>4, <4>5 DEF Written, FilesWritten
    <3>5. Served(t)'
      BY <2>2, <2>3, <3>1 DEF ApplyCourse, Served, FilesWritten
    <3> QED BY <3>2, <3>3, <3>4, <3>5 DEF ApplyCourse
  <2>6. Active(r)
    BY <2>2 DEF Active, Finished
  <2> QED BY <2>1, <2>2, <2>3, <2>4, <2>5, <2>6, AloneGoesOn
<1>7. ASSUME NEW r \in Requests, MigrateLegacy(r) \/ LegacyStays(r) PROVE AloneInv'
  <2>1. PICK t : t = [req[r] EXCEPT !.pc = "load"]
    OBVIOUS
  <2>2. /\ req[r] \in Request /\ req[r].pc = "migrate" /\ Goto(r, t)
        /\ SetFile("legacy", None) \/ UNCHANGED files
        /\ UNCHANGED <<completed, addresses, table, dnsmasq>>
    BY <1>7, <1>a, <2>1 DEF MigrateLegacy, LegacyStays, At, Step, host
  <2>3. /\ t.pc = "load"
        /\ t.op = req[r].op /\ t.input = req[r].input /\ t.activate = req[r].activate
        /\ t.next = req[r].next /\ t.saved = req[r].saved /\ t.snap = req[r].snap
        /\ t.added = req[r].added /\ t.activated = req[r].activated /\ t.read = req[r].read
    BY <2>1, <2>2 DEF Request
  <2>4. PICK old : old = Recoverable(r)
    OBVIOUS
  <2>5. ASSUME r \in alone, t.op = "apply" PROVE ApplyCourse(t, old)'
    <3>1. ApplyCourse(req[r], old)
      BY <2>3, <2>4, <2>5 DEF AloneInv
    <3>2. Kept(t, old)'
      BY <2>2, <2>3, <3>1 DEF ApplyCourse, Kept, Undoing, Returning
    <3>3. Restored(t, old)'
      BY <2>2, <2>3, <3>1 DEF ApplyCourse, Restored
    <3>4. Written(t)'
      <4>1. \A n \in 1 .. 3 : files'[Paths[n]] = files[Paths[n]]
        BY <1>b, <2>2, PathFacts DEF SetFile
      <4>2. \A n \in 1 .. 3 : files[Paths[n]] = req[r].input
        BY <2>2, <3>1 DEF ApplyCourse, Written, FilesWritten
      <4> QED BY <2>3, <4>1, <4>2 DEF Written, FilesWritten
    <3>5. Served(t)'
      BY <2>2, <2>3, <3>1 DEF ApplyCourse, Served, FilesWritten
    <3> QED BY <3>2, <3>3, <3>4, <3>5 DEF ApplyCourse
  <2>6. Active(r)
    BY <2>2 DEF Active, Finished
  <2> QED BY <2>2, <2>3, <2>4, <2>5, <2>6, AloneGoesOn
<1>8. ASSUME NEW r \in Requests, LoadNftables(r) PROVE AloneInv'
  <2>1. PICK t : t = [req[r] EXCEPT !.pc = "restart"]
    OBVIOUS
  <2>2. /\ req[r] \in Request /\ req[r].pc = "load" /\ Goto(r, t)
        /\ table' = TRUE /\ UNCHANGED <<files, completed, addresses, dnsmasq>>
    BY <1>8, <1>a, <2>1 DEF LoadNftables, At, Step
  <2>3. /\ t.pc = "restart"
        /\ t.op = req[r].op /\ t.input = req[r].input /\ t.activate = req[r].activate
        /\ t.next = req[r].next /\ t.saved = req[r].saved /\ t.snap = req[r].snap
        /\ t.added = req[r].added /\ t.activated = req[r].activated /\ t.read = req[r].read
    BY <2>1, <2>2 DEF Request
  <2>4. PICK old : old = Recoverable(r)
    OBVIOUS
  <2>5. ASSUME r \in alone, t.op = "apply" PROVE ApplyCourse(t, old)'
    <3>1. ApplyCourse(req[r], old)
      BY <2>3, <2>4, <2>5 DEF AloneInv
    <3>2. Kept(t, old)'
      BY <2>2, <2>3, <3>1 DEF ApplyCourse, Kept, Undoing, Returning
    <3>3. Restored(t, old)'
      BY <2>2, <2>3, <3>1 DEF ApplyCourse, Restored
    <3>4. Written(t)'
      BY <2>2, <2>3, <3>1 DEF ApplyCourse, Written, FilesWritten
    <3>5. Served(t)'
      BY <2>2, <2>3, <3>1 DEF ApplyCourse, Served, FilesWritten
    <3> QED BY <3>2, <3>3, <3>4, <3>5 DEF ApplyCourse
  <2>6. Active(r)
    BY <2>2 DEF Active, Finished
  <2> QED BY <2>2, <2>3, <2>4, <2>5, <2>6, AloneGoesOn
<1>9. ASSUME NEW r \in Requests, RestartDnsmasq(r) PROVE AloneInv'
  <2>1. PICK t : t = [req[r] EXCEPT !.pc = "health", !.activated = TRUE]
    OBVIOUS
  <2>2. /\ req[r] \in Request /\ req[r].pc = "restart" /\ Goto(r, t)
        /\ dnsmasq' = files["dnsmasq"] /\ UNCHANGED <<files, completed, addresses, table>>
    BY <1>9, <1>a, <2>1 DEF RestartDnsmasq, At
  <2>3. /\ t.pc = "health" /\ t.activated
        /\ t.op = req[r].op /\ t.input = req[r].input /\ t.activate = req[r].activate
        /\ t.next = req[r].next /\ t.saved = req[r].saved /\ t.snap = req[r].snap
        /\ t.added = req[r].added /\ t.read = req[r].read
    BY <2>1, <2>2 DEF Request
  <2>4. PICK old : old = Recoverable(r)
    OBVIOUS
  <2>5. ASSUME r \in alone, t.op = "apply" PROVE ApplyCourse(t, old)'
    <3>1. ApplyCourse(req[r], old)
      BY <2>3, <2>4, <2>5 DEF AloneInv
    <3>2. Kept(t, old)'
      BY <2>2, <2>3, <3>1 DEF ApplyCourse, Kept, Undoing, Returning
    <3>3. Restored(t, old)'
      BY <2>2, <2>3, <3>1 DEF ApplyCourse, Restored
    <3>4. Written(t)'
      BY <2>2, <2>3, <3>1 DEF ApplyCourse, Written, FilesWritten
    <3>5. Served(t)'
      <4>1. files[Paths[2]] = req[r].input
        BY <2>2, <3>1 DEF ApplyCourse, Written, FilesWritten
      <4>2. dnsmasq' = req[r].input
        BY <2>2, <4>1, PathFacts
      <4> QED BY <2>2, <2>3, <3>1, <4>2 DEF ApplyCourse, Served, FilesWritten
    <3> QED BY <3>2, <3>3, <3>4, <3>5 DEF ApplyCourse
  <2>6. Active(r)
    BY <2>2 DEF Active, Finished
  <2> QED BY <2>2, <2>3, <2>4, <2>5, <2>6, AloneGoesOn
<1>10. ASSUME NEW r \in Requests, Healthy(r) PROVE AloneInv'
  <2>1. PICK t : t = [req[r] EXCEPT !.pc = "readflag"]
    OBVIOUS
  <2>2. /\ req[r] \in Request /\ req[r].pc = "health" /\ Goto(r, t)
        /\ UNCHANGED <<files, completed, addresses, table, dnsmasq>>
    BY <1>10, <1>a, <2>1 DEF Healthy, At, Step, host
  <2>3. /\ t.pc = "readflag"
        /\ t.op = req[r].op /\ t.input = req[r].input /\ t.activate = req[r].activate
        /\ t.next = req[r].next /\ t.saved = req[r].saved /\ t.snap = req[r].snap
        /\ t.added = req[r].added /\ t.activated = req[r].activated /\ t.read = req[r].read
    BY <2>1, <2>2 DEF Request
  <2>4. PICK old : old = Recoverable(r)
    OBVIOUS
  <2>5. ASSUME r \in alone, t.op = "apply" PROVE ApplyCourse(t, old)'
    <3>1. ApplyCourse(req[r], old)
      BY <2>3, <2>4, <2>5 DEF AloneInv
    <3>2. Kept(t, old)'
      BY <2>2, <2>3, <3>1 DEF ApplyCourse, Kept, Undoing, Returning
    <3>3. Restored(t, old)'
      BY <2>2, <2>3, <3>1 DEF ApplyCourse, Restored
    <3>4. Written(t)'
      BY <2>2, <2>3, <3>1 DEF ApplyCourse, Written, FilesWritten
    <3>5. Served(t)'
      BY <2>2, <2>3, <3>1 DEF ApplyCourse, Served, FilesWritten
    <3> QED BY <3>2, <3>3, <3>4, <3>5 DEF ApplyCourse
  <2>6. Active(r)
    BY <2>2 DEF Active, Finished
  <2> QED BY <2>2, <2>3, <2>4, <2>5, <2>6, AloneGoesOn
<1>c. ASSUME NEW r \in Requests, NEW pc \in Finished, Active(r), Step(r, pc) PROVE AloneInv'
  BY <1>c, AloneEnds
<1>11. ASSUME NEW r \in Requests, ReadFlag(r) PROVE AloneInv'
  <2>1. Active(r)
    BY <1>11 DEF ReadFlag, At, Active, Finished
  <2>2. CASE Step(r, "failed")
    BY <1>c, <2>1, <2>2 DEF Finished
  <2>3. CASE Goto(r, [req[r] EXCEPT !.pc = "writeflag", !.read = files["config"]])
    <3>1. PICK t : t = [req[r] EXCEPT !.pc = "writeflag", !.read = files["config"]]
      OBVIOUS
    <3>2. /\ req[r] \in Request /\ req[r].pc = "readflag" /\ Goto(r, t)
          /\ UNCHANGED <<files, completed, addresses, table, dnsmasq>>
      BY <1>11, <1>a, <2>3, <3>1 DEF ReadFlag, At, host
    <3>3. /\ t.pc = "writeflag" /\ t.read = files["config"]
          /\ t.op = req[r].op /\ t.input = req[r].input /\ t.activate = req[r].activate
          /\ t.saved = req[r].saved /\ t.snap = req[r].snap /\ t.added = req[r].added
          /\ t.activated = req[r].activated
      BY <3>1, <3>2 DEF Request
    <3>4. PICK old : old = Recoverable(r)
      OBVIOUS
    <3>5. ASSUME r \in alone, t.op = "apply" PROVE ApplyCourse(t, old)'
      <4>1. ApplyCourse(req[r], old)
        BY <3>3, <3>4, <3>5 DEF AloneInv
      <4>2. Kept(t, old)'
        BY <3>2, <3>3, <4>1 DEF ApplyCourse, Kept, Undoing, Returning
      <4>3. Restored(t, old)'
        BY <3>3 DEF Restored
      <4>4. Written(t)'
        <5>1. \A n \in 1 .. 3 : files[Paths[n]] = req[r].input
          BY <3>2, <4>1 DEF ApplyCourse, Written, FilesWritten
        <5>2. files["config"] = req[r].input
          BY <5>1, PathFacts
        <5> QED BY <3>2, <3>3, <5>1, <5>2 DEF Written, FilesWritten
      <4>5. Served(t)'
        BY <3>2, <3>3, <4>1 DEF ApplyCourse, Served, FilesWritten
      <4> QED BY <4>2, <4>3, <4>4, <4>5 DEF ApplyCourse
    <3> QED BY <2>1, <3>2, <3>3, <3>4, <3>5, AloneGoesOn
  <2> QED BY <1>11, <2>2, <2>3 DEF ReadFlag
<1>12. ASSUME NEW r \in Requests, WriteFlag(r) PROVE AloneInv'
  BY <1>12, <1>c DEF WriteFlag, At, Active, Finished
<1>13. ASSUME NEW r \in Requests, StepFails(r) PROVE AloneInv'
  <2>1. /\ req[r] \in Request /\ Active(r) /\ req[r].pc \notin {"ungateway"} \cup Returning
        /\ UNCHANGED <<files, completed, addresses>> /\ dnsmasq' \in {dnsmasq, "failed"}
    BY <1>13, <1>a DEF StepFails, Active, Finished, Returning
  <2>2. CASE req[r].added /\ Step(r, "ungateway")
    <3>1. PICK t : t = [req[r] EXCEPT !.pc = "ungateway"]
      OBVIOUS
    <3>2. /\ t.pc = "ungateway" /\ t.op = req[r].op /\ t.input = req[r].input
          /\ t.saved = req[r].saved /\ t.snap = req[r].snap /\ t.added = req[r].added
          /\ t.activated = req[r].activated
      BY <2>1, <3>1 DEF Request
    <3>3. PICK old : old = Recoverable(r)
      OBVIOUS
    <3>4. ASSUME r \in alone, t.op = "apply" PROVE ApplyCourse(t, old)'
      <4>1. ApplyCourse(req[r], old)
        BY <3>2, <3>3, <3>4 DEF AloneInv
      <4>2. t.saved /\ t.added
        BY <2>2, <3>2, <4>1 DEF ApplyCourse, Kept
      <4> QED BY <2>1, <3>2, <4>1, <4>2, WayBack
    <3>5. Goto(r, t)
      BY <2>2, <3>1 DEF Step
    <3> QED BY <2>1, <3>2, <3>3, <3>4, <3>5, AloneGoesOn
  <2>3. CASE ~req[r].added /\ req[r].saved /\ Goto(r, [req[r] EXCEPT !.pc = "restore", !.next = 1])
    <3>1. PICK t : t = [req[r] EXCEPT !.pc = "restore", !.next = 1]
      OBVIOUS
    <3>2. /\ t.pc = "restore" /\ t.next = 1 /\ t.op = req[r].op /\ t.input = req[r].input
          /\ t.saved = req[r].saved /\ t.snap = req[r].snap /\ t.added = req[r].added
          /\ t.activated = req[r].activated
      BY <2>1, <3>1 DEF Request
    <3>3. PICK old : old = Recoverable(r)
      OBVIOUS
    <3>4. ASSUME r \in alone, t.op = "apply" PROVE ApplyCourse(t, old)'
      <4>1. ApplyCourse(req[r], old)
        BY <3>2, <3>3, <3>4 DEF AloneInv
      <4>2. t.saved /\ ~t.added
        BY <2>3, <3>2
      <4> QED BY <2>1, <3>2, <4>1, <4>2, WayBack
    <3>5. Goto(r, t)
      BY <2>3, <3>1
    <3> QED BY <2>1, <3>2, <3>3, <3>4, <3>5, AloneGoesOn
  <2>4. CASE Step(r, "failed")
    BY <1>c, <2>1, <2>4 DEF Finished
  <2> QED BY <1>13, <2>2, <2>3, <2>4 DEF StepFails
<1>14. ASSUME NEW r \in Requests, RemoveGateway(r) PROVE AloneInv'
  <2>1. PICK fails \in BOOLEAN :
           /\ addresses' = IF fails THEN addresses ELSE addresses \ {req[r].input}
           /\ Goto(r, [req[r] EXCEPT !.pc = "restore", !.next = 1, !.added = fails])
    BY <1>14 DEF RemoveGateway
  <2>2. PICK t : t = [req[r] EXCEPT !.pc = "restore", !.next = 1, !.added = fails]
    OBVIOUS
  <2>3. /\ req[r] \in Request /\ req[r].pc = "ungateway" /\ Goto(r, t)
        /\ UNCHANGED <<files, completed, table, dnsmasq>>
    BY <1>14, <1>a, <2>1, <2>2 DEF RemoveGateway, At
  <2>4. /\ t.pc = "restore" /\ t.next = 1 /\ t.added = fails
        /\ t.op = req[r].op /\ t.input = req[r].input
        /\ t.saved = req[r].saved /\ t.snap = req[r].snap /\ t.activated = req[r].activated
    BY <2>2, <2>3 DEF Request
  <2>5. PICK old : old = Recoverable(r)'
    OBVIOUS
  <2>7. Active(r)
    BY <2>3 DEF Active, Finished
  <2>6. ASSUME r \in alone, t.op = "apply" PROVE ApplyCourse(t, old)'
    <3>a. PICK was : was = Recoverable(r)
      OBVIOUS
    <3>1. ApplyCourse(req[r], was)
      BY <2>4, <3>a, <2>6 DEF AloneInv
    <3>2. req[r].added /\ req[r].input \notin was.addresses
          /\ addresses = was.addresses \cup {req[r].input}
      BY <2>3, <3>1 DEF ApplyCourse, Kept, Returning
    <3>3. addresses' = IF fails THEN was.addresses \cup {req[r].input} ELSE was.addresses
      BY <2>1, <3>2
    <3>b. /\ before'[r] = before[r] /\ missed'[r] = missed[r] /\ req'[r] = t
          /\ r \in stuck' <=> (fails \/ r \in stuck)
      <4>1. req'[r] = t
        BY <2>3 DEF Goto, TInv, SetupTypeOK
      <4>2. req[r].input \in addresses' <=> fails
        BY <3>2, <3>3
      <4>3. before'[r] = before[r] /\ missed'[r] = missed[r]
        BY <2>3, <2>4, <2>7, <4>1 DEF Remember, Begins, Snaps, At
      <4>4. r \in stuck' <=> (fails \/ r \in stuck)
        BY <2>3, <2>4, <2>7, <4>1, <4>2 DEF Remember, Begins, KeepsAddress, At
      <4> QED BY <4>1, <4>3, <4>4
    <3>c. /\ old.files = was.files /\ old.completed = was.completed
          /\ old.dnsmasq = was.dnsmasq /\ old.addresses = addresses'
      <4>1. /\ old.files = was.files /\ old.completed = was.completed
            /\ old.dnsmasq = was.dnsmasq
        BY <2>5, <3>a, <3>b DEF Recoverable
      <4>2. /\ old.addresses = before[r].addresses
                                \cup (IF r \in stuck' THEN {req[r].input} ELSE {})
            /\ was.addresses = before[r].addresses
                                \cup (IF r \in stuck THEN {req[r].input} ELSE {})
        BY <2>4, <2>5, <3>a, <3>b DEF Recoverable
      <4>3. r \notin stuck
        BY <3>2, <4>2
      <4> QED BY <3>3, <3>b, <4>1, <4>2, <4>3
    <3>4. Kept(t, old)'
      BY <2>3, <2>4, <3>1, <3>c DEF ApplyCourse, Kept, Undoing, Returning
    <3>5. Restored(t, old)' /\ Written(t)' /\ Served(t)'
      BY <2>4 DEF Restored, Written, Served, FilesWritten
    <3> QED BY <3>4, <3>5 DEF ApplyCourse
  <2> QED BY <2>3, <2>4, <2>5, <2>6, <2>7, AloneMoves
<1>15. ASSUME NEW r \in Requests, RestoreFile(r) PROVE AloneInv'
  <2> DEFINE path == Paths[req[r].next]
  <2>1. PICK t : /\ Goto(r, t)
                 /\ \/ /\ req[r].next < 4
                       /\ t = [req[r] EXCEPT !.next = req[r].next + 1]
                    \/ /\ req[r].next = 4
                       /\ t = [req[r] EXCEPT !.next = 1, !.pc = "nft"]
    BY <1>15, PathFacts DEF RestoreFile
  <2>2. /\ req[r] \in Request /\ req[r].pc = "restore" /\ req[r].next \in 1 .. 4
        /\ SetFile(path, req[r].snap.files[path]) /\ UNCHANGED <<addresses, table, dnsmasq>>
        /\ completed' = IF path = "config" THEN req[r].snap.completed ELSE completed
    BY <1>15, <1>a, RequestFields DEF RestoreFile, At
  <2>3. /\ \/ t.pc = "restore" /\ req[r].next < 4 /\ t.next = req[r].next + 1
           \/ t.pc = "nft" /\ req[r].next = 4
        /\ t.op = req[r].op /\ t.input = req[r].input
        /\ t.saved = req[r].saved /\ t.snap = req[r].snap /\ t.added = req[r].added
        /\ t.activated = req[r].activated
    BY <2>1, <2>2 DEF Request
  <2>4. PICK old : old = Recoverable(r)
    OBVIOUS
  <2>5. ASSUME r \in alone, t.op = "apply" PROVE ApplyCourse(t, old)'
    <3>1. ApplyCourse(req[r], old)
      BY <2>3, <2>4, <2>5 DEF AloneInv
    <3>2. /\ req[r].saved /\ req[r].snap.files = old.files
          /\ req[r].snap.completed = old.completed
          /\ old.files \in [PathSet -> Versions \cup {None}]
      <4>1. req[r].saved /\ req[r].snap = [files |-> old.files, completed |-> old.completed]
        BY <2>2, <3>1 DEF ApplyCourse, Kept, Undoing, Returning
      <4> QED BY <2>2, <4>1, RequestFields
    <3>3. Kept(t, old)'
      BY <2>2, <2>3, <3>1 DEF ApplyCourse, Kept, Undoing, Returning
    <3>4. Restored(t, old)'
      <4>1. /\ \A n \in 1 .. req[r].next - 1 : files[Paths[n]] = old.files[Paths[n]]
            /\ req[r].next > 1 => completed = old.completed
        BY <2>2, <3>1 DEF ApplyCourse, Restored
      <4>2. /\ files' \in [PathSet -> Versions \cup {None}]
            /\ files'[path] = old.files[path]
            /\ \A other \in PathSet : other # path => files'[other] = files[other]
        <5>1. path \in PathSet /\ old.files[path] \in Versions \cup {None}
          BY <1>b, <2>2, <3>2
        <5> QED BY <1>b, <2>2, <3>2, <5>1, FileSet
      <4>3. completed' = old.completed
        <5>1. CASE req[r].next = 1
          <6>1. path = "config"
            BY <5>1, PathFacts
          <6> QED BY <2>2, <3>2, <6>1
        <5>2. CASE req[r].next > 1
          <6>1. completed = old.completed
            BY <4>1, <5>2
          <6> QED BY <2>2, <3>2, <6>1
        <5> QED BY <2>2, <5>1, <5>2
      <4> HIDE DEF path
      <4>4. ASSUME NEW n \in 1 .. 4, n <= req[r].next
            PROVE  files'[Paths[n]] = old.files[Paths[n]]
        <5>1. CASE n = req[r].next
          BY <4>2, <5>1 DEF path
        <5>2. CASE n < req[r].next
          <6>1. n \in 1 .. req[r].next - 1 /\ Paths[n] \in PathSet
            BY <1>b, <2>2, <5>2
          <6> QED BY <4>1, <4>2, <6>1
        <5> QED BY <2>2, <4>4, <5>1, <5>2
      <4>5. CASE t.pc = "restore"
        <5>1. \A n \in 1 .. t.next - 1 : n \in 1 .. 4 /\ n <= req[r].next
          BY <2>2, <2>3, <4>5
        <5> QED BY <4>3, <4>4, <4>5, <5>1 DEF Restored
      <4>6. CASE t.pc = "nft"
        <5>1. \A n \in 1 .. 4 : files'[Paths[n]] = old.files[Paths[n]]
          BY <2>3, <4>4, <4>6
        <5>2. \A p \in PathSet : files'[p] = old.files[p]
          BY <5>1, PathFacts
        <5>3. files' = old.files
          BY <3>2, <4>2, <5>2
        <5> QED BY <4>3, <4>6, <5>3 DEF Restored
      <4> QED BY <2>3, <4>5, <4>6
    <3>5. Written(t)' /\ Served(t)'
      BY <2>3 DEF Written, Served, FilesWritten
    <3> QED BY <3>3, <3>4, <3>5 DEF ApplyCourse
  <2>6. Active(r)
    BY <2>2 DEF Active, Finished
  <2> QED BY <2>1, <2>2, <2>3, <2>4, <2>5, <2>6, AloneGoesOn
<1>16. ASSUME NEW r \in Requests, RestoreNft(r) PROVE AloneInv'
  <2>1. /\ req[r] \in Request /\ req[r].pc = "nft" /\ Active(r)
        /\ UNCHANGED <<files, completed, addresses, table, dnsmasq>>
    BY <1>16, <1>a DEF RestoreNft, At, Active, Finished, host
  <2>2. CASE Step(r, "rolledback")
    BY <1>c, <2>1, <2>2 DEF Finished
  <2>3. CASE Step(r, "reload")
    <3>1. PICK t : t = [req[r] EXCEPT !.pc = "reload"]
      OBVIOUS
    <3>2. /\ t.pc = "reload" /\ t.op = req[r].op /\ t.input = req[r].input
          /\ t.saved = req[r].saved /\ t.snap = req[r].snap /\ t.added = req[r].added
          /\ t.activated = req[r].activated
      BY <2>1, <3>1 DEF Request
    <3>3. PICK old : old = Recoverable(r)
      OBVIOUS
    <3>4. ASSUME r \in alone, t.op = "apply" PROVE ApplyCourse(t, old)'
      <4>1. ApplyCourse(req[r], old)
        BY <3>2, <3>3, <3>4 DEF AloneInv
      <4>2. Kept(t, old)'
        BY <2>1, <3>2, <4>1 DEF ApplyCourse, Kept, Undoing, Returning
      <4>3. Restored(t, old)'
        BY <2>1, <3>2, <4>1 DEF ApplyCourse, Restored
      <4>4. Written(t)' /\ Served(t)'
        BY <3>2 DEF Written, Served, FilesWritten
      <4> QED BY <4>2, <4>3, <4>4 DEF ApplyCourse
    <3>5. Goto(r, t)
      BY <2>3, <3>1 DEF Step
    <3> QED BY <2>1, <3>2, <3>3, <3>4, <3>5, AloneGoesOn
  <2> QED BY <1>16, <2>2, <2>3 DEF RestoreNft
<1>17. ASSUME NEW r \in Requests, ReloadDnsmasq(r) PROVE AloneInv'
  <2>1. req[r] \in Request /\ Active(r)
    BY <1>17, <1>a DEF ReloadDnsmasq, At, Active, Finished
  <2>2. CASE req[r].op = "apply"
    BY <1>17, <1>c, <2>1, <2>2 DEF ReloadDnsmasq, Finished
  <2>3. CASE req[r].op # "apply"
    <3>1. PICK t : t = [req[r] EXCEPT !.pc = "readflag"]
      OBVIOUS
    <3>2. /\ t.op # "apply" /\ Goto(r, t)
          /\ t.pc = "readflag" /\ t.input = req[r].input
      BY <1>17, <2>1, <2>3, <3>1, StepFields DEF ReloadDnsmasq, Step
    <3>3. PICK old : old = Recoverable(r)
      OBVIOUS
    <3> QED BY <2>1, <3>2, <3>3, AloneGoesOn
  <2> QED BY <2>2, <2>3
<1>18. ASSUME NEW r \in Requests, Throws(r) PROVE AloneInv'
  BY <1>18, <1>c DEF Throws, Active, Finished
<1>19. CASE AutoRestart \/ Crash
  <2>1. \A r \in Requests : ~Active(r)'
    BY <1>19 DEF AutoRestart, Crash, Idle, Active, Finished
  <2>2. alone' = {}
    BY <2>1 DEF Remember
  <2> QED BY <2>2 DEF AloneInv
<1> QED
  BY <1>2, <1>3, <1>4, <1>5, <1>6, <1>7, <1>8, <1>9, <1>10, <1>11, <1>12, <1>13,
     <1>14, <1>15, <1>16, <1>17, <1>18, <1>19
  DEF Next, NewRequest, ApplyStep, UndoStep, Unnoticed

LEMMA Courses == MCSpec => [](TInv /\ AloneInv)
<1>1. MCInit => TInv /\ AloneInv
  BY InitTypes, InitAlone DEF MCInit
<1>2. [MCNext]_mcVars => [Next]_vars
  BY DEF MCNext, Next, mcVars
<1>3. TInv /\ AloneInv /\ [MCNext]_mcVars => (TInv /\ AloneInv)'
  BY <1>2, NextTypes, NextAlone
<1> QED BY <1>1, <1>3, PTL DEF MCSpec

\* The request moves on; a report is that of the step that made it.
LEMMA Moves ==
    ASSUME TInv, NEW r \in Requests, NEW pc, Step(r, pc)
    PROVE  req'[r].pc = pc
<1>1. req[r] \in Request /\ req'[r] = [req[r] EXCEPT !.pc = pc]
  BY DEF TInv, SetupTypeOK, Step, Goto
<1> QED BY <1>1, StepFields

\* However many requests there are and wherever it failed, an apply that
\* reports that it has rolled back, and that no other request overlapped, has
\* left the files, SETUP_COMPLETED, the addresses and dnsmasq as it found them,
\* apart from the files that its snapshot had missed, which are gone, and from
\* its own gateway address where that could not be removed.
THEOREM FailedApplyRestored == MCSpec => FailedApplyRestores
<1>1. ASSUME TInv, AloneInv, [MCNext]_mcVars, NEW r \in alone,
             req[r].op = "apply", req'[r].pc = "rolledback", NEW old, old = Recoverable(r)
      PROVE  /\ files' = old.files /\ completed' = old.completed
             /\ addresses' = old.addresses
             /\ dnsmasq' \in {old.dnsmasq, old.files["dnsmasq"], "failed"}
  <2>1. r \in Requests /\ Active(r) /\ ApplyCourse(req[r], old)
    BY <1>1 DEF AloneInv
  <2>2. Next
    BY <1>1, <2>1 DEF MCNext, Next, mcVars, vars, Active, Finished
  <2>3. ASSUME UNCHANGED <<files, completed, addresses>>, req[r].pc \in {"nft", "reload"}
        PROVE  files' = old.files /\ completed' = old.completed /\ addresses' = old.addresses
    BY <2>1, <2>3 DEF ApplyCourse, Restored, Kept, Returning
  <2>4. CASE WriteFlag(r)
    <3>1. Step(r, "applied")
      BY <1>1, <2>4 DEF WriteFlag
    <3> QED BY <1>1, <2>1, <3>1, Moves
  <2>5. CASE RestoreNft(r)
    <3>1. UNCHANGED <<files, completed, addresses, dnsmasq>> /\ req[r].pc = "nft"
      BY <2>5 DEF RestoreNft, At, host
    <3>2. ~req[r].activated
      BY <1>1, <2>1, <2>5, Moves DEF RestoreNft
    <3>3. dnsmasq' \in {old.dnsmasq, "failed"}
      BY <2>1, <3>1, <3>2 DEF ApplyCourse, Kept
    <3> QED BY <2>3, <3>1, <3>3
  <2>6. CASE ReloadDnsmasq(r)
    <3>1. /\ UNCHANGED <<files, completed, addresses>> /\ req[r].pc = "reload"
          /\ dnsmasq' \in {"failed", files["dnsmasq"]}
      BY <2>6 DEF ReloadDnsmasq, At
    <3>2. files = old.files
      BY <2>1, <3>1 DEF ApplyCourse, Restored
    <3> QED BY <2>3, <3>1, <3>2
  <2> QED BY <1>1, <2>1, <2>2, <2>4, <2>5, <2>6, ReportedBy
<1>2. TInv /\ AloneInv /\ [MCNext]_mcVars
        => [\A r \in alone :
              (req[r].op = "apply" /\ req'[r].pc = "rolledback")
                  => LET old == Recoverable(r) IN
                     /\ files' = old.files /\ completed' = old.completed
                     /\ addresses' = old.addresses
                     /\ dnsmasq' \in {old.dnsmasq, old.files["dnsmasq"], "failed"}]_mcVars
  BY <1>1
<1> QED BY <1>2, Courses, PTL DEF MCSpec, FailedApplyRestores

\* However many requests there are, an activated apply that succeeds alone has
\* put its configuration in force, whatever earlier requests, failures and
\* crashes left: its three files, dnsmasq with them, its address, a filter
\* table and the line SETUP_COMPLETED=true.
THEOREM SuccessWhole == MCSpec => SuccessIsWhole
<1>1. ASSUME TInv, AloneInv, [MCNext]_mcVars, NEW r \in alone,
             req[r].activate, req'[r].pc = "applied", NEW input, input = req[r].input
      PROVE  /\ \A path \in PathSet \ {"legacy"} : files'[path] = input
             /\ completed' /\ table' /\ input \in addresses'
             /\ dnsmasq' = input
  <2>1. /\ r \in Requests /\ Active(r)
        /\ req[r].op = "apply" => ApplyCourse(req[r], Recoverable(r))
    BY <1>1 DEF AloneInv
  <2>2. Next
    BY <1>1, <2>1 DEF MCNext, Next, mcVars, vars, Active, Finished
  <2>3. CASE WriteFlag(r)
    <3>1. req[r].op = "apply"
      BY <1>1, <2>1, <2>3, Moves DEF WriteFlag
    <3>2. /\ SetFile("config", req[r].read) /\ completed' = TRUE
          /\ UNCHANGED <<addresses, table, dnsmasq>> /\ req[r].pc = "writeflag"
      BY <2>3, <3>1 DEF WriteFlag, At
    <3>3. /\ \A n \in 1 .. 3 : files[Paths[n]] = input
          /\ req[r].read = input
      BY <1>1, <2>1, <3>1, <3>2 DEF ApplyCourse, Written, FilesWritten
    <3>4. table /\ input \in addresses /\ dnsmasq = input
      BY <1>1, <2>1, <3>1, <3>2 DEF ApplyCourse, Served, FilesWritten
    <3>5. /\ files'["config"] = input
          /\ \A other \in PathSet : other # "config" => files'[other] = files[other]
      BY <1>1, <3>2, <3>3, PathFacts DEF SetFile, TInv, SetupTypeOK
    <3>6. files["dnsmasq"] = input /\ files["nftables"] = input
      BY <3>3, PathFacts
    <3> QED BY <3>2, <3>4, <3>5, <3>6, PathFacts
  <2>4. CASE RestoreNft(r)
    BY <1>1, <2>1, <2>4, Moves DEF RestoreNft
  <2>5. CASE ReloadDnsmasq(r)
    BY <1>1, <2>1, <2>5, Moves DEF ReloadDnsmasq
  <2> QED BY <1>1, <2>1, <2>2, <2>3, <2>4, <2>5, ReportedBy
<1>2. TInv /\ AloneInv /\ [MCNext]_mcVars
        => [\A r \in alone :
              (req[r].activate /\ req'[r].pc = "applied")
                  => LET input == req[r].input IN
                     /\ \A path \in PathSet \ {"legacy"} : files'[path] = input
                     /\ completed' /\ table' /\ input \in addresses'
                     /\ dnsmasq' = input]_mcVars
  BY <1>1
<1> QED BY <1>2, Courses, PTL DEF MCSpec, SuccessIsWhole
-----------------------------------------------------------------------------
(***************************************************************************)
(* The VPN.                                                                *)
(***************************************************************************)

JobsOK == job \in [Callers -> {IdleJob} \cup BusyJobs]

RulesOK == rules \in [Handles -> NatKinds \cup {"drop", "none"}]

\* A caller that has begun has an operation to do.
LEMMA BusyAt ==
    ASSUME VpnTypeOK, NEW c \in Callers, NEW step \in Steps, AtStep(c, step)
    PROVE  job[c] \in BusyJobs
  BY DEF VpnTypeOK, AtStep, IdleJob, Steps

\* The next command of the same operation.
LEMMA NextCommand ==
    ASSUME VpnTypeOK, NEW c \in Callers, job[c] \in BusyJobs, NEW step \in Steps,
           NEW todo \in SUBSET Handles, NEW connected \in BOOLEAN,
           \/ job' = [job EXCEPT ![c].pc = step]
           \/ job' = [job EXCEPT ![c].todo = todo]
           \/ job' = [job EXCEPT ![c].pc = step, ![c].todo = todo]
           \/ job' = [job EXCEPT ![c].pc = step, ![c].connected = connected]
    PROVE  JobsOK'
<1>1. /\ [job[c] EXCEPT !.pc = step] \in BusyJobs
      /\ [job[c] EXCEPT !.todo = todo] \in BusyJobs
      /\ [job[c] EXCEPT !.pc = step, !.todo = todo] \in BusyJobs
      /\ [job[c] EXCEPT !.pc = step, !.connected = connected] \in BusyJobs
  BY DEF BusyJobs
<1>2. QED
  BY <1>1 DEF VpnTypeOK, JobsOK

LEMMA Ended ==
    ASSUME VpnTypeOK, NEW c \in Callers, Finish(c)
    PROVE  JobsOK'
  BY DEF VpnTypeOK, JobsOK, Finish

LEMMA Begun ==
    ASSUME VpnTypeOK, NEW c \in Callers, NEW op, NEW step \in Steps, NEW enabled \in BOOLEAN,
           op \in {"enable", "disable", "configure", "reconcile", "check"},
           Begin(c, op, step, enabled)
    PROVE  VpnTypeOK'
<1>1. [pc |-> step, op |-> op, enabled |-> enabled, connected |-> FALSE, todo |-> {}] \in BusyJobs
  BY DEF BusyJobs
<1>2. JobsOK'
  BY <1>1 DEF Begin, VpnTypeOK, JobsOK
<1>3. QED
  BY <1>2 DEF Begin, VpnTypeOK, JobsOK

\* A rule is added with a handle that has none, or not at all.
LEMMA RuleAdded ==
    ASSUME RulesOK, NEW kind \in NatKinds \cup {"drop"}
    PROVE  WithRule(kind) \in [Handles -> NatKinds \cup {"drop", "none"}]
  BY DEF RulesOK, WithRule

\* The commands that rewrite the rules.
LEMMA RewriteTyped ==
    ASSUME VpnTypeOK, NEW c \in Callers,
           \/ ListNat(c) \/ ListDrops(c) \/ DeleteRule(c) \/ DeleteConflict(c)
           \/ AddNat(c) \/ AddDrop(c) \/ DropRefused(c)
    PROVE  VpnTypeOK'
<1>1. PICK step \in {"natRead", "dropRead", "natDelete", "dropDelete"} : AtStep(c, step)
  BY DEF ListNat, ListDrops, ListRules, DeleteRule, DeleteConflict, AddNat, AddDrop, DropRefused
<1>2. job[c] \in BusyJobs
  BY <1>1, BusyAt DEF Steps
<1>3. job[c].connected \in BOOLEAN /\ job[c].todo \subseteq Handles
  BY <1>2 DEF BusyJobs
<1>4. JobsOK'
  <2>1. CASE ListNat(c) \/ ListDrops(c)
    <3>1. PICK next \in {"natDelete", "dropDelete"}, todo \in SUBSET Handles :
             job' = [job EXCEPT ![c].pc = next, ![c].todo = todo]
      BY <2>1 DEF ListNat, ListDrops, ListRules, HandlesOf
    <3>2. QED
      BY <1>2, <3>1, NextCommand DEF Steps
  <2>2. CASE DeleteRule(c)
    <3>1. PICK h \in job[c].todo : job' = [job EXCEPT ![c].todo = @ \ {h}]
      BY <2>2 DEF DeleteRule
    <3>2. PICK todo \in SUBSET Handles : todo = job[c].todo \ {h}
      BY <1>3
    <3>3. job' = [job EXCEPT ![c].todo = todo]
      BY <3>1, <3>2
    <3>4. QED
      BY <1>2, <3>3, NextCommand DEF Steps
  <2>3. CASE DeleteConflict(c)
    BY <2>3, Ended DEF DeleteConflict
  <2>4. CASE AddNat(c) \/ AddDrop(c)
    <3>1. PICK next \in {"dropRead", "row"} : job' = [job EXCEPT ![c].pc = next]
      BY <2>4 DEF AddNat, AddDrop, GoTo
    <3>2. QED
      BY <1>2, <3>1, NextCommand DEF Steps
  <2>5. CASE DropRefused(c)
    <3>1. CASE Down
      BY <3>1 DEF Down, JobsOK
    <3>2. CASE Finish(c)
      BY <3>2, Ended
    <3>3. QED
      BY <2>5, <3>1, <3>2 DEF DropRefused
  <2>6. QED
    BY <2>1, <2>2, <2>3, <2>4, <2>5
<1>5. RulesOK
  BY DEF VpnTypeOK, RulesOK
<1>6. RulesOK'
  <2>1. CASE AddNat(c) \/ AddDrop(c)
    BY <1>5, <2>1, RuleAdded DEF AddNat, AddDrop, RulesOK, NatKinds
  <2>2. QED
    BY <1>5, <2>1 DEF ListNat, ListDrops, ListRules, DeleteRule, DeleteConflict, DropRefused,
                      RulesOK
<1>7. guard' \in BOOLEAN /\ boot' \in {"firewall", "nat", "vpn", "up"}
  BY DEF ListNat, ListDrops, ListRules, DeleteRule, DeleteConflict, AddNat, AddDrop,
         DropRefused, Down, VpnTypeOK
<1>8. QED
  BY <1>4, <1>6, <1>7 DEF ListNat, ListDrops, ListRules, DeleteRule, DeleteConflict, AddNat,
                          AddDrop, DropRefused, VpnTypeOK, JobsOK, RulesOK

LEMMA CommandTyped ==
    ASSUME VpnTypeOK, NEW c \in Callers, JobStep(c)
    PROVE  VpnTypeOK'
<1>1. ASSUME Status(c) \/ Restart(c) \/ Ready(c) \/ SetGuard(c) \/ Stop(c)
      PROVE  VpnTypeOK'
  <2>1. PICK step \in {"status", "restart", "ready", "guard", "stop"} : AtStep(c, step)
    BY <1>1 DEF Status, Restart, Ready, SetGuard, Stop
  <2>2. job[c] \in BusyJobs
    BY <2>1, BusyAt DEF Steps
  <2>3. job[c].enabled \in BOOLEAN
    BY <2>2 DEF BusyJobs
  <2>4. PICK next \in Steps, connected \in BOOLEAN :
           \/ job' = [job EXCEPT ![c].pc = next]
           \/ job' = [job EXCEPT ![c].pc = next, ![c].connected = connected]
    BY <1>1 DEF Status, Restart, Ready, SetGuard, Stop, GoTo, Steps, Live
  <2>5. JobsOK'
    BY <2>2, <2>4, NextCommand
  <2>6. QED
    BY <1>1, <2>3, <2>5 DEF Status, Restart, Ready, SetGuard, Stop, VpnTypeOK, JobsOK
<1>2. ASSUME WriteRow(c) PROVE VpnTypeOK'
  <2>1. JobsOK'
    BY <1>2, Ended DEF WriteRow
  <2>2. QED
    BY <1>2, <2>1 DEF WriteRow, VpnTypeOK, JobsOK
<1>3. QED
  BY <1>1, <1>2, RewriteTyped DEF JobStep

LEMMA StartTyped ==
    ASSUME VpnTypeOK, NewCall \/ MonitorTick \/ Boot
    PROVE  VpnTypeOK'
<1>1. "restart" \in Steps /\ "guard" \in Steps /\ "status" \in Steps
  BY DEF Steps
<1>2. "monitor" \in Callers /\ Handlers \subseteq Callers
  BY DEF Callers
<1>3. CASE NewCall
  BY <1>1, <1>2, <1>3, Begun DEF NewCall, StartEnable, StartDisable, StartConfigure
<1>4. CASE MonitorTick
  BY <1>1, <1>2, <1>4, Begun DEF MonitorTick
<1>5. CASE BootVpn
  BY <1>1, <1>2, <1>5, Begun DEF BootVpn, VpnTypeOK
<1>6. CASE BootFirewall
  BY <1>6 DEF BootFirewall, VpnTypeOK
<1>7. CASE BootNat
  <2>1. RulesOK
    BY DEF VpnTypeOK, RulesOK
  <2>2. WithRule("uplinkNat") \in [Handles -> NatKinds \cup {"drop", "none"}]
    BY <2>1, RuleAdded DEF NatKinds
  <2>3. QED
    BY <1>7, <2>2 DEF BootNat, VpnTypeOK
<1>8. QED
  BY <1>3, <1>4, <1>5, <1>6, <1>7 DEF Boot

LEMMA FailureTyped ==
    ASSUME VpnTypeOK, CallFails \/ VpnCrash
    PROVE  VpnTypeOK'
<1>1. ASSUME NEW c \in Callers, JobFails(c) PROVE VpnTypeOK'
  <2>1. JobsOK'
    BY <1>1, Ended DEF JobFails
  <2>2. mirror' \subseteq Ips
    BY <1>1 DEF JobFails, VpnTypeOK
  <2>3. QED
    BY <1>1, <2>1, <2>2 DEF JobFails, VpnTypeOK, JobsOK
<1>2. ASSUME NEW c \in Callers, StatusFails(c) PROVE VpnTypeOK'
  <2>1. "status" \in Steps /\ "restart" \in Steps
    BY DEF Steps
  <2>2. job[c] \in BusyJobs
    BY <1>2, <2>1, BusyAt DEF StatusFails
  <2>3. job' = [job EXCEPT ![c].pc = "restart"]
    BY <1>2 DEF StatusFails, GoTo
  <2>4. JobsOK'
    BY <2>1, <2>2, <2>3, NextCommand
  <2>5. QED
    BY <1>2, <2>4 DEF StatusFails, VpnTypeOK, JobsOK
<1>3. CASE VpnCrash
  BY <1>3 DEF VpnCrash, BackendCrash, HostReboot, Down, VpnTypeOK
<1>4. QED
  BY <1>1, <1>2, <1>3 DEF CallFails

LEMMA OutsideTyped ==
    ASSUME VpnTypeOK, TunnelChange \/ Blocking \/ BlockingFails
    PROVE  VpnTypeOK'
<1>1. CASE TunnelChange
  BY <1>1 DEF TunnelChange, TunnelRises, TunnelFalls, VpnTypeOK
<1>2. CASE Blocking \/ BlockingFails
  BY <1>2 DEF Blocking, BlockingFails, BlockIp, UnblockIp, BlockIpHalfway, UnblockIpHalfway,
              VpnTypeOK
<1>3. QED
  BY <1>1, <1>2

LEMMA VpnStart == ASSUME VpnInit PROVE VpnTypeOK
  BY DEF VpnInit, VpnTypeOK, NatKinds

LEMMA VpnTypesGoOn == VpnTypeOK /\ [VpnNext]_vpnVars => VpnTypeOK'
<1>1. CASE UNCHANGED vpnVars
  BY <1>1 DEF vpnVars, VpnTypeOK
<1>2. QED
  BY <1>1, CommandTyped, StartTyped, FailureTyped, OutsideTyped DEF VpnNext, Call

\* VpnTypeOK: whatever callers, crashes and changes of the tunnel interleave, what
\* a caller has left to delete are handles, and every rule that setNat and the
\* startup have made is of a kind that setNat finds again.
THEOREM VpnTypes == VpnSpec => []VpnTypeOK
  BY VpnStart, VpnTypesGoOn, PTL DEF VpnSpec

-----------------------------------------------------------------------------
\* What a caller that nobody has overlapped has made of the rules so far.
NatOf(call) == IF call.connected THEN "vpnNat" ELSE "uplinkNat"

Course(c) ==
    /\ AtStep(c, "natDelete") => HandlesOf(NatKinds) \subseteq job[c].todo
    /\ job[c].pc \in {"dropRead", "dropDelete"} => KindsOfRules \cap NatKinds = {NatOf(job[c])}
    /\ AtStep(c, "dropDelete") => HandlesOf({"drop"}) = job[c].todo
    /\ AtStep(c, "row") => KindsOfRules = Wanted(job[c])

SingleInv ==
    /\ boot \in {"firewall", "nat"} => Busy = {}
    /\ \A c \in single : Busy = {c} /\ Course(c)

\* nft has a handle left.
Roomy == FreeHandles # {}

LEMMA RuleJoins ==
    ASSUME RulesOK, Roomy, NEW kind \in NatKinds \cup {"drop"}, rules' = WithRule(kind)
    PROVE  KindsOfRules' = KindsOfRules \cup {kind}
<1> DEFINE new == CHOOSE h \in FreeHandles : TRUE
<1>1. new \in Handles /\ rules[new] = "none"
  BY DEF Roomy, FreeHandles, HandlesOf
<1>2. rules' = [rules EXCEPT ![new] = kind]
  BY DEF WithRule
<1> HIDE DEF new
<1>3. kind # "none"
  BY DEF NatKinds
<1>4. QED
  BY <1>1, <1>2, <1>3 DEF RulesOK, KindsOfRules

\* An operation begins with a command that does not rewrite the rules.
LEMMA BeginsBusy ==
    ASSUME VpnTypeOK, NEW d \in Callers, NEW op, NEW enabled,
           NEW step \in {"status", "restart", "guard"}, Begin(d, op, step, enabled)
    PROVE  /\ d \notin Busy /\ Busy' = Busy \cup {d}
           /\ job'[d].pc = step /\ rules' = rules /\ boot' = boot
<1> DEFINE call == [pc |-> step, op |-> op, enabled |-> enabled, connected |-> FALSE, todo |-> {}]
<1>1. job[d] = IdleJob /\ job' = [job EXCEPT ![d] = call] /\ rules' = rules /\ boot' = boot
  BY DEF Begin
<1>2. call.pc = step /\ IdleJob.pc = "idle"
  BY DEF IdleJob
<1>3. call # IdleJob
  BY <1>2
<1> HIDE DEF call
<1>4. QED
  BY <1>1, <1>2, <1>3 DEF VpnTypeOK, Busy

\* A caller without an operation gives no command.
LEMMA IdleRests ==
    ASSUME NEW c, JobStep(c) \/ JobFails(c) \/ StatusFails(c)
    PROVE  job[c] # IdleJob
<1>1. AtStep(c, "idle") => ~JobStep(c) /\ ~StatusFails(c)
  BY DEF AtStep, JobStep, StatusFails, Status, Restart, Ready, SetGuard, Stop, ListNat, ListDrops,
         ListRules, DeleteRule, DeleteConflict, AddNat, AddDrop, DropRefused, WriteRow
<1>2. job[c] = IdleJob => AtStep(c, "idle")
  BY DEF IdleJob, AtStep
<1>3. QED
  BY <1>1, <1>2 DEF JobFails

\* A command of one caller leaves the others where they are, or ends the backend.
LEMMA OthersWait ==
    ASSUME VpnTypeOK, NEW c \in Callers, NEW d \in Callers, c # d,
           JobStep(d) \/ JobFails(d) \/ StatusFails(d)
    PROVE  job'[c] = job[c] \/ Down
<1>1. job \in [Callers -> {IdleJob} \cup BusyJobs]
  BY DEF VpnTypeOK
<1>2. ASSUME NEW call, job' = [job EXCEPT ![d] = call] PROVE job'[c] = job[c]
  BY <1>1, <1>2
<1>3. CASE Status(d)
  BY <1>2, <1>3 DEF Status
<1>4. CASE Restart(d) \/ Ready(d) \/ SetGuard(d) \/ Stop(d) \/ StatusFails(d)
  BY <1>2, <1>4 DEF Restart, Ready, SetGuard, Stop, StatusFails, GoTo
<1>5. CASE ListNat(d) \/ ListDrops(d)
  BY <1>2, <1>5 DEF ListNat, ListDrops, ListRules
<1>6. CASE DeleteRule(d) \/ AddNat(d) \/ AddDrop(d)
  BY <1>2, <1>6 DEF DeleteRule, AddNat, AddDrop, GoTo
<1>7. CASE DeleteConflict(d) \/ DropRefused(d) \/ WriteRow(d) \/ JobFails(d)
  BY <1>2, <1>7 DEF DeleteConflict, DropRefused, WriteRow, JobFails, Finish
<1>8. QED
  BY <1>3, <1>4, <1>5, <1>6, <1>7 DEF JobStep

\* setNat, command by command.
LEMMA Rewrites ==
    ASSUME VpnTypeOK, Roomy, NEW c \in Callers, Course(c), JobStep(c), c \in Busy'
    PROVE  Course(c)'
<1>1. RulesOK /\ job[c] \in {IdleJob} \cup BusyJobs /\ JobsOK
  BY DEF VpnTypeOK, RulesOK, JobsOK
<1>2. job[c] \in BusyJobs
  BY <1>1, IdleRests
<1>3. Finish(c) \/ Down => c \notin Busy'
  BY <1>1 DEF Finish, Down, Busy, JobsOK
<1>4. job[c].connected \in BOOLEAN /\ job[c].enabled \in BOOLEAN
  BY <1>2 DEF BusyJobs
<1>5. CASE Status(c) \/ Restart(c) \/ Ready(c) \/ SetGuard(c) \/ Stop(c)
  <2>1. job'[c].pc \in {"guard", "restart", "ready", "natRead", "stop"}
    BY <1>1, <1>2, <1>5 DEF Status, Restart, Ready, SetGuard, Stop, GoTo, JobsOK, BusyJobs
  <2>2. QED
    BY <2>1 DEF Course, AtStep
<1>6. CASE ListNat(c)
  <2>1. rules' = rules /\ job'[c].pc = "natDelete" /\ job'[c].todo = HandlesOf(NatKinds)
    BY <1>1, <1>2, <1>6 DEF ListNat, ListRules, JobsOK, BusyJobs
  <2>2. QED
    BY <2>1 DEF Course, AtStep, HandlesOf
<1>7. CASE DeleteRule(c)
  <2>1. PICK h \in job[c].todo : /\ rules' = [rules EXCEPT ![h] = "none"]
                                 /\ job' = [job EXCEPT ![c].todo = @ \ {h}]
    BY <1>7 DEF DeleteRule
  <2>2. h \in Handles
    BY <1>2 DEF BusyJobs
  <2>3. /\ job'[c].pc = job[c].pc /\ job'[c].connected = job[c].connected
        /\ job'[c].todo = job[c].todo \ {h}
    BY <1>1, <1>2, <2>1 DEF JobsOK, BusyJobs
  <2>4. \A g \in Handles : rules'[g] = IF g = h THEN "none" ELSE rules[g]
    BY <1>1, <2>1, <2>2 DEF RulesOK
  <2>5. CASE AtStep(c, "natDelete")
    <3>1. HandlesOf(NatKinds)' \subseteq HandlesOf(NatKinds) \ {h}
      BY <2>4 DEF HandlesOf, NatKinds
    <3>2. QED
      BY <2>3, <2>5, <3>1 DEF Course, AtStep
  <2>6. CASE AtStep(c, "dropDelete")
    <3>1. rules[h] = "drop"
      BY <2>6 DEF Course, HandlesOf
    <3>2. HandlesOf({"drop"})' = HandlesOf({"drop"}) \ {h}
      BY <2>4 DEF HandlesOf
    <3>3. KindsOfRules' \cap NatKinds = KindsOfRules \cap NatKinds
      BY <2>2, <2>4, <3>1 DEF KindsOfRules, NatKinds
    <3>4. QED
      BY <2>3, <2>6, <3>2, <3>3 DEF Course, AtStep, NatOf
  <2>7. QED
    BY <1>7, <2>5, <2>6 DEF DeleteRule
<1>8. CASE AddNat(c)
  <2>1. /\ job'[c].pc = "dropRead" /\ job'[c].connected = job[c].connected
        /\ rules' = WithRule(NatOf(job[c])) /\ HandlesOf(NatKinds) = {}
    BY <1>1, <1>2, <1>8 DEF AddNat, GoTo, JobsOK, BusyJobs, Course, NatOf
  <2>2. NatOf(job[c]) \in NatKinds /\ KindsOfRules \cap NatKinds = {}
    BY <2>1 DEF NatOf, NatKinds, HandlesOf, KindsOfRules
  <2>3. KindsOfRules' = KindsOfRules \cup {NatOf(job[c])}
    BY <1>1, <2>1, <2>2, RuleJoins
  <2>4. KindsOfRules' \cap NatKinds = {NatOf(job'[c])}
    BY <2>1, <2>2, <2>3 DEF NatOf
  <2>5. QED
    BY <2>1, <2>4 DEF Course, AtStep
<1>9. CASE ListDrops(c)
  <2>1. /\ rules' = rules /\ job'[c].pc = "dropDelete" /\ job'[c].todo = HandlesOf({"drop"})
        /\ job'[c].connected = job[c].connected /\ AtStep(c, "dropRead")
    BY <1>1, <1>2, <1>9 DEF ListDrops, ListRules, JobsOK, BusyJobs
  <2>2. QED
    BY <2>1 DEF Course, AtStep, HandlesOf, KindsOfRules, NatOf
<1>10. CASE AddDrop(c)
  <2>1. /\ job'[c].pc = "row" /\ job'[c].connected = job[c].connected
        /\ job'[c].enabled = job[c].enabled /\ AtStep(c, "dropDelete") /\ job[c].todo = {}
        /\ rules' = IF WantsDrop(c) THEN WithRule("drop") ELSE rules
    BY <1>1, <1>2, <1>10 DEF AddDrop, GoTo, JobsOK, BusyJobs
  <2>2. KindsOfRules = {NatOf(job[c])}
    <3>1. "drop" \notin KindsOfRules
      BY <2>1 DEF Course, HandlesOf, KindsOfRules
    <3>2. KindsOfRules \subseteq NatKinds \cup {"drop"}
      BY <1>1 DEF RulesOK, KindsOfRules
    <3>3. KindsOfRules \cap NatKinds = {NatOf(job[c])}
      BY <2>1 DEF Course, AtStep
    <3>4. QED
      BY <3>1, <3>2, <3>3
  <2>3. KindsOfRules' = IF WantsDrop(c) THEN {NatOf(job[c]), "drop"} ELSE {NatOf(job[c])}
    <3>1. CASE WantsDrop(c)
      BY <1>1, <2>1, <2>2, <3>1, RuleJoins
    <3>2. CASE ~WantsDrop(c)
      BY <2>1, <2>2, <3>2 DEF KindsOfRules
    <3>3. QED
      BY <3>1, <3>2
  <2>4. KindsOfRules' = Wanted(job'[c])
    BY <1>4, <2>1, <2>3 DEF NatOf, WantsDrop, Wanted
  <2>5. QED
    BY <2>1, <2>4 DEF Course, AtStep
<1>11. CASE DeleteConflict(c) \/ DropRefused(c) \/ WriteRow(c)
  BY <1>3, <1>11 DEF DeleteConflict, DropRefused, WriteRow
<1>12. QED
  BY <1>5, <1>6, <1>7, <1>8, <1>9, <1>10, <1>11 DEF JobStep

LEMMA SingleStarts == MCVpnInit => SingleInv
  BY DEF MCVpnInit, VpnInit, SingleInv

\* What does not touch the jobs does not touch the rules either, or is one of the
\* steps of a startup, when nobody has begun.
LEMMA SingleCourse ==
    ASSUME VpnTypeOK, Roomy, SingleInv, VpnNext, NEW c, Busy' = {c}, c \in Busy => c \in single
    PROVE  Course(c)'
<1>1. c \in Callers /\ c \in Busy'
  BY DEF Busy
<1>2. CASE c \notin Busy
  <2>1. job[c] = IdleJob /\ job'[c] # IdleJob
    BY <1>1, <1>2 DEF Busy
  <2>2. ASSUME NEW d \in Callers, NEW op, NEW enabled, NEW step \in {"status", "restart", "guard"},
               Begin(d, op, step, enabled)
        PROVE  Course(c)'
    <3>1. d = c /\ job'[d].pc = step
      BY <2>2, BeginsBusy
    <3>2. QED
      BY <3>1 DEF Course, AtStep
  <2>3. CASE NewCall \/ MonitorTick \/ BootVpn
    BY <2>2, <2>3 DEF NewCall, StartEnable, StartDisable, StartConfigure, MonitorTick, BootVpn,
                      Callers
  <2>4. ASSUME NEW d \in Callers, JobStep(d) \/ JobFails(d) \/ StatusFails(d) PROVE FALSE
    <3>1. d # c
      BY <2>1, <2>4, IdleRests
    <3>2. job'[c] = job[c] \/ Down
      BY <1>1, <2>4, <3>1, OthersWait
    <3>3. QED
      BY <1>1, <2>1, <3>2 DEF Down
  <2>5. CASE VpnCrash
    BY <1>1, <2>1, <2>5 DEF VpnCrash, BackendCrash, HostReboot, Down
  <2>6. CASE BootFirewall \/ BootNat \/ TunnelChange \/ Blocking \/ BlockingFails
    BY <2>1, <2>6 DEF BootFirewall, BootNat, TunnelChange, TunnelRises, TunnelFalls, Blocking,
                      BlockingFails, BlockIp, UnblockIp, BlockIpHalfway, UnblockIpHalfway
  <2>7. QED
    BY <2>3, <2>4, <2>5, <2>6 DEF VpnNext, Call, CallFails, Boot
<1>3. CASE c \in Busy
  <2>1. Busy = {c} /\ Course(c) /\ boot \notin {"firewall", "nat"}
    BY <1>3 DEF SingleInv
  <2>2. ASSUME NEW d \in Callers, NEW op, NEW enabled, NEW step \in {"status", "restart", "guard"},
               Begin(d, op, step, enabled)
        PROVE  FALSE
    BY <2>1, <2>2, BeginsBusy
  <2>3. CASE NewCall \/ MonitorTick \/ BootVpn
    BY <2>2, <2>3 DEF NewCall, StartEnable, StartDisable, StartConfigure, MonitorTick, BootVpn,
                      Callers
  <2>4. ASSUME NEW d \in Callers, JobStep(d) \/ JobFails(d) \/ StatusFails(d) PROVE d = c
    BY <2>1, <2>4, IdleRests DEF Busy
  <2>5. CASE JobStep(c)
    BY <1>1, <2>1, <2>5, Rewrites
  <2>6. CASE JobFails(c)
    BY <1>1, <2>6 DEF JobFails, Finish, Busy, VpnTypeOK
  <2>7. CASE StatusFails(c)
    <3>1. job[c] \in {IdleJob} \cup BusyJobs /\ job[c] # IdleJob
      BY <1>1, <1>3 DEF VpnTypeOK, Busy
    <3>2. job'[c].pc = "restart"
      BY <1>1, <2>7, <3>1 DEF StatusFails, GoTo, VpnTypeOK, BusyJobs
    <3>3. QED
      BY <3>2 DEF Course, AtStep
  <2>8. CASE VpnCrash
    BY <1>1, <2>8 DEF VpnCrash, BackendCrash, HostReboot, Down, Busy
  <2>9. CASE BootFirewall \/ BootNat
    BY <2>1, <2>9 DEF BootFirewall, BootNat
  <2>10. CASE TunnelChange \/ Blocking \/ BlockingFails
    <3>1. rules' = rules /\ job' = job
      BY <2>10 DEF TunnelChange, TunnelRises, TunnelFalls, Blocking, BlockingFails, BlockIp,
                   UnblockIp, BlockIpHalfway, UnblockIpHalfway
    <3>2. QED
      BY <2>1, <3>1 DEF Course, AtStep, HandlesOf, KindsOfRules, NatOf
  <2>11. QED
    BY <2>3, <2>4, <2>5, <2>6, <2>7, <2>8, <2>9, <2>10 DEF VpnNext, Call, CallFails, Boot
<1>4. QED
  BY <1>2, <1>3

\* Until a startup has come to the VPN nobody begins.
LEMMA StartupAlone ==
    ASSUME VpnTypeOK, SingleInv, VpnNext, boot' \in {"firewall", "nat"}
    PROVE  Busy' = {}
<1>1. CASE Down
  BY <1>1 DEF Down, Busy
<1>2. CASE ~Down
  <2>1. ASSUME NEW c \in Callers, JobStep(c) \/ JobFails(c) \/ StatusFails(c) PROVE FALSE
    <3>1. boot' = boot \/ boot' = "up"
      BY <1>2, <2>1 DEF JobStep, JobFails, StatusFails, Status, Restart, Ready, SetGuard, Stop,
                        ListNat, ListDrops, ListRules, DeleteRule, DeleteConflict, AddNat,
                        AddDrop, DropRefused, WriteRow
    <3>2. Busy = {}
      BY <3>1 DEF SingleInv
    <3>3. QED
      BY <2>1, <3>2, IdleRests DEF Busy
  <2>2. ~(NewCall \/ MonitorTick \/ BootVpn)
    BY DEF NewCall, StartEnable, StartDisable, StartConfigure, MonitorTick, BootVpn, Begin
  <2>3. ~VpnCrash
    BY <1>2 DEF VpnCrash, BackendCrash, HostReboot
  <2>4. job' = job /\ boot \in {"firewall", "nat"}
    BY <2>1, <2>2, <2>3 DEF VpnNext, Call, CallFails, Boot, BootFirewall, BootNat, TunnelChange,
                            TunnelRises, TunnelFalls, Blocking, BlockingFails, BlockIp,
                            UnblockIp, BlockIpHalfway, UnblockIpHalfway
  <2>5. QED
    BY <2>4 DEF SingleInv, Busy
<1>3. QED
  BY <1>1, <1>2

LEMMA SingleGoesOn ==
    VpnTypeOK /\ Roomy /\ SingleInv /\ [MCVpnNext]_<<vpnVars, used, single>> => SingleInv'
<1> SUFFICES ASSUME VpnTypeOK, Roomy, SingleInv, [MCVpnNext]_<<vpnVars, used, single>>
             PROVE  SingleInv'
  OBVIOUS
<1>1. CASE UNCHANGED <<vpnVars, used, single>>
  BY <1>1 DEF vpnVars, SingleInv, Busy, Course, AtStep, HandlesOf, KindsOfRules, NatOf, Wanted
<1>2. CASE MCVpnNext
  <2>1. VpnNext /\ Watch
    BY <1>2 DEF MCVpnNext, MCVpnStep, VpnNext
  <2>2. \A c \in single' : Busy' = {c} /\ Course(c)'
    BY <2>1, SingleCourse DEF Watch
  <2>3. QED
    BY <2>1, <2>2, StartupAlone DEF SingleInv
<1>3. QED
  BY <1>1, <1>2

\* SuccessIsExact: as long as nft has handles left, setNat has made what it was
\* asked for, and nothing else, whenever a call ends well that nobody overlapped
\* (SingleInterfaceVpnController.setNat, lines 388-463).
THEOREM SuccessExact == MCVpnSpec /\ []Roomy => SuccessIsExact
<1>1. MCVpnSpec => []VpnTypeOK
  <2>1. [MCVpnNext]_<<vpnVars, used, single>> => [VpnNext]_vpnVars
    BY DEF MCVpnNext, MCVpnStep, VpnNext
  <2>2. VpnTypeOK /\ [VpnNext]_vpnVars => VpnTypeOK'
    BY VpnTypesGoOn
  <2>3. MCVpnInit => VpnTypeOK
    BY VpnStart DEF MCVpnInit
  <2>4. QED
    BY <2>1, <2>2, <2>3, PTL DEF MCVpnSpec
<1>2. SingleInv => [\A c \in single : WriteRow(c) => KindsOfRules = Wanted(job[c])]_vpnVars
  BY DEF SingleInv, Course, WriteRow
<1>3. QED
  BY <1>1, <1>2, SingleStarts, SingleGoesOn, PTL DEF MCVpnSpec, SuccessIsExact

=============================================================================
