-------------------------------- MODULE Setup -------------------------------
(***************************************************************************)
(* application/setup/SetupService.ts and interfaces/http/routes/setup.ts:  *)
(* applying a network configuration to the host (files, gateway address,   *)
(* nftables, dnsmasq), undoing it when a step fails, the request that      *)
(* rolls the latest apply back, and the SETUP_COMPLETED line of the        *)
(* configuration file. Nothing keeps two requests from overlapping.        *)
(*                                                                         *)
(* Inputs are valid, distinct and have distinct gateways; preflight passes *)
(* (an invalid input or a failed preflight changes nothing).               *)
(***************************************************************************)
EXTENDS Naturals, Sequences, SequencesExt

CONSTANTS Inputs,    \* the configurations an admin asks for
          Existing,  \* the one on the host before
          Requests,
          None       \* a missing file

Versions == Inputs \cup {Existing}

\* The files of a snapshot, in the order in which a rollback writes them.
Paths == <<"config", "dnsmasq", "nftables", "legacy">>
PathSet == Range(Paths)

VARIABLES
    files,      \* files[path]: the configuration it was written for, or None
    completed,  \* the config file has the line SETUP_COMPLETED=true
    addresses,  \* configurations whose gateway address the interface has
    table,      \* nft table ip filter exists
    dnsmasq,    \* the configuration it runs with (None: without the file),
                \* "inactive" or "failed"
    snapshots,  \* the files of snapshotDir, oldest first
    req         \* req[r]: the setup request in flight

host == <<files, completed, addresses, table, dnsmasq>>
vars == <<host, snapshots, req>>

Snapshot == [files : [PathSet -> Versions \cup {None}], completed : BOOLEAN]
NoSnapshot == [files |-> [p \in PathSet |-> None], completed |-> FALSE]

\* What a request holds between two awaits: the next file to write, the
\* snapshot it took or read, whether it added the gateway address (and has not
\* removed it) and restarted dnsmasq, and the configuration file that
\* markSetupComplete read.
Request ==
    [pc : {"idle", "snapshot", "gateway", "write", "migrate", "load", "restart",
           "health", "readflag", "writeflag", "ungateway", "restore", "nft",
           "reload", "applied", "failed", "rolledback"},
     op : {"none", "apply", "rollback"}, input : Inputs \cup {None},
     activate : BOOLEAN, next : 1..Len(Paths), saved : BOOLEAN,
     snap : Snapshot, added : BOOLEAN, activated : BOOLEAN,
     read : Versions \cup {None}]

Idle == [pc |-> "idle", op |-> "none", input |-> None, activate |-> FALSE,
         next |-> 1, saved |-> FALSE, snap |-> NoSnapshot, added |-> FALSE,
         activated |-> FALSE, read |-> None]

Finished == {"idle", "applied", "failed", "rolledback"}
Active(r) == req[r].pc \notin Finished

At(r, pc) == req[r].pc = pc
Goto(r, t) == req' = [req EXCEPT ![r] = t]
Step(r, pc) == Goto(r, [req[r] EXCEPT !.pc = pc])

SetFile(path, version) == files' = [files EXCEPT ![path] = version]

Init ==
    /\ \/ /\ files = [p \in PathSet |-> None] /\ completed = FALSE
          /\ addresses = {} /\ table = FALSE /\ dnsmasq = "inactive"
       \/ /\ files = [p \in PathSet |-> Existing] /\ completed = TRUE
          /\ addresses = {Existing} /\ table = TRUE /\ dnsmasq = Existing
    /\ snapshots = <<>>
    /\ req = [r \in Requests |-> Idle]

-----------------------------------------------------------------------------
\* SetupService.apply.

\* Without activate only the files are written, without a snapshot.
Apply(r, input, activate) ==
    /\ ~Active(r)
    /\ Goto(r, [Idle EXCEPT !.pc = IF activate THEN "snapshot" ELSE "write",
                            !.op = "apply", !.input = input, !.activate = activate])
    /\ UNCHANGED <<host, snapshots>>

\* The files are read one by one; one that cannot be read counts as missing.
SaveSnapshot(r, unread) ==
    LET snap == [files     |-> [p \in PathSet |-> IF p \in unread THEN None ELSE files[p]],
                 completed |-> completed /\ "config" \notin unread]
    IN /\ At(r, "snapshot")
       /\ snapshots' = Append(snapshots, snap)
       /\ Goto(r, [req[r] EXCEPT !.pc = "gateway", !.saved = TRUE, !.snap = snap])
       /\ UNCHANGED host

TakeSnapshot(r) == SaveSnapshot(r, {})

SnapshotMisses(r) ==
    \E unread \in SUBSET {p \in PathSet : files[p] # None} :
        unread # {} /\ SaveSnapshot(r, unread)

\* As EnsureGateway, were an address that was there taken for added.
FaultyEnsureGateway(r) ==
    /\ At(r, "gateway")
    /\ addresses' = addresses \cup {req[r].input}
    /\ Goto(r, [req[r] EXCEPT !.pc = "write", !.added = TRUE])
    /\ UNCHANGED <<files, completed, table, dnsmasq, snapshots>>

EnsureGateway(r) ==
    /\ At(r, "gateway")
    /\ addresses' = addresses \cup {req[r].input}
    /\ Goto(r, [req[r] EXCEPT !.pc = "write", !.added = req[r].input \notin addresses])
    /\ UNCHANGED <<files, completed, table, dnsmasq, snapshots>>

\* As WriteFile, were the last file left out.
FaultyWriteFile(r) ==
    LET t == req[r] IN
    /\ At(r, "write")
    /\ SetFile(Paths[t.next], t.input)
    /\ completed' = (completed /\ Paths[t.next] # "config")
    /\ \/ t.next < 2 /\ Goto(r, [t EXCEPT !.next = @ + 1])
       \/ /\ t.next = 2
          /\ Goto(r, [t EXCEPT !.next = 1,
                               !.pc = IF t.activate THEN "migrate" ELSE "readflag"])
    /\ UNCHANGED <<addresses, table, dnsmasq, snapshots>>

\* The rendered files, one after the other. The new configuration has no
\* SETUP_COMPLETED line. (The reservations, the modules and the dnsmasq override
\* are written as well; no snapshot holds them.)
WriteFile(r) ==
    LET t == req[r] IN
    /\ At(r, "write")
    /\ SetFile(Paths[t.next], t.input)
    /\ completed' = (completed /\ Paths[t.next] # "config")
    /\ \/ t.next < 3 /\ Goto(r, [t EXCEPT !.next = @ + 1])
       \/ /\ t.next = 3
          /\ Goto(r, [t EXCEPT !.next = 1,
                               !.pc = IF t.activate THEN "migrate" ELSE "readflag"])
    /\ UNCHANGED <<addresses, table, dnsmasq, snapshots>>

MigrateLegacy(r) ==
    /\ At(r, "migrate")
    /\ SetFile("legacy", None)
    /\ Step(r, "load")
    /\ UNCHANGED <<completed, addresses, table, dnsmasq, snapshots>>

\* The legacy file cannot be removed, which nothing notices.
LegacyStays(r) ==
    /\ At(r, "migrate")
    /\ Step(r, "load")
    /\ UNCHANGED <<host, snapshots>>

\* The rules are checked, and loaded if there is no filter table yet.
LoadNftables(r) ==
    /\ At(r, "load")
    /\ table' = TRUE
    /\ Step(r, "restart")
    /\ UNCHANGED <<files, completed, addresses, dnsmasq, snapshots>>

RestartDnsmasq(r) ==
    /\ At(r, "restart")
    /\ dnsmasq' = files["dnsmasq"]
    /\ Goto(r, [req[r] EXCEPT !.pc = "health", !.activated = TRUE])
    /\ UNCHANGED <<files, completed, addresses, table, snapshots>>

Healthy(r) ==
    /\ At(r, "health")
    /\ Step(r, "readflag")
    /\ UNCHANGED <<host, snapshots>>

\* markSetupComplete reads the configuration file and writes what it read, with
\* the line; without a file it throws.
ReadFlag(r) ==
    /\ At(r, "readflag")
    /\ \/ files["config"] = None /\ Step(r, "failed")
       \/ /\ files["config"] # None
          /\ Goto(r, [req[r] EXCEPT !.pc = "writeflag", !.read = files["config"]])
    /\ UNCHANGED <<host, snapshots>>

WriteFlag(r) ==
    /\ At(r, "writeflag")
    /\ SetFile("config", req[r].read)
    /\ completed' = (req[r].op = "apply")
    /\ Step(r, IF req[r].op = "apply" THEN "applied" ELSE "rolledback")
    /\ UNCHANGED <<addresses, table, dnsmasq, snapshots>>

-----------------------------------------------------------------------------
\* The way back: the catch of apply, and rollbackLatest.

\* A step of apply fails; without a snapshot there is no way back. A dnsmasq
\* that could not be restarted is down.
StepFails(r) ==
    LET t == req[r] IN
    /\ t.pc \in {"snapshot", "gateway", "write", "load", "restart", "health"}
    /\ \/ t.added /\ Step(r, "ungateway")
       \/ ~t.added /\ t.saved /\ Goto(r, [t EXCEPT !.pc = "restore", !.next = 1])
       \/ ~t.added /\ ~t.saved /\ Step(r, "failed")
    /\ \/ UNCHANGED dnsmasq
       \/ t.pc = "restart" /\ dnsmasq' = "failed"
    /\ UNCHANGED <<files, completed, addresses, table, snapshots>>

\* The removal's own failure is not noticed.
RemoveGateway(r) ==
    /\ At(r, "ungateway")
    /\ \E fails \in BOOLEAN :
          /\ addresses' = IF fails THEN addresses ELSE addresses \ {req[r].input}
          /\ Goto(r, [req[r] EXCEPT !.pc = "restore", !.next = 1, !.added = fails])
    /\ UNCHANGED <<files, completed, table, dnsmasq, snapshots>>

\* The latest snapshot; with none there is only the line to reset.
Rollback(r) ==
    /\ ~Active(r)
    /\ \/ /\ snapshots = <<>>
          /\ Goto(r, [Idle EXCEPT !.op = "rollback", !.pc = "readflag"])
       \/ /\ snapshots # <<>>
          /\ Goto(r, [Idle EXCEPT !.op = "rollback", !.pc = "restore", !.saved = TRUE,
                                  !.snap = Last(snapshots), !.activated = TRUE])
    /\ UNCHANGED <<host, snapshots>>

\* As RestoreFile, were the end of the list missed by one.
FaultyRestoreFile(r) ==
    LET t    == req[r]
        path == Paths[t.next]
    IN /\ At(r, "restore")
       /\ SetFile(path, t.snap.files[path])
       /\ completed' = IF path = "config" THEN t.snap.completed ELSE completed
       /\ \/ t.next <= Len(Paths) /\ Goto(r, [t EXCEPT !.next = @ + 1])
          \/ t.next > Len(Paths) /\ Goto(r, [t EXCEPT !.next = 1, !.pc = "nft"])
       /\ UNCHANGED <<addresses, table, dnsmasq, snapshots>>

\* As RestoreFile, were a file that was missing not removed.
CarelessRestoreFile(r) ==
    LET t    == req[r]
        path == Paths[t.next]
    IN /\ At(r, "restore")
       /\ SetFile(path, IF t.snap.files[path] = None THEN files[path]
                        ELSE t.snap.files[path])
       /\ completed' = IF path = "config" THEN t.snap.completed ELSE completed
       /\ \/ t.next < Len(Paths) /\ Goto(r, [t EXCEPT !.next = @ + 1])
          \/ t.next = Len(Paths) /\ Goto(r, [t EXCEPT !.next = 1, !.pc = "nft"])
       /\ UNCHANGED <<addresses, table, dnsmasq, snapshots>>

\* Each file is written as it was, or removed; the configuration file brings
\* its SETUP_COMPLETED line back.
RestoreFile(r) ==
    LET t    == req[r]
        path == Paths[t.next]
    IN /\ At(r, "restore")
       /\ SetFile(path, t.snap.files[path])
       /\ completed' = IF path = "config" THEN t.snap.completed ELSE completed
       /\ \/ t.next < Len(Paths) /\ Goto(r, [t EXCEPT !.next = @ + 1])
          \/ t.next = Len(Paths) /\ Goto(r, [t EXCEPT !.next = 1, !.pc = "nft"])
       /\ UNCHANGED <<addresses, table, dnsmasq, snapshots>>

\* nft -f of the old ruleset adds what is missing and removes nothing: the
\* table stays.
RestoreNft(r) ==
    /\ At(r, "nft")
    /\ \/ req[r].activated /\ Step(r, "reload")
       \/ ~req[r].activated /\ Step(r, "rolledback")
    /\ UNCHANGED <<host, snapshots>>

\* What nothing catches ends the request: a file that cannot be restored, a
\* ruleset that cannot be loaded, a configuration file that cannot be marked.
Throws(r) ==
    /\ req[r].pc \in {"restore", "nft", "readflag", "writeflag"}
    /\ Step(r, "failed")
    /\ UNCHANGED <<host, snapshots>>

\* The restart's own failure is not noticed.
ReloadDnsmasq(r) ==
    /\ At(r, "reload")
    /\ dnsmasq' \in {"failed", files["dnsmasq"]}
    /\ Step(r, IF req[r].op = "apply" THEN "rolledback" ELSE "readflag")
    /\ UNCHANGED <<files, completed, addresses, table, snapshots>>

-----------------------------------------------------------------------------
\* systemd restarts a failed dnsmasq after five seconds (the override of line
\* 104), by when the request whose restart failed has run to its end.
AutoRestart ==
    /\ dnsmasq = "failed"
    /\ \A r \in Requests : ~Active(r)
    /\ dnsmasq' = files["dnsmasq"]
    /\ UNCHANGED <<files, completed, addresses, table, snapshots, req>>

\* The process dies: the requests are gone, the host stays as it is.
Crash ==
    /\ \E r \in Requests : Active(r)
    /\ req' = [r \in Requests |-> Idle]
    /\ UNCHANGED <<host, snapshots>>

ApplyStep(r) ==
    \/ TakeSnapshot(r) \/ EnsureGateway(r) \/ WriteFile(r) \/ MigrateLegacy(r)
    \/ LoadNftables(r) \/ RestartDnsmasq(r) \/ Healthy(r)
    \/ ReadFlag(r) \/ WriteFlag(r)

UndoStep(r) ==
    RemoveGateway(r) \/ RestoreFile(r) \/ RestoreNft(r) \/ ReloadDnsmasq(r)

\* A failure of the host that the request does not notice.
Unnoticed(r) == SnapshotMisses(r) \/ LegacyStays(r)

NewRequest(r) ==
    \/ \E input \in Inputs, activate \in BOOLEAN : Apply(r, input, activate)
    \/ Rollback(r)

Next ==
    \/ \E r \in Requests :
          \/ NewRequest(r) \/ ApplyStep(r) \/ UndoStep(r)
          \/ StepFails(r) \/ Throws(r) \/ Unnoticed(r)
    \/ AutoRestart \/ Crash

Spec == Init /\ [][Next]_vars

-----------------------------------------------------------------------------
\* Type correctness of the host, the snapshots and the requests.
SetupTypeOK ==
    /\ files \in [PathSet -> Versions \cup {None}]
    /\ completed \in BOOLEAN
    /\ addresses \subseteq Versions
    /\ table \in BOOLEAN
    /\ dnsmasq \in Versions \cup {None, "inactive", "failed"}
    /\ snapshots \in Seq(Snapshot)
    /\ req \in [Requests -> Request]

\* A request for a rollback that runs alone leaves the files of the latest
\* snapshot, and setup not completed, however far the apply or an earlier
\* rollback had come when it failed or the process died
\* (SetupService.rollbackLatest).
RollbackUndoes ==
    [][\A r \in Requests :
          (/\ req[r].op = "rollback" /\ Active(r) /\ req'[r].pc = "rolledback"
           /\ req[r].saved /\ \A other \in Requests \ {r} : At(other, "idle"))
              => files' = Last(snapshots).files /\ ~completed']_vars
==============================================================================
