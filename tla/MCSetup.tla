------------------------------- MODULE MCSetup ------------------------------
EXTENDS Setup, TLC

CONSTANTS MaxRequests, MaxFaults

VARIABLES
    requests, faults,  \* how many so far
    before,   \* before[r]: the host when r's request began
    missed,   \* missed[r]: the files r's snapshot holds as missing though they were there
    stuck,    \* requests that could not remove the gateway address they had added
    alone,    \* requests that no other request has overlapped
    healthy   \* configurations that have passed the health check

mcVars == <<vars, requests, faults, before, missed, stuck, alone, healthy>>

HostNow == [files |-> files, completed |-> completed, addresses |-> addresses,
            dnsmasq |-> dnsmasq]

MCInit ==
    /\ Init
    /\ requests = 0 /\ faults = 0
    /\ before = [r \in Requests |-> HostNow]
    /\ missed = [r \in Requests |-> {}]
    /\ stuck = {}
    /\ alone = {}
    /\ healthy = {Existing}

Begins(r) == ~Active(r) /\ Active(r)'

Snaps(r) == At(r, "snapshot") /\ At(r, "gateway")'

KeepsAddress(r) ==
    At(r, "ungateway") /\ At(r, "restore")' /\ req[r].input \in addresses'

Remember ==
    /\ before' = [r \in Requests |-> IF Begins(r) THEN HostNow ELSE before[r]]
    /\ missed' = [r \in Requests |->
                     IF Begins(r) THEN {}
                     ELSE IF Snaps(r) THEN {p \in PathSet : req'[r].snap.files[p] # files[p]}
                     ELSE missed[r]]
    /\ stuck' = {r \in Requests : KeepsAddress(r) \/ (r \in stuck /\ ~Begins(r))}
    /\ alone' = {r \in Requests :
                    /\ Active(r)'
                    /\ r \in alone \/ Begins(r)
                    /\ \A other \in Requests \ {r} : ~Active(other)'}
    /\ healthy' = healthy \cup {req[r].input : r \in
                     {s \in Requests : At(s, "health") /\ req'[s].pc = "readflag"}}

\* The host as it was when r's request began, as far as r can give it back:
\* without the files its snapshot has missed, and with its own gateway address
\* if that could not be removed.
Recoverable(r) ==
    [files     |-> [p \in PathSet |-> IF p \in missed[r] THEN None ELSE before[r].files[p]],
     completed |-> before[r].completed /\ "config" \notin missed[r],
     addresses |-> before[r].addresses \cup (IF r \in stuck THEN {req[r].input} ELSE {}),
     dnsmasq   |-> before[r].dnsmasq]

\* The bounds: requests, and failures and crashes.
MCNext ==
    /\ \/ \E r \in Requests : NewRequest(r) /\ requests' = requests + 1
          /\ UNCHANGED faults
       \/ /\ \/ \E r \in Requests : StepFails(r) \/ Throws(r) \/ Unnoticed(r)
             \/ Crash
          /\ faults' = faults + 1 /\ UNCHANGED requests
       \/ /\ \/ \E r \in Requests : ApplyStep(r) \/ UndoStep(r)
             \/ AutoRestart
          /\ UNCHANGED <<requests, faults>>
    /\ requests' <= MaxRequests /\ faults' <= MaxFaults
    /\ Remember

MCSpec == MCInit /\ [][MCNext]_mcVars

\* Interchangeable values.
Symmetry == Permutations(Requests) \cup Permutations(Inputs)

\* An apply that fails and reports that it has rolled back, and that no other
\* request overlapped, leaves the host as it found it: the files,
\* SETUP_COMPLETED, the gateway addresses, and dnsmasq with its old
\* configuration or down until systemd restarts it. Two failures that the code
\* swallows are the exceptions, and the only ones: a file that its snapshot
\* could not read is gone, and an address that it could not remove stays (the
\* catch of SetupService.apply, lines 123-126, 135 and 137).
FailedApplyRestores ==
    [][\A r \in alone :
          (req[r].op = "apply" /\ req'[r].pc = "rolledback")
              => LET old == Recoverable(r) IN
                 /\ files' = old.files /\ completed' = old.completed
                 /\ addresses' = old.addresses
                 /\ dnsmasq' \in {old.dnsmasq, old.files["dnsmasq"], "failed"}
      ]_mcVars

\* An activated apply that succeeds, not overlapped, has put its configuration
\* in force: whatever earlier requests, failures and crashes left behind, the
\* three rendered files are its own, dnsmasq runs with its file, its gateway
\* address is there, setup is completed, and a filter table exists. (The rules
\* of a table that was there are left as they are, line 111; and nothing is
\* said of the legacy file, whose failed removal does not stop the apply.)
SuccessIsWhole ==
    [][\A r \in alone :
          (req[r].activate /\ req'[r].pc = "applied")
              => LET input == req[r].input IN
                 /\ \A path \in PathSet \ {"legacy"} : files'[path] = input
                 /\ completed' /\ table' /\ input \in addresses'
                 /\ dnsmasq' = input]_mcVars

-----------------------------------------------------------------------------
\* What the documentation promises and the code does not keep.

\* After a failed apply the host is as it was before
\* (network-control-system-implementation-spec(3).md:415, "the system must be
\* able to restore the pre-setup state").
RestoresPreSetup ==
    [][\A r \in alone :
          (req[r].op = "apply" /\ req'[r].pc = "rolledback")
              => files' = before[r].files /\ addresses' = before[r].addresses]_mcVars

\* Setup is only marked completed with a configuration that passed the health
\* checks (config.ts:38-40, "The setup wizard writes SETUP_COMPLETED=true only
\* after the configuration and health checks succeed").
CompletedWasHealthy == completed => files["config"] \in healthy
=============================================================================
