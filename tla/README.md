# Verification of the ayad-network-manager backend

TLA+ models of the backend's control logic, TLC runs that check them on small
instances, and proofs checked by TLAPS for every instance.  Paths are relative
to the repository; `backend/src/` is left out in front of `application/`,
`domain/`, `infrastructure/` and `interfaces/`.

## 1. The system

A single-host gateway.  A Node.js backend keeps the desired state in PostgreSQL
and makes the kernel (nftables, tc) and services (dnsmasq, sing-box) agree with
it, through a privileged agent on a Unix socket.  One event loop runs HTTP
handlers and timers; an `await` is a point where anything else may run.

| Component | State it keeps | Operations | Correct if (goals; §3 says which hold) |
|---|---|---|---|
| Device blocking (`FirewallService`) | policy row, nft sets `blocked_macs` and `blocked_ips`, block records | block, unblock, quota block and unblock, accept an identity, rebuild at startup | the kernel blocks what the policies ask for, after any interleaving, failure or restart |
| Blocked-address reconciliation | same; a running flag | every 10 s: snapshot, release on evidence, install what is missing | a blocked device is blocked where it is; a stranger inherits nothing |
| Address-binding lifecycle | same; a running flag | every 10 s: follow a device to its new address, give up a reassigned one | following never lets a device through |
| Reconcilers' lock | a chain of promises | run an operation alone | mutual exclusion, progress after failures |
| Identity and discovery | device rows, debounce counters, captures | validate observations, merge them into rows | weak evidence never degrades trust; an acceptance is never lost |
| Quotas | quota periods, `quotaEnforcedAction` | record usage, enforce, clear, reset | the enforced action agrees with usage, and with the kernel |
| Schedules, profiles | in-memory scheduled states | every 30 s: apply the active window, restore at its end | the persisted policy is not mutated; nothing stays applied after its window |
| Traffic limits | tc classes and filters, IFB device | limit, clear, reconcile | one device's class is not another's; reconciliation removes only stale state |
| Accounting, retention | counters last seen, pending buckets, samples, roll-ups | sample each second, flush each minute, roll up each hour | every byte is counted once and survives its roll-up |
| VPN | desired row, tunnel, NAT and fail-closed rules | configure, enable, disable, monitor, reconcile | nothing leaves on the uplink while the VPN is wanted |
| Enforcement channel | socket, the agent's two queues | execute, retry, time out | effect of retries and late commands; no starvation |
| Port rules, catalogue | rule rows, nft rules | create, delete, apply at startup | rows and rules agree after a failed step |
| Presence and live monitoring | neighbour observations | classify | decision table |
| Setup, DHCP reservations | configuration files, reservations | apply, roll back | a failed step is rolled back |
| Authentication | sessions, attempts | log in, expire | expiry, rate limit |
| Notifications | queue table | insert, deliver (worker not started) | - |
| Dashboard | none the backend relies on | - | - |

Interactions: handlers and the two reconcilers share the database rows and the
nft sets; only the reconcilers take the lock.  Discovery rewrites identity and
address of a row while handlers hold a copy of it.  Accounting calls the quota
service, which calls `FirewallService` and the traffic service.  The schedule
calls the kernel adapter directly.  The VPN keeps a copy of `blocked_ips`.
Startup rebuilds everything once, in order, before the server listens
(`server.ts:140-144`).

The hard parts are the awaits (state read, then used after others have run),
restarts (kernel sets survive a restart of the backend and not one of the host),
commands that fail halfway, and evidence that is absent rather than negative.
`PROJECT.json` lists every hazard with its line.

## 2. The modules

| Module | Models |
|---|---|
| `BlockingState` | the shared rows, nft sets and network; the operations of `PrismaBlockedDeviceRepository` and `NftDeviceBlocker` |
| `IpBindingMutationLock` | `withIpBindingMutationLock` |
| `FirewallService` | the handlers, cut at their awaits, and the startup rebuild |
| `BlockedIpReconciliation` | `BlockedIpReconciliationService` |
| `IpBindingLifecycle` | `IpBindingLifecycleService` |
| `DeviceBlocking` | composes them with the network, discovery, failures, crashes and reboots |
| `Identity` | validator, debouncing, merge and upsert of device rows, `sync()`, the device list, the acceptance |
| `PolicyState` | policy and quota rows, tc class and block element of a device, calls in flight |
| `QuotaService` | `QuotaService` with its repository and the two enforcement calls it makes |
| `TrafficLimits` | `TrafficEnforcementService`, `TrafficReconciliationService` |
| `ScheduleEnforcement` | `ScheduleEnforcementService` |
| `DevicePolicy` | composes the last four with requests, restarts, failures, days and windows |
| `TcState` | the kernel's classes, filters and redirects, what `LinuxTcStateReader` reads, calls in flight |
| `TcEnforcer` | `SingleInterfaceIfbTrafficEnforcer`, `LinuxIfbManager`: one action per tc or ip command |
| `TcEnforcement` | composes it with the limit handlers, the cycle of `TrafficReconciliationService`, moving devices, failures, restarts |
| `Accounting` | `TrafficAccountingService`: counters, deltas, history buckets, `stop()` |
| `Retention` | `TrafficRetentionService.run` and `findHistory` |
| `CommandService` | what a caller of `execute` may rely on (abstract) |
| `Channel` | `LinuxSystemCommandExecutor` and `EnforcementAgent`; implements `CommandService` |
| `Vpn` | `VpnService`, `SingleInterfaceVpnController`, the VPN guard of `NftEnforcer` |
| `Setup` | `SetupService`, its routes and `SETUP_COMPLETED` |
| `MC...` | budgets and history variables for TLC, one per composition |
| `...Proofs` | the theorems |

Each `MC` module bounds only what the backend does not decide: requests,
failures, crashes, the network, time.  Cycles and timers run without bound.

What is one step, everywhere: one query, one transaction, or one command or
command sequence under a mutation lock of the adapter.  Reads that the code
starts together with `Promise.all` are one step.  Loops may take any order.  A
call that fails stops at its await; audit records, notifications and the HTTP
answer do not change the modelled state.  A startup that fails is a crash, which
starts it again.  Outside `Channel`, a command takes effect before its caller
goes on, or never.

**Device blocking.**

- A device is its MAC address (`Device.mac` is unique).  `identity[d]` names the
  triple `identitySource`, `l2Visible`, `identityValidated`
  (`BlockingState!Kinds`); `ProxyBacked` devices are those blocked by address.
- `policy` is `DevicePolicy.blocked`, `record` the active `BlockedDevice` rows,
  `bindings` the active `IpBinding` rows.  A binding counts only with an active
  record (`ActiveBindings`), as in the repository's queries.
- `lease` is the unexpired part of dnsmasq's lease file.  `evidence` holds the
  devices for which one of the three confirmations of
  `BlockedIpReconciliationService.ts:97-105` succeeds.
- `req[r]` is a handler: `pc` is the await it is about to perform, the other
  fields are its copy of the device row and what it has left.  `recon` and
  `life` are the cycles in the same way.  `boot` is the stage of
  `FirewallService.reconcile`; while it is not `"up"` nothing else runs.
- `recordBlock` is two queries and two steps.  An unblock by MAC may fail
  between its two deletions.  The merge of an observation into a row and the
  acceptance are one step here; `Identity` splits them.
- Left out: the refusal of access-point MACs, the unblock of a MAC without a
  row, devices with a static address (no lease: the reconciler skips them),
  `BlockedDevice.mac`, reasons and released rows (never read for a decision).
  After startup the first cycles run before the server listens; the model lets
  them run at any time after startup, which allows more behaviours.

**Identity.**  `rows[m]` has the four columns that enforcement reads.  An address
is named by its owner: a client with its lease, or an access point; `neigh[o]` is
the MAC that answers for it.  `caller[w]` is a run of `sync()` or of
`getDevices()`: what it discovered (`seen`), the two reads of the row (`first`,
`existing`) and the row it will write.  `upsert` reconciles an observation that its
caller has reconciled already, so both are steps.  `count` is
`consecutiveCount`, which every discovery of anybody advances; `sightings` is a
history of them.  `overlapped` stands for times out of order: two discoveries take
their `now` before they count.  Captures and rechecks are memory and vanish with a
restart.  Left out: the parsing of tcpdump's output, changes between trusted
neighbour states (which restart a count), addresses, hostnames.

**Policy of a device.**  `policy[d]` is the `DevicePolicy` row; one rate stands for
its two directions.  `used[d][day]` is the usage of the `QuotaPeriod` row, capped at
`MaxUsed`; `shape[d]` the rate of its tc class; `element[d]` its membership of
`blocked_macs`.  `task[p]` is a call in flight, with the values it has read and will
use: an admin's request, the collector's `recordUsage`, the schedule's
`limitDownload`.  `recon` and `cycle` are the tc reconciliation and the schedule
cycle.  The services call each other in the code; here a call continues in the
callee's steps and returns.  A device is seen on layer 2 (its element is a MAC);
`DeviceBlocking` has the others.  One class per device, one rule per schedule,
daily periods.

**tc.**  `DevicePolicy` takes a limit as one step; here it is every command of it.
`tc[dir]` is the HTB qdisc of the LAN interface (download) and of `ifb0` (upload),
with its root class, the rates of the classes and, for each priority, its filters
from the oldest to the newest, as tc lists them; `redirects` are the filters of the
LAN's ingress qdisc.  `job[p]` is a call (a handler's or the cycle's): the command
it is about to run and what it has read; `cycle` the snapshot of the rows and the
devices left.  A call that finds no free priority fails.  A listing is one
step, and so is each change; bringing `ifb0` up changes nothing that is modelled
and is part of the command after it.  Deleting a filter names a priority and takes
every filter that has it.  Adding one on a priority that is taken may succeed or
fail (`EEXIST`), as the kernel decides by the filter's kind.  A redirect whose link
is deleted stays and names no device.  Classes and preferred priorities are hashes:
`ClassOf`, `FilterBase` and `RedirectBase` are any functions.  A device has one
class for both directions, which lie on different interfaces.  Left out: the
throttle (it takes the same path with a rate in bits), a change of the uplink's
bandwidth, redirects of downloads (nobody makes any), and `kind` of a root qdisc,
which is never anything but htb.

**Accounting.**  One byte count stands for two directions and one row per device
for its rows: sums are what is conserved.  `col` is `collect()`, `stopper` is
`stop()`, each with what it has read.  `moved`, `recreated`, `overlapped` are
history.

**Retention.**  A sample is the bytes of one moment; a table is the set of samples
its rows sum, so replacing a row replaces the samples of its hour or day.  `Late`
is how long after its moment a sample may be written, `RunTime` how long a run
takes.  The timer is set when the run of `start()` has ended (`run.timer`).  `Day` is a multiple of `Hour`, and the raw window no longer than the hourly
one, as in the code (1 and 24 hours, 48 hours and 30 days).

**Channel.**  `pc[c]` is a caller: connecting, waiting for the answer, in the delay
before a retry, or settled.  The agent has the two queues, the running command
and what became of it.  Which call is a mutation and which the agent's allow list
refuses are parameters.  `effects` counts how often a command was carried out.
`ImplementsService` maps a caller to pending, ok, failed or unknown (the deadline).

**Vpn.**  `desired` is `vpn_config.enabled`; `rules` are the three kinds of nft
rule the controller finds again by comment, by handle; `guard` and `mirror` the
flag and the set that copy `blocked_ips` in front of the tunnel; `service` sing-box
with its tunnel.  `job[c]` is a request or the monitor: its next command, the
arguments of `setNat`, the handles its loop has left.  Each nft command of `setNat`
is a step, because the controller takes no lock.  A handle nobody holds stands for
a new one.  `anchor` is the rule with handle 3, in front of which `setNat` inserts
the fail-closed rule ("position 3" is a handle, not a place): once the control
chain has been rebuilt in a table that was there it is gone, nft refuses the rule,
and the call fails (`DropRefused`).  `safe` ignores a failed systemctl, so `Restart` and `Stop`
may leave the service as it was.  The reconciliation at startup runs in the
monitor's slot.  Left out: the link itself, the generated configuration, the
column `connected`.

**Setup.**  `files[path]` is the configuration a file was written for; `snapshots`
the files of the snapshot directory; `req[r]` a request with what it has done
(`added`, `activated`) and the snapshot it took.  systemd restarts a failed
dnsmasq by itself.  The failures that the code swallows are choices of the model: a
file that cannot be read counts as missing (`SnapshotMisses`), the legacy file may
stay (`LegacyStays`), and so may an address that the rollback removes.  Files are
written whole (a crash that tears `config` or a snapshot is not modelled).  Inputs
are valid and differ; preflight passes.  Three of the six files an apply writes are
in no snapshot and are left out (see the findings).

## 3. What is checked

Numbers are distinct states.  Symmetry is used only without liveness properties.

| Run | Instance and budgets | Checks |
|---|---|---|
| `blocking_moving` | 2 devices, 2 addresses, 2 handlers; a request, a quota request, a lease change | `BindingsEndOnEvidence`, `FollowedDeviceStaysBlocked` |
| `blocking_restart` | same with 1 handler; a request, failure, crash, lease change, merge | `TypeOK`, `ReconcilersExclude`, `StartupMatchesPolicy`, `StartupKeepsDesired` |
| `blocking_converges` | same, some of the devices blocked from the start; a request, 2 lease changes (698,000) | `ConvergesToBlocked` |
| `blocking_recovers` | same; a request, failure, crash, change of evidence | `ConvergesToReleased` |
| `identity` | a client, an access point, `sync()` and a list; threshold 2; a network change, 2 lists or other discoveries, an acceptance, a fault (1.2 million) | `IdentityTypeOK`, `TrustKept`, `EvidencePrecedesTrust`, `AccessPointsDemoted` |
| `policy` | a device with a limit and a quota; a handler, the collector, the schedule, the reconciliation; 2 events (670,000) | `PolicyTypeOK`, `LimitsSettle`, `QuotaTakesEffect` |
| `accounting` | a device, 3 bytes, 3 minutes; a failure, an exit, a recreated counter (749,000) | `AccountingTypeOK`, `NeverOvercounted`, `BytesConserved`, `BucketsAreWritten` |
| `retention` | hours of 2 and days of 4 moments, windows of 2 hours and 3 days; runs of up to a moment; 2 samples, a query (3.9 million) | `RetentionTypeOK`, `NothingLost`, `HistoryBounded`, `NeverTwice`, `HistoryComplete` |
| `channel` | a mutation and 2 reads, 2 attempts, a queue of 1 (62,000) | `ChannelTypeOK`, `ImplementsService`, `EveryCallReturns` |
| `vpn_settles` | a handler and the monitor; a request, a failure or crash, 2 changes (494,000) | `VpnTypeOK`, `TunnelSettles`, `SuccessIsExact`, `GuardCatchesUp` |
| `setup` | 2 inputs, 3 requests, 3 faults (2.3 million) | `SetupTypeOK`, `RollbackUndoes`, `FailedApplyRestores`, `SuccessIsWhole` |
| `tc` | 2 devices, 3 addresses, a handler and the cycle, 5 priorities; a request, and a move, failure or restart (481,000) | `TcTypeOK`, `LimitsReached`, `LimitsRemoved`, `BaseRemoved`, `ExpectedKept` |

**Device blocking.**  Two devices and two addresses are enough for an address to
pass from one device to another, for a device to move, and for a reconciler to
confuse two devices; one request and one quota request reach every pair of
handlers that makes and ends a binding.

- `BindingsEndOnEvidence`: a binding ends by an unblock of its device or in a
  reconciler whose lease snapshot shows the device elsewhere or the address with
  somebody else; silence never ends one.
- `FollowedDeviceStaysBlocked`: the order block, record, release, unblock of the
  lifecycle keeps a recorded kernel block on the device in every step, as long
  as no handler interferes.
- `StartupMatchesPolicy`, `StartupKeepsDesired`: whatever a crash left behind,
  the rebuild ends with exactly the wanted sets and opens no hole on the way.
- `ConvergesToBlocked`: the two reconcilers release addresses for different
  reasons and from snapshots; a located blocked device is nevertheless blocked
  for good in the end.  The run starts with none, one or both devices blocked, so
  that a release for one can take the address from under the other, and a block
  can come between the read of the policies and an unblock.
- `ConvergesToReleased`: an address that was blocked for a former holder, or
  left behind by a crash or failure, is free in the end for a device that is
  neither blocked nor bound.

**Identity.**  One client behind one access point, with a list and a `sync()` that
overlap, makes every race of two writers on a row and on each other's access
point; the other discoveries make the debounce counter run ahead of a caller's
own.  A threshold of 2 differs from 1 (no debouncing) as 3 does.

- `TrustKept`: a confirmed or accepted identity is given up for a positive
  observation only, through two reconciliations and any overlap; the exception
  is a write whose row was read before the trust was given.
- `EvidencePrecedesTrust`: nobody is confirmed without a capture, accepted
  without the administrator, or offered for acceptance before enough sightings
  of the proxy, counted by whomever; a write may bring back what its run read.
- `AccessPointsDemoted`: an access point that has got a row as a device, early or
  in a race, loses its validation while the client stays behind it.

**Policy.**  Two events, in any mixture of requests, failed commands, restarts, a
new day, and turns of the schedule's window, at any await of four actors.

- `LimitsSettle`: in the end tc has the limit of the policy, or the throttle while
  that is enforced.  A schedule and a throttle on one device are excluded by name
  (`Contested`): the two cycles overwrite each other for ever.
- `QuotaTakesEffect`: an exhausted quota has its action recorded, or the device is
  cut off; a failed enforcement is taken up again by the next call.

**tc.**  One request beside a cycle that never stops gives every pair of a limit, a
clear or a removed base with another limit, a repair or a sweep.  All filters would
like the same priority, so that every probe collides; the second device, which
only the cycle touches, keeps the base in use or not.  Three addresses let a device
move to a free one.

- `LimitsReached`, `LimitsRemoved`: each call lists, decides and changes in several
  commands, and none takes a lock; whatever one has read before another's change,
  and whatever fails, the kernel ends with each wanted limit on its device's own
  address and with nothing of the others.
- `BaseRemoved`: without limits `ifb0` and the qdiscs are gone in the end, although
  calls about to use them make them again.
- `ExpectedKept`: the cycle never deletes a class that its snapshot asks for, above
  all not after it has failed to repair it.

**Accounting and history.**

- `NeverOvercounted`, `BytesConserved`: no await, failure, recreated counter or
  exit makes a byte count twice, and between the named ends of the bookkeeping
  none is lost.  One device suffices: devices share nothing but the loop.
- `BucketsAreWritten`: the bucket of a device that has disappeared is written too.
- `NothingLost`, `HistoryBounded`: four statements that are no transaction may stop
  after any of them; every sample stays in some table, and the tables keep to
  their windows, give or take an interval and two runs (the timer is set when the
  first run has ended).
- `NeverTwice`, `HistoryComplete`: what the history answers while a run moves rows
  between the tables it reads.  The run begins after start-up times, the clock
  reaches 20 moments beyond, so that an outage can outlast the hourly window.

**Channel.**  `ImplementsService`: an ok means carried out and not again, an error
means not any more, only a caller that gave up may see its command carried out
later, and no command happens more often than it was tried.  `EveryCallReturns`
even if the agent stays dead.  Two reads and a mutation make a read wait behind
a mutation and find the queue full; that refusal and the allow list's are the same
step, and the proof covers any set of commands that the list refuses.

**Vpn.**  Two callers collide on rules; six handles are more than are ever in
use.

- `TunnelSettles`: after any collision, failure or restart, with the VPN wanted and
  its tunnel up, clients leave through the tunnel and no rule is left over.  The
  same of a lost tunnel (`SettlesClosed`) is refuted: after a restart of the
  backend nft refuses the fail-closed rule.
- `SuccessIsExact`: a call that nobody overlaps and that ends without an error has
  left exactly the rules it was to make; so a lost tunnel is closed, or reported.
- `GuardCatchesUp`: an address blocked while the guard is off, or whose copy failed,
  is copied by a later check.

**Setup.**  Three requests and three faults allow an apply that dies, a rollback
that fails, and an apply over what they left.

- `RollbackUndoes`: a rollback restores the files of the latest snapshot.
- `FailedApplyRestores`: an apply that fails and answers `rolledBack: true` has
  restored files, flag, addresses and dnsmasq, but for what the code cannot know: a
  file its snapshot could not read is deleted, and an address whose removal failed
  stays.  Without the two exceptions it is refuted (`RestoresPreSetup`).
- `SuccessIsWhole`: an activated apply that succeeds has put its own configuration in
  force.  It leaves out the legacy file, which may stay unnoticed, and the rules of
  a filter table that was loaded before, which are not replaced.

They speak of requests that nothing overlaps; the run has one request at a time,
because overlapping ones do break the promise (see below).

**Fairness.**  Weak fairness of every started call and of every timer: the event
loop runs each ready callback, timers fire again and each command has a timeout,
so no await lasts for ever.  None is assumed of requests, failures, the network,
the tunnel or the agent's return.  `DevicePolicy` adds strong fairness of the
collector's call for a device that the kernel lets through, since such a device
has traffic again and again; a device with a block element gets none.  `Retention`
and `Setup` state no fairness and have no liveness property.

**Deadlock** is checked in the runs of device blocking, identity, policy and tc.  In
the others the system may stop: calls are used up, the clock or the requests
have reached their bound, the VPN is disabled.

**Where code and documentation disagree.**  `PROJECT.json`, "findings", quotes each
with its lines.  They are stated in the
modules, refuted by TLC under the spec of their `MC` module, and can be run again
by naming them in a cfg: `AlignedWithPolicy`, `MacEndsByUnblock`, `UnblockEndsMac`,
`UnblockedWhenUnbound`, `OwnDeviceRefused` (`DeviceBlocking`); `AcceptanceSurvives`,
`ProxyIsNoDevice` (`Identity`); `QuotaEnds`,
`ScheduleLeavesPolicy` (`DevicePolicy`); `ClearedBase`, `OwnTrafficOnly`
(`TcEnforcement`); `LongTermPreserved`
(`Retention`); `SettlesClosed`, `ComesUp`, `MonitorKeepsClosed`,
`DisabledIsDirect` (`Vpn`); `CompletedWasHealthy`, `RestoresPreSetup` (`MCSetup`).
In short:

- an unblock may be undone for good by a reconciler that read the policy before
  it; an element of `blocked_macs` can disappear without an unblock and can
  outlive one; the check against blocking one's own device may be stale;
- an acceptance that comes between the read and the write of a merge is lost, and
  an access point can become a device for a moment;
- a schedule's limit becomes the admin's limit; a quota block outlives its period,
  and is lost in a restart although its action stays recorded; an admin's block
  can be undone by the end of a quota's;
- removing the last limit while another call adds a redirect can leave one that
  sends an address's traffic to a device that is gone; two calls for a device that
  moves can leave a filter for its old address in its class;
- samples older than the hourly window after a long outage are deleted without a
  roll-up, and the history has a hole of up to two hours and two runs two days back;
- the fail-closed rule is inserted at a handle that no longer exists once the
  backend has been restarted: while the VPN is wanted and its tunnel is lost,
  clients then leave on the uplink, and a restart meanwhile fails again and again;
- the VPN monitor opens the uplink for a moment while it closes it, and a check
  that overlaps a disable leaves its rules behind;
- setup can be marked completed without a health check; a failed apply can answer
  that it has rolled back with its address still there, or having deleted a file
  that it could not read, and a successful one can leave the legacy file; a
  rollback does not take back nft rules nor three of its files.

Every property of a passing run has a mutant in `PROJECT.json`: a plausible
mistake in the modelled code that the run detects.  The faulty variants stand
next to the definitions they replace, marked as such.

## 4. What is proved

Proved for every value of the constants, from the named assumption of the module:

| Module | Assumption | Theorems |
|---|---|---|
| `DeviceBlockingProofs` | `NoIpAssumption`: NULL is not an address | `TypeCorrect`, `MutualExclusion`, `BindingsEndOnlyOnEvidence`, `StartupRebuilds`, `StartupNeverLetsThrough`, `FollowingNeverLetsThrough` |
| `ChannelProofs` | `ChannelAssumption`: at least one attempt, a bound that is a number | `ChannelTypes`, `ChannelImplements` |
| `IdentityProofs` | `IdentityAssumption`: clients are not access points, a threshold of at least one | `IdentityTypes`, `TrustIsKept`, `TrustNeedsEvidence` |
| `AccountingProofs` | `AccountingAssumption`: "no device" is not a device | `AccountingTypes`, `NothingCountedTwice`, `NothingDropped` |
| `RetentionProofs` | `RetentionAssumption`: days are whole hours, the raw window is no longer than the hourly one, a run is shorter than the interval, samples are written before they leave the raw window | `RetentionTypes`, `NothingIsLost`, `HistoryIsBounded`, `NothingTwice`, `HistoryIsComplete` |
| `TcEnforcementProofs` | `TcAssumption`: "none" is no device, rate, address or class; every device has a class, every class and address a preferred priority; there is a priority | `ExpectedIsKept`, `TcTypes` |
| `HostProofs` | none | `SetupTypes`, `RolledBack`, `FailedApplyRestored`, `SuccessWhole` (setup), `VpnTypes`, `SuccessExact` (VPN) |
| `PolicyProofs` | `PolicyAssumption`: the throttle and NULL are no rates, timers are no requests, quotas are within what usage is told apart; `RuleAssumption`: the rule blocks, releases or is silent | `PolicyTypes`, `PolicyTypesOnceSetUp` |

`FollowingNeverLetsThrough`, `FailedApplyRestored`, `SuccessWhole` and `SuccessExact`
are about the `MC` specification, because what they say of an overlap is in its
history variables (`meddled`, `alone`, `before`, `single`); they hold for every
value of its bounds.  So is `PolicyTypesOnceSetUp`, which starts from any backend
that has been set up.  `SuccessExact` assumes `[]Roomy`: the model never runs out of
handles, as nft does not.

Only the types of the VPN are inductive alone; every other argument has an
invariant of its own.

- *Types of device blocking.*  `TypeOK` needs to know that the lifecycle never
  blocks NULL; `LifeInv` says so, and also that the binding it works on is refuted
  by its snapshot.
- *Exclusion.*  `LockInv`: a queued reconciler has ticked, none is queued twice, and
  one that is past waiting is the head of the queue.
- *Evidence.*  `HandlerInv` (a handler about to release is unblocking) and
  `ReconInv` (each planned release is refuted by the snapshot it came from), with
  `LifeInv`.  Each step that removes a binding is one of the cases of
  `BindingEndJustified`; all the others only add bindings.
- *Following.*  `FollowInv`: the address a blocked device has moved to differs from
  the one it left, and from its block command on it is in the kernel set, from its
  recording on also bound to the device, unless a handler has meddled.  `LockInv`
  keeps the reconciler's cycle out, `StartupInv` the startup.
- *Startup.*  `StartupInv`: until startup ends no handler and no reconciler runs,
  and in the stage `"unblock"` the wanted elements are in the sets.
- *Channel.*  A queue holds each call once, and only while it is owed it: the call
  waits or gave up, and has been carried out less often than tried.  With that each step of `Channel` is a step of `CommandService` or a stutter.
- *Identity.*  `IInv`: an access point is never more than a static device, so
  demoting one takes no trust away; and what a run holds keeps two facts through
  its two reconciliations: a result that is positive without being trusted was
  observed so, and trust that the row had when it was read is given up for a
  positive observation only.
- *Evidence for trust.*  `SightedInv`: what has been counted of an access point, and
  the runs that have seen it and are about to count it, are together no more than
  its sightings, so that overlapping discoveries do not reach the threshold early.
  `EvidencesInv` carries that to the row: what a run proposes was observed by it or
  read from the row, and what it would put up for acceptance has been sighted
  often enough.
- *Accounting.*  A reading of a counter accounts for the bytes that are neither in
  the counter beyond it nor lost with a recreated one (`Covered`).  Traffic, a
  recreated counter and a fresh reading keep that, so a reading may grow old
  during an await: what has been charged and what is in buckets and rows stays
  covered by the mark up to which it was taken.  That nothing but the owner
  changes a bucket that is being written (`Alone`) fails only when `stop()`
  overlaps.
- *Retention.*  Rolling up takes nothing out of the table it writes, because an
  hour (day) that is rolled up again is still whole in the table it comes from
  (`HoursWhole`, `DaysWhole`), and what a deletion drops is in the next table
  (`RawCopied`, `HourlyCopied`).  `BoundInv` ties the age of the last run to what
  the tables may still have, with the timer that starts at the end of the first; `QueryInv` says, for an answer that no run has
  crossed, in which table each sample must be when its part is read.
- *tc.*  `CycleCall`: the cycle is only ever in one of the calls it makes.  In a limit
  it has a rate to set; in clearing the base its snapshot has no limit at all; and
  what it is about to purge is none of what the snapshot expects.  The requests
  change neither.  Each command is one of four kinds (a rate set, filters
  dropped, another part of tc, a whole qdisc dropped), with a lemma each.
- *Types of tc.*  `CallOK`: a call that runs a limit's command is a limit and has
  its device, direction, address and rate all along; one that names an interface
  has a direction; one that needs a priority has found it; and what the cycle is
  about to purge are classes, although the same field later holds addresses.
  A probe that does not fail returns a priority of the range that nobody has
  (`FirstFreeIsFree`): among the free ones there is one nearest to the preferred
  one (`LeastExists`, from the well-foundedness of finite sets).
- *Setup.*  `RollInv`: a rollback that nobody overlaps has restored the files up to
  the one it is at from the latest snapshot, and all of them afterwards.
  `AloneInv` follows an apply from step to step against the host as it found it:
  what it can still give back, what it has given back, which files it has written
  and what is in force; a request that is not alone is not followed.
- *VPN.*  The type invariant is inductive by itself: what a caller has listed are
  handles, and a rule gets a handle that exists or, beyond the bound, none.
  `SingleInv` follows a caller that nobody overlaps through `setNat` (`Course`): when
  it deletes, its list still holds every rule of the kind; then exactly one NAT
  rule is its own; then no fail-closed rule is left but its own.  A startup before
  its VPN stage rewrites rules too, and then nobody has begun.
- *Policy.*  A call in flight has a device; one that counts has a quota and a usage
  row that is still there, because rows are only ever added or set (`RowsStay`);
  one that enforces has an action.

Model-checked only: every liveness property (`ConvergesToBlocked`,
`ConvergesToReleased`, `AccessPointsDemoted`, `LimitsSettle`, `QuotaTakesEffect`,
`BucketsAreWritten`, `EveryCallReturns`, `TunnelSettles`, `GuardCatchesUp`, `LimitsReached`, `LimitsRemoved`, `BaseRemoved`), since fairness
and ENABLED are beyond the proof system.  Every invariant and every action
property of the runs, and the refinement of `CommandService`, is also proved.
The invariants named above were checked by TLC on the instances of the runs
before they were proved; `CallOK` also with a single priority, so that probes fail.

## 5. Not modelled, and what is left

The repository has 38,600 lines of implementation, of which some 29,000 are the
generated Prisma client and 1,000 the dashboard; the control logic is in the
8,500 lines of the backend, and the modules stand for the parts of it that keep
state and interleave.  Not modelled:

- *Port rules and the policy catalogue*: rows without behaviour, and an adapter
  whose effect depends on nft's handles and listing format, which the repository
  does not fix (see the findings).
- *Authentication*: single synchronous checks on a map of sessions.
- *Presence and live monitoring*: a table of decisions for display, no state that
  anything else reads.
- *Notifications and audit*: rows that are inserted and listed; the delivery
  worker is not started by `server.ts`.
- *Profile enforcement*: runs once at startup (its effect on explicit limits is
  among the findings).
- *DHCP reservations*: a file rewritten from the rows by one timer.
- *Configuration, adapters' argument lists, parsers of command output, the
  dashboard, the generated client.*

Left to do, in order:

1. the lock shown to implement a mutex, and `DeviceBlocking` with `Identity`'s finer
   merges on one device;
2. tc classes whose hashes collide, and the throttle, at the level of commands;
3. profile enforcement at startup as a second writer of limits.
