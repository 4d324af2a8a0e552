------------------------------ MODULE Accounting ----------------------------
(***************************************************************************)
(* TrafficAccountingService: from the kernel's counters to rows of         *)
(* traffic_samples and to the quota's usage.                               *)
(*                                                                         *)
(* One byte count stands for the two directions, one row per device for    *)
(* its rows: what is conserved is their sum.  The steps are the awaits of  *)
(* collect(), which never overlaps itself, and of stop(), which may        *)
(* overlap collect().                                                      *)
(***************************************************************************)
EXTENDS Integers, FiniteSets

CONSTANTS
    Devices,
    NoDevice     \* no device

ASSUME AccountingAssumption == NoDevice \notin Devices

VARIABLES
    counter,     \* the kernel's named counter of each device
    minute,      \* the clock, in history buckets
    previous,    \* previous.get(device.id), or None
    pending,     \* pendingBuckets.get(device.id); minute None: no bucket
    col,         \* collect(): where it is, what it has read
    stopper,     \* stop(): the same
    samples,     \* bytes in traffic_samples
    usage,       \* bytes added to the quota's period
    moved,       \* history: bytes that went through the counter
    recreated,   \* history: devices whose counter was recreated at zero
    overlapped   \* history: stop() has been called during a collect()

kernel == <<counter, moved, recreated>>
memory == <<previous, pending>>
rows == <<samples, usage>>
vars == <<kernel, minute, memory, col, stopper, rows, overlapped>>

None == -1
NoBucket == [minute |-> None, bytes |-> 0]

\* "next": the loop over the devices; "read": the counter has been read;
\* "flush": the device's old bucket is being written; "charge": recordUsage;
\* "expired": flushExpiredHistoryBuckets; "expflush": it writes a bucket.
ColPCs == {"idle", "next", "read", "flush", "charge", "expired", "expflush"}
Collector == [pc : ColPCs, todo : SUBSET Devices, active : SUBSET Devices,
              dev : Devices \cup {NoDevice}, now : Nat, cur : Nat, bytes : Nat]
ColIdle == [pc |-> "idle", todo |-> {}, active |-> {}, dev |-> NoDevice,
            now |-> 0, cur |-> 0, bytes |-> 0]

\* "off": stop() has not been called; "next": its loop; "flush": it writes.
\* failed: the buckets it could not write and has passed.
Stopper == [pc : {"off", "next", "flush"}, failed : SUBSET Devices,
            dev : Devices \cup {NoDevice}, bytes : Nat]
StopOff == [pc |-> "off", failed |-> {}, dev |-> NoDevice, bytes |-> 0]

Init ==
    /\ counter = [d \in Devices |-> 0]
    /\ moved = [d \in Devices |-> 0]
    /\ recreated = {}
    /\ overlapped = FALSE
    /\ minute = 0
    /\ previous = [d \in Devices |-> None]
    /\ pending = [d \in Devices |-> NoBucket]
    /\ col = ColIdle
    /\ stopper = StopOff
    /\ samples = [d \in Devices |-> 0]
    /\ usage = [d \in Devices |-> 0]

-----------------------------------------------------------------------------
\* Traffic, time, and what happens to counters and processes.

Transfer(d) ==
    /\ counter' = [counter EXCEPT ![d] = @ + 1]
    /\ moved' = [moved EXCEPT ![d] = @ + 1]
    /\ UNCHANGED <<recreated, minute, memory, col, stopper, rows, overlapped>>

Tick ==
    /\ minute' = minute + 1
    /\ UNCHANGED <<kernel, memory, col, stopper, rows, overlapped>>

\* The counters are lost while the backend runs (a flushed ruleset, a new
\* table) and ensureDeviceCounters creates this one again, at zero.
CounterRecreated(d) ==
    /\ counter' = [counter EXCEPT ![d] = 0]
    /\ recreated' = recreated \cup {d}
    /\ UNCHANGED <<moved, minute, memory, col, stopper, rows, overlapped>>

\* The backend dies, or exits after stop(); its memory is gone.
Exit ==
    /\ previous' = [d \in Devices |-> None]
    /\ pending' = [d \in Devices |-> NoBucket]
    /\ col' = ColIdle
    /\ stopper' = StopOff
    /\ UNCHANGED <<kernel, minute, rows, overlapped>>

-----------------------------------------------------------------------------
\* collect()

\* discover() has answered and the rules are reconciled (or one of them threw:
\* CollectFails).  Nothing calls collect() once stop() has cleared the timer.
Collect(seen) ==
    /\ col.pc = "idle"
    /\ stopper.pc = "off"
    /\ col' = [ColIdle EXCEPT !.pc = "next", !.todo = seen, !.now = minute]
    /\ UNCHANGED <<kernel, minute, memory, stopper, rows, overlapped>>

\* readDeviceUsage of the next device.
ReadUsage(d) ==
    /\ col.pc = "next" /\ d \in col.todo
    /\ col' = [col EXCEPT !.pc = "read", !.dev = d, !.cur = counter[d],
                          !.todo = @ \ {d}, !.active = @ \cup {d}]
    /\ UNCHANGED <<kernel, minute, memory, stopper, rows, overlapped>>

\* It fails: the device is active, nothing else of it is touched.  If already
\* findByMac fails, or finds no row, the device is not even active.
ReadFails(d) ==
    /\ col.pc = "next" /\ d \in col.todo
    /\ \E active \in {col.active, col.active \cup {d}} :
          col' = [col EXCEPT !.todo = @ \ {d}, !.active = active]
    /\ UNCHANGED <<kernel, minute, memory, stopper, rows, overlapped>>

\* calculateDelta: a counter that is smaller than before has been recreated.
Delta(current, prev) == IF current < prev THEN current ELSE current - prev

\* collectDevice, after the read, up to its next await.
\* The first sample of a device is only a baseline.
Baseline ==
    /\ col.pc = "read"
    /\ previous[col.dev] = None
    /\ previous' = [previous EXCEPT ![col.dev] = col.cur]
    /\ col' = [col EXCEPT !.pc = "next"]
    /\ UNCHANGED <<kernel, minute, pending, stopper, rows, overlapped>>

NothingMoved ==
    /\ col.pc = "read"
    /\ previous[col.dev] # None
    /\ Delta(col.cur, previous[col.dev]) <= 0
    /\ previous' = [previous EXCEPT ![col.dev] = col.cur]
    /\ col' = [col EXCEPT !.pc = "next"]
    /\ UNCHANGED <<kernel, minute, pending, stopper, rows, overlapped>>

\* A bucket is made whether or not anything was transferred.
FaultyAddToBucket ==
    /\ col.pc = "read"
    /\ previous[col.dev] # None
    /\ LET delta == Delta(col.cur, previous[col.dev])
           old == pending[col.dev]
       IN  /\ old.minute \in {None, col.now}
           /\ pending' = [pending EXCEPT ![col.dev] =
                             [minute |-> col.now, bytes |-> old.bytes + delta]]
    /\ col' = [col EXCEPT !.pc = "charge"]
    /\ UNCHANGED <<kernel, minute, previous, stopper, rows, overlapped>>

\* addToHistoryBucket: into the bucket of this minute, or into a new one ...
AddToBucket ==
    /\ col.pc = "read"
    /\ previous[col.dev] # None
    /\ LET delta == Delta(col.cur, previous[col.dev])
           old == pending[col.dev]
       IN  /\ delta > 0
           /\ old.minute \in {None, col.now}
           /\ pending' = [pending EXCEPT ![col.dev] =
                             [minute |-> col.now, bytes |-> old.bytes + delta]]
    /\ col' = [col EXCEPT !.pc = "charge"]
    /\ UNCHANGED <<kernel, minute, previous, stopper, rows, overlapped>>

\* ... which replaces the old one after that has been written.
FlushOldBucket ==
    /\ col.pc = "read"
    /\ previous[col.dev] # None
    /\ Delta(col.cur, previous[col.dev]) > 0
    /\ pending[col.dev].minute \notin {None, col.now}
    /\ col' = [col EXCEPT !.pc = "flush", !.bytes = pending[col.dev].bytes]
    /\ UNCHANGED <<kernel, minute, memory, stopper, rows, overlapped>>

\* The old bucket is kept beside the new bytes although it has been written.
FaultyOldBucketFlushed ==
    /\ col.pc = "flush"
    /\ samples' = [samples EXCEPT ![col.dev] = @ + col.bytes]
    /\ pending' = [pending EXCEPT ![col.dev] =
                      [minute |-> col.now,
                       bytes |-> @.bytes + Delta(col.cur, previous[col.dev])]]
    /\ col' = [col EXCEPT !.pc = "charge"]
    /\ UNCHANGED <<kernel, minute, previous, stopper, usage, overlapped>>

\* accumulateBucket, and what follows it.
OldBucketFlushed ==
    /\ col.pc = "flush"
    /\ samples' = [samples EXCEPT ![col.dev] = @ + col.bytes]
    /\ pending' = [pending EXCEPT ![col.dev] =
                      [minute |-> col.now, bytes |-> Delta(col.cur, previous[col.dev])]]
    /\ col' = [col EXCEPT !.pc = "charge"]
    /\ UNCHANGED <<kernel, minute, previous, stopper, usage, overlapped>>

\* The sample is taken as read before its bytes are in a bucket.
FaultyFlushFails ==
    /\ col.pc = "flush"
    /\ previous' = [previous EXCEPT ![col.dev] = col.cur]
    /\ col' = [col EXCEPT !.pc = "next"]
    /\ UNCHANGED <<kernel, minute, pending, stopper, rows, overlapped>>

\* accumulateBucket fails: the device is left as it was, its previous sample
\* included, so the next collection takes these bytes again.
FlushFails ==
    /\ col.pc = "flush"
    /\ col' = [col EXCEPT !.pc = "next"]
    /\ UNCHANGED <<kernel, minute, memory, stopper, rows, overlapped>>

\* recordUsage adds the bytes, or does not; its failure is only logged.
Charge ==
    /\ col.pc = "charge"
    /\ usage' \in {usage, [usage EXCEPT ![col.dev] = @ + Delta(col.cur, previous[col.dev])]}
    /\ previous' = [previous EXCEPT ![col.dev] = col.cur]
    /\ col' = [col EXCEPT !.pc = "next"]
    /\ UNCHANGED <<kernel, minute, pending, stopper, samples, overlapped>>

\* Only the buckets of devices that were seen are looked at.
FaultyForget ==
    /\ col.pc = "next" /\ col.todo = {}
    /\ previous' = [d \in Devices |-> IF d \in col.active THEN previous[d] ELSE None]
    /\ col' = [col EXCEPT !.pc = "expired",
                          !.todo = {d \in col.active : pending[d] # NoBucket}]
    /\ UNCHANGED <<kernel, minute, pending, stopper, rows, overlapped>>

\* After the loop: devices that were not seen are forgotten.
Forget ==
    /\ col.pc = "next" /\ col.todo = {}
    /\ previous' = [d \in Devices |-> IF d \in col.active THEN previous[d] ELSE None]
    /\ col' = [col EXCEPT !.pc = "expired", !.todo = {d \in Devices : pending[d] # NoBucket}]
    /\ UNCHANGED <<kernel, minute, pending, stopper, rows, overlapped>>

\* flushExpiredHistoryBuckets: the buckets of earlier minutes.
Expired(d) == pending[d].minute \in 0 .. col.now - 1

FlushExpired(d) ==
    /\ col.pc = "expired" /\ d \in col.todo
    /\ IF Expired(d)
       THEN col' = [col EXCEPT !.pc = "expflush", !.dev = d, !.bytes = pending[d].bytes,
                               !.todo = @ \ {d}]
       ELSE col' = [col EXCEPT !.todo = @ \ {d}]
    /\ UNCHANGED <<kernel, minute, memory, stopper, rows, overlapped>>

ExpiredFlushed ==
    /\ col.pc = "expflush"
    /\ samples' = [samples EXCEPT ![col.dev] = @ + col.bytes]
    /\ pending' = [pending EXCEPT ![col.dev] = NoBucket]
    /\ col' = [col EXCEPT !.pc = "expired"]
    /\ UNCHANGED <<kernel, minute, previous, stopper, usage, overlapped>>

ExpiredFails ==
    /\ col.pc = "expflush"
    /\ col' = [col EXCEPT !.pc = "expired"]
    /\ UNCHANGED <<kernel, minute, memory, stopper, rows, overlapped>>

CollectDone ==
    /\ col.pc = "expired" /\ col.todo = {}
    /\ col' = ColIdle
    /\ UNCHANGED <<kernel, minute, memory, stopper, rows, overlapped>>

-----------------------------------------------------------------------------
\* stop(), called on SIGTERM.

Stop ==
    /\ stopper.pc = "off"
    /\ stopper' = [StopOff EXCEPT !.pc = "next"]
    /\ overlapped' = (overlapped \/ col.pc # "idle")
    /\ UNCHANGED <<kernel, minute, memory, col, rows>>

\* The loop over pendingBuckets sees what a collect() adds meanwhile.
StopFlush(d) ==
    /\ stopper.pc = "next"
    /\ pending[d] # NoBucket /\ d \notin stopper.failed
    /\ stopper' = [stopper EXCEPT !.pc = "flush", !.dev = d, !.bytes = pending[d].bytes]
    /\ UNCHANGED <<kernel, minute, memory, col, rows, overlapped>>

StopFlushed ==
    /\ stopper.pc = "flush"
    /\ samples' = [samples EXCEPT ![stopper.dev] = @ + stopper.bytes]
    /\ pending' = [pending EXCEPT ![stopper.dev] = NoBucket]
    /\ stopper' = [stopper EXCEPT !.pc = "next"]
    /\ UNCHANGED <<kernel, minute, previous, col, usage, overlapped>>

StopFails ==
    /\ stopper.pc = "flush"
    /\ stopper' = [stopper EXCEPT !.pc = "next", !.failed = @ \cup {stopper.dev}]
    /\ UNCHANGED <<kernel, minute, memory, col, rows, overlapped>>

-----------------------------------------------------------------------------
Environment == Tick \/ Exit \/ Stop \/ \E d \in Devices : Transfer(d) \/ CounterRecreated(d)

Failure == FlushFails \/ ExpiredFails \/ StopFails \/ \E d \in Devices : ReadFails(d)

CollectorStep ==
    \/ \E seen \in SUBSET Devices : Collect(seen)
    \/ \E d \in Devices : ReadUsage(d) \/ FlushExpired(d)
    \/ Baseline \/ NothingMoved \/ AddToBucket \/ FlushOldBucket \/ OldBucketFlushed
    \/ Charge \/ Forget \/ ExpiredFlushed \/ CollectDone

StopperStep == StopFlushed \/ \E d \in Devices : StopFlush(d)

Next == Environment \/ Failure \/ CollectorStep \/ StopperStep

\* The timer fires and queries end; traffic, failures and signals are free.
Fairness == WF_vars(CollectorStep) /\ WF_vars(StopperStep)

Spec == Init /\ [][Next]_vars /\ Fairness

-----------------------------------------------------------------------------
\* The types; and no bucket is empty or of a minute to come, so that no row of
\* the history is.
AccountingTypeOK ==
    /\ counter \in [Devices -> Nat]
    /\ moved \in [Devices -> Nat]
    /\ recreated \subseteq Devices
    /\ overlapped \in BOOLEAN
    /\ minute \in Nat
    /\ previous \in [Devices -> Nat \cup {None}]
    /\ pending \in [Devices -> {NoBucket} \cup [minute : 0 .. minute, bytes : Nat \ {0}]]
    /\ col \in Collector
    /\ stopper \in Stopper
    /\ samples \in [Devices -> Nat]
    /\ usage \in [Devices -> Nat]

\* The counter's value up to which a device's bytes are in a bucket or a row.
Mark(d) == IF col.pc = "charge" /\ col.dev = d THEN col.cur ELSE previous[d]

\* What the history will show of a device once it is read and written.
Known(d) ==
    samples[d] + pending[d].bytes
        + (IF Mark(d) = None THEN 0 ELSE Delta(counter[d], Mark(d)))

\* No byte is counted twice: not in the history, whatever is flushed by whom,
\* fails, is recreated or dies in between, as long as stop() does not come
\* during a collect(); and never in the quota's usage.
NeverOvercounted ==
    \A d \in Devices :
        /\ ~overlapped => Known(d) <= moved[d]
        /\ usage[d] <= moved[d]

\* No byte is lost: every step of the backend and of the network moves bytes
\* between the counter, a bucket and a row and changes their sum by what was
\* transferred.  The exceptions are the ends of the bookkeeping: a dead
\* backend, a device that is forgotten or seen for the first time, and a
\* counter that was recreated.
BytesConserved ==
    [][ ~overlapped' =>
          \A d \in Devices \ recreated' :
              (previous[d] # None /\ previous'[d] # None)
                  => Known(d)' - Known(d) = moved'[d] - moved[d] ]_vars

\* A bucket of an earlier minute is written in the end, whether or not its
\* device is seen again, unless a failure or the end of the backend takes it.
BucketsAreWritten ==
    \A d \in Devices :
        (pending[d].minute \in 0 .. minute - 1 /\ stopper.pc = "off")
            ~> (pending[d].minute \in {None, minute} \/ stopper.pc # "off")
=============================================================================
