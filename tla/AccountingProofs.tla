--------------------------- MODULE AccountingProofs --------------------------
(***************************************************************************)
(* For any devices: no byte is counted twice and none is lost between the  *)
(* counters, the buckets and the rows.                                     *)
(*                                                                         *)
(* The argument: a reading m of a counter that now stands at c accounts    *)
(* for the bytes that are neither in the counter beyond m nor lost with a  *)
(* counter that was recreated (Covered).  Traffic, a recreated counter and *)
(* a fresh reading keep that (Moves, Restarts, Reads), so that a reading   *)
(* that has grown old while something was awaited is still good.           *)
(***************************************************************************)
EXTENDS Accounting, TLAPS

\* What a counter at c still has of the bytes up to its reading m.
Seen(m, c) == IF c < m THEN 0 ELSE m

\* n bytes are no more than what the reading m accounts for, of g in all.
Covered(n, m, c, g) == IF m = None THEN n <= g ELSE n + c <= g + Seen(m, c)

\* A collection is between a reading and the new previous sample.
Busy == col.pc \in {"read", "flush", "charge"}
Gain == IF previous[col.dev] = None THEN 0 ELSE Delta(col.cur, previous[col.dev])
Written(d) == samples[d] + pending[d].bytes

\* Where the two are, and what they rely on after an await.
Positions ==
    /\ col.now <= minute
    /\ col.pc \in {"read", "flush", "charge", "expflush"} => col.dev \in Devices
    /\ col.pc \in {"flush", "charge"} => previous[col.dev] # None
    /\ col.pc = "flush" => Delta(col.cur, previous[col.dev]) > 0
    /\ stopper.pc = "flush" => stopper.dev \in Devices

\* What is being written is still what is in the bucket.
Alone ==
    ~overlapped =>
        /\ stopper.pc # "off" => col.pc = "idle"
        /\ col.pc \in {"flush", "expflush"} => col.bytes = pending[col.dev].bytes
        /\ stopper.pc = "flush" => stopper.bytes = pending[stopper.dev].bytes

Counters ==
    \A d \in Devices :
        /\ counter[d] <= moved[d]
        /\ d \notin recreated =>
              /\ counter[d] = moved[d] /\ previous[d] <= counter[d]
              /\ Busy /\ col.dev = d => previous[d] <= col.cur /\ col.cur <= counter[d]

UsageCovered ==
    /\ \A d \in Devices : Covered(usage[d], previous[d], counter[d], moved[d])
    /\ Busy => Covered(usage[col.dev] + Gain, col.cur, counter[col.dev], moved[col.dev])

HistoryCovered ==
    ~overlapped =>
        /\ \A d \in Devices : Covered(Written(d), Mark(d), counter[d], moved[d])
        /\ col.pc \in {"read", "flush"} =>
              Covered(Written(col.dev) + Gain, col.cur, counter[col.dev], moved[col.dev])

TInv == AccountingTypeOK /\ Positions
IInv == TInv /\ Alone /\ Counters /\ UsageCovered /\ HistoryCovered

-----------------------------------------------------------------------------
\* Readings.

LEMMA Moves ==
    ASSUME NEW n \in Nat, NEW m \in Nat \cup {None}, NEW c \in Nat, NEW g \in Nat,
           Covered(n, m, c, g)
    PROVE  Covered(n, m, c + 1, g + 1)
  BY DEF Covered, Seen, None

LEMMA Restarts ==
    ASSUME NEW n \in Nat, NEW m \in Nat \cup {None}, NEW c \in Nat, NEW g \in Nat,
           Covered(n, m, c, g)
    PROVE  Covered(n, m, 0, g)
  BY DEF Covered, Seen, None

LEMMA Ends ==
    ASSUME NEW n \in Nat, NEW m \in Nat \cup {None}, NEW c \in Nat, NEW g \in Nat,
           Covered(n, m, c, g), NEW k \in Nat, k <= n
    PROVE  Covered(k, None, c, g) /\ Covered(k, m, c, g)
  BY DEF Covered, Seen, None

LEMMA Reads ==
    ASSUME NEW n \in Nat, NEW m \in Nat \cup {None}, NEW c \in Nat, NEW g \in Nat,
           Covered(n, m, c, g)
    PROVE  Covered(n + (IF m = None THEN 0 ELSE Delta(c, m)), c, c, g)
  BY DEF Covered, Seen, None, Delta

\* What a reading accounts for, as the property counts it.
LEMMA Counts ==
    ASSUME NEW n \in Nat, NEW m \in Nat \cup {None}, NEW c \in Nat, NEW g \in Nat
    PROVE  /\ Covered(n, m, c, g) <=> n + (IF m = None THEN 0 ELSE Delta(c, m)) <= g
           /\ Covered(n, m, c, g) => n <= g
  BY DEF Covered, Seen, None, Delta

LEMMA DeltaType ==
    ASSUME NEW c \in Nat, NEW m \in Nat
    PROVE  Delta(c, m) \in Nat /\ Delta(c, m) <= c
  BY DEF Delta

-----------------------------------------------------------------------------
\* Types.

LEMMA InitTypes == Init => TInv
<1> SUFFICES ASSUME Init PROVE TInv
  OBVIOUS
<1>1. col \in Collector /\ col.pc = "idle" /\ col.now = 0
  BY DEF Init, ColIdle, Collector, ColPCs
<1>2. stopper \in Stopper /\ stopper.pc = "off"
  BY DEF Init, StopOff, Stopper
<1>3. pending \in [Devices -> {NoBucket} \cup [minute : 0 .. minute, bytes : Nat \ {0}]]
  BY DEF Init
<1>4. /\ recreated \subseteq Devices /\ overlapped \in BOOLEAN /\ minute = 0
      /\ counter \in [Devices -> Nat] /\ moved \in [Devices -> Nat]
      /\ samples \in [Devices -> Nat] /\ usage \in [Devices -> Nat]
      /\ previous \in [Devices -> Nat \cup {None}]
  BY DEF Init
<1> QED BY <1>1, <1>2, <1>3, <1>4 DEF TInv, AccountingTypeOK, Positions

LEMMA Fields ==
    ASSUME TInv
    PROVE  /\ \A d \in Devices : /\ counter[d] \in Nat /\ moved[d] \in Nat
                                 /\ samples[d] \in Nat /\ usage[d] \in Nat
                                 /\ previous[d] \in Nat \cup {None}
                                 /\ pending[d].bytes \in Nat
                                 /\ Written(d) \in Nat
           /\ col.cur \in Nat /\ col.bytes \in Nat /\ stopper.bytes \in Nat
           /\ Busy => col.dev \in Devices /\ Gain \in Nat
  <1>1. \A d \in Devices : pending[d].bytes \in Nat
    BY DEF TInv, AccountingTypeOK, NoBucket
  <1>2. /\ \A d \in Devices : /\ counter[d] \in Nat /\ moved[d] \in Nat
                              /\ samples[d] \in Nat /\ usage[d] \in Nat
                              /\ previous[d] \in Nat \cup {None}
        /\ col.cur \in Nat /\ col.bytes \in Nat /\ stopper.bytes \in Nat
    BY DEF TInv, AccountingTypeOK, Collector, Stopper
  <1>3. Busy => col.dev \in Devices
    BY DEF TInv, Positions, Busy
  <1>4. Busy => Gain \in Nat
    BY <1>2, <1>3, DeltaType DEF Gain
  <1> QED BY <1>1, <1>2, <1>3, <1>4 DEF Written

LEMMA NextTypes == TInv /\ [Next]_vars => TInv'
<1> SUFFICES ASSUME TInv, [Next]_vars PROVE TInv'
  OBVIOUS
<1> USE DEF TInv, AccountingTypeOK, Positions
<1>1. CASE Tick
  <2>1. /\ minute' \in Nat /\ minute <= minute'
        /\ UNCHANGED <<kernel, memory, col, stopper, rows, overlapped>>
    BY <1>1 DEF Tick
  <2>2. \A d \in Devices :
           pending'[d] \in {NoBucket} \cup [minute : 0 .. minute', bytes : Nat \ {0}]
    BY <2>1 DEF memory
  <2>3. pending' \in [Devices -> {NoBucket} \cup [minute : 0 .. minute', bytes : Nat \ {0}]]
    BY <2>1, <2>2 DEF memory
  <2>4. UNCHANGED <<counter, moved, recreated, previous, samples, usage, col, stopper, overlapped>>
    BY <2>1 DEF kernel, memory, rows
  <2>5. Positions'
    <3>1. col.now \in Nat
      BY DEF Collector
    <3>2. UNCHANGED previous
      BY <2>1 DEF memory
    <3> QED BY <2>1, <2>4, <3>1, <3>2
  <2>6. AccountingTypeOK'
    BY <2>1, <2>3, <2>4
  <2> QED BY <2>5, <2>6
<1>2. CASE Exit
  BY <1>2, AccountingAssumption DEF Exit, kernel, rows, ColIdle, StopOff, Collector, ColPCs, Stopper, NoBucket, None
<1>3. CASE Stop
  BY <1>3 DEF Stop, kernel, memory, rows, StopOff, Stopper
<1>4. ASSUME NEW d \in Devices, Transfer(d) PROVE TInv'
  BY <1>4 DEF Transfer, memory, rows
<1>5. ASSUME NEW d \in Devices, CounterRecreated(d) PROVE TInv'
  BY <1>5 DEF CounterRecreated, memory, rows
<1>6. CASE FlushFails
  BY <1>6 DEF FlushFails, kernel, memory, rows, Collector, ColPCs
<1>7. CASE ExpiredFails
  BY <1>7 DEF ExpiredFails, kernel, memory, rows, Collector, ColPCs
<1>8. CASE StopFails
  BY <1>8 DEF StopFails, kernel, memory, rows, Stopper
<1>9. ASSUME NEW d \in Devices, ReadFails(d) PROVE TInv'
  <2>1. PICK active \in {col.active, col.active \cup {d}} :
           col' = [col EXCEPT !.todo = @ \ {d}, !.active = active]
    BY <1>9 DEF ReadFails
  <2>2. active \in SUBSET Devices
    BY <2>1 DEF Collector
  <2> QED BY <1>9, <2>1, <2>2 DEF ReadFails, kernel, memory, rows, Collector, ColPCs
<1>10. ASSUME NEW seen \in SUBSET Devices, Collect(seen) PROVE TInv'
  <2>1. /\ col' \in Collector /\ col'.pc = "next" /\ col'.now = minute
        /\ UNCHANGED <<kernel, minute, memory, stopper, rows, overlapped>>
    BY <1>10 DEF Collect, ColIdle, Collector, ColPCs
  <2> QED BY <2>1 DEF kernel, memory, rows
<1>11. ASSUME NEW d \in Devices, ReadUsage(d) PROVE TInv'
  BY <1>11 DEF ReadUsage, kernel, memory, rows, Collector, ColPCs
<1>12. ASSUME NEW d \in Devices, FlushExpired(d) PROVE TInv'
  <2>1. UNCHANGED <<kernel, minute, memory, stopper, rows, overlapped>>
    BY <1>12 DEF FlushExpired
  <2>2. CASE Expired(d)
    <3>1. col' = [col EXCEPT !.pc = "expflush", !.dev = d, !.bytes = pending[d].bytes,
                             !.todo = @ \ {d}]
      BY <1>12, <2>2 DEF FlushExpired
    <3> QED BY <2>1, <3>1, Fields DEF kernel, memory, rows, Collector, ColPCs
  <2>3. CASE ~Expired(d)
    <3>1. col' = [col EXCEPT !.todo = @ \ {d}] /\ col.pc = "expired"
      BY <1>12, <2>3 DEF FlushExpired
    <3> QED BY <2>1, <3>1 DEF kernel, memory, rows, Collector, ColPCs
  <2> QED BY <2>2, <2>3
<1>13. CASE Baseline
  BY <1>13 DEF Baseline, kernel, rows, Collector, ColPCs
<1>14. CASE NothingMoved
  BY <1>14 DEF NothingMoved, kernel, rows, Collector, ColPCs
<1>15. CASE AddToBucket
  <2> DEFINE new == [minute |-> col.now,
                     bytes |-> pending[col.dev].bytes + Delta(col.cur, previous[col.dev])]
  <2>1. /\ col.pc = "read" /\ previous[col.dev] # None /\ Delta(col.cur, previous[col.dev]) > 0
        /\ pending' = [pending EXCEPT ![col.dev] = new]
        /\ col' = [col EXCEPT !.pc = "charge"]
        /\ UNCHANGED <<kernel, minute, previous, stopper, rows, overlapped>>
    BY <1>15 DEF AddToBucket
  <2>2. col.dev \in Devices /\ col.now \in 0 .. minute
    BY <2>1 DEF Collector
  <2>3. new \in [minute : 0 .. minute, bytes : Nat \ {0}]
    <3>1. /\ previous[col.dev] \in Nat /\ col.cur \in Nat
          /\ pending[col.dev].bytes \in Nat
      BY <2>1, <2>2, Fields
    <3>2. Delta(col.cur, previous[col.dev]) \in Nat \ {0}
      BY <2>1, <3>1, DeltaType
    <3> QED BY <2>2, <3>1, <3>2
  <2> HIDE DEF new
  <2>4. AccountingTypeOK'
    BY <2>1, <2>2, <2>3 DEF kernel, rows, Collector, ColPCs
  <2>5. Positions'
    BY <2>1, <2>2 DEF Collector, ColPCs
  <2> QED BY <2>4, <2>5
<1>16. CASE FlushOldBucket
  BY <1>16, Fields DEF FlushOldBucket, kernel, memory, rows, Collector, ColPCs
<1>17. CASE OldBucketFlushed
  <2> DEFINE new == [minute |-> col.now, bytes |-> Delta(col.cur, previous[col.dev])]
  <2>1. /\ col.pc = "flush"
        /\ samples' = [samples EXCEPT ![col.dev] = @ + col.bytes]
        /\ pending' = [pending EXCEPT ![col.dev] = new]
        /\ col' = [col EXCEPT !.pc = "charge"]
        /\ UNCHANGED <<kernel, minute, previous, stopper, usage, overlapped>>
    BY <1>17 DEF OldBucketFlushed
  <2>2. /\ col.dev \in Devices /\ col.now \in 0 .. minute /\ col.bytes \in Nat
        /\ previous[col.dev] # None
    BY <2>1 DEF Collector
  <2>3. new \in [minute : 0 .. minute, bytes : Nat \ {0}]
    <3>1. previous[col.dev] \in Nat /\ col.cur \in Nat
      BY <2>2, Fields
    <3>2. Delta(col.cur, previous[col.dev]) \in Nat \ {0}
      BY <2>1, <3>1, DeltaType
    <3> QED BY <2>2, <3>2
  <2> HIDE DEF new
  <2>4. samples' \in [Devices -> Nat]
    BY <2>1, <2>2
  <2>5. AccountingTypeOK'
    BY <2>1, <2>2, <2>3, <2>4 DEF kernel, Collector, ColPCs
  <2>6. Positions'
    BY <2>1, <2>2 DEF Collector, ColPCs
  <2> QED BY <2>5, <2>6
<1>18. CASE Charge
  <2>1. /\ col.pc = "charge" /\ col.dev \in Devices /\ previous[col.dev] # None
        /\ usage' \in {usage, [usage EXCEPT ![col.dev] = @ + Delta(col.cur, previous[col.dev])]}
        /\ previous' = [previous EXCEPT ![col.dev] = col.cur]
        /\ col' = [col EXCEPT !.pc = "next"]
        /\ UNCHANGED <<kernel, minute, pending, stopper, samples, overlapped>>
    BY <1>18 DEF Charge
  <2>2. previous[col.dev] \in Nat /\ col.cur \in Nat
    BY <2>1, Fields
  <2>3. Delta(col.cur, previous[col.dev]) \in Nat
    BY <2>2, DeltaType
  <2>4. usage' \in [Devices -> Nat] /\ previous' \in [Devices -> Nat \cup {None}]
    BY <2>1, <2>2, <2>3
  <2>5. AccountingTypeOK'
    BY <2>1, <2>4 DEF kernel, Collector, ColPCs
  <2>6. Positions'
    BY <2>1 DEF Collector, ColPCs
  <2> QED BY <2>5, <2>6
<1>19. CASE Forget
  BY <1>19 DEF Forget, kernel, rows, Collector, ColPCs
<1>20. CASE ExpiredFlushed
  BY <1>20 DEF ExpiredFlushed, kernel, Collector, ColPCs
<1>21. CASE CollectDone
  BY <1>21, AccountingAssumption DEF CollectDone, ColIdle, kernel, memory, rows, Collector, ColPCs
<1>22. CASE StopFlushed
  BY <1>22 DEF StopFlushed, kernel, Stopper
<1>23. ASSUME NEW d \in Devices, StopFlush(d) PROVE TInv'
  BY <1>23, Fields DEF StopFlush, kernel, memory, rows, Stopper
<1>24. CASE UNCHANGED vars
  BY <1>24 DEF vars, kernel, memory, rows
<1> QED
  BY <1>1, <1>2, <1>3, <1>4, <1>5, <1>6, <1>7, <1>8, <1>9, <1>10, <1>11, <1>12, <1>13, <1>14,
     <1>15, <1>16, <1>17, <1>18, <1>19, <1>20, <1>21, <1>22, <1>23, <1>24
  DEF Next, Environment, Failure, CollectorStep, StopperStep

-----------------------------------------------------------------------------
\* The rest of the invariant.

LEMMA InitInv == Init => IInv
<1> SUFFICES ASSUME Init PROVE IInv
  OBVIOUS
<1>1. /\ col.pc = "idle" /\ stopper.pc = "off" /\ overlapped = FALSE
      /\ \A d \in Devices : /\ counter[d] = 0 /\ moved[d] = 0 /\ samples[d] = 0 /\ usage[d] = 0
                            /\ pending[d].bytes = 0 /\ previous[d] = None
  BY DEF Init, ColIdle, StopOff, NoBucket
<1>2. Alone /\ Counters
  BY <1>1 DEF Alone, Counters, Busy, None
<1>3. UsageCovered /\ HistoryCovered
  BY <1>1 DEF UsageCovered, HistoryCovered, Busy, Written, Mark, Covered
<1> QED BY <1>2, <1>3, InitTypes DEF IInv

\* What the steps that only await, or only change where they are, leave alone.
Books == <<counter, moved, recreated, previous, pending, samples, usage>>

LEMMA Await ==
    ASSUME IInv, UNCHANGED Books, overlapped => overlapped',
           \/ col' = col
           \/ /\ col'.pc # "charge" /\ col.pc # "charge"
              /\ col'.pc \in {"read", "flush"} =>
                    col.pc \in {"read", "flush"} /\ col'.dev = col.dev /\ col'.cur = col.cur
    PROVE  Counters' /\ UsageCovered' /\ HistoryCovered'
<1>1. UNCHANGED <<counter, moved, recreated, previous, pending, samples, usage>>
  BY DEF Books
<1>2. Busy' => Busy /\ col'.dev = col.dev /\ Gain' = Gain
  BY <1>1 DEF Busy, Gain
<1>3. \A d \in Devices : Mark(d)' = Mark(d) /\ Written(d)' = Written(d)
  BY <1>1 DEF Mark, Written
<1>4. Counters'
  BY <1>1, <1>2 DEF IInv, Counters, Busy
<1>5. UsageCovered'
  BY <1>1, <1>2 DEF IInv, UsageCovered, Busy
<1>6. HistoryCovered'
  BY <1>1, <1>2, <1>3, Fields DEF IInv, HistoryCovered, Busy
<1> QED BY <1>4, <1>5, <1>6

LEMMA KernelStep ==
    ASSUME IInv, TInv', UNCHANGED <<previous, pending, samples, usage, col, stopper, overlapped>>,
           recreated \subseteq recreated',
           \A d \in Devices : \/ counter'[d] = counter[d] /\ moved'[d] = moved[d]
                              \/ counter'[d] = counter[d] + 1 /\ moved'[d] = moved[d] + 1
                              \/ counter'[d] = 0 /\ moved'[d] = moved[d] /\ d \in recreated'
    PROVE  IInv'
<1>1. TInv
  BY DEF IInv
<1>2. ASSUME NEW d \in Devices, NEW n \in Nat, NEW m \in Nat \cup {None},
             Covered(n, m, counter[d], moved[d])
      PROVE  Covered(n, m, counter'[d], moved'[d])
  <2>1. counter[d] \in Nat /\ moved[d] \in Nat
    BY <1>1, Fields
  <2>2. CASE counter'[d] = counter[d] /\ moved'[d] = moved[d]
    BY <1>2, <2>2
  <2>3. CASE counter'[d] = counter[d] + 1 /\ moved'[d] = moved[d] + 1
    <3>1. Covered(n, m, counter[d] + 1, moved[d] + 1)
      BY <1>2, <2>1, Moves
    <3> QED BY <2>3, <3>1
  <2>4. CASE counter'[d] = 0 /\ moved'[d] = moved[d]
    <3>1. Covered(n, m, 0, moved[d])
      BY <1>2, <2>1, Restarts
    <3> QED BY <2>4, <3>1
  <2> QED BY <2>2, <2>3, <2>4
<1>3. Alone'
  BY DEF IInv, Alone
<1>4. Counters'
  <2> SUFFICES ASSUME NEW d \in Devices
               PROVE  /\ counter'[d] <= moved'[d]
                      /\ d \notin recreated' =>
                            /\ counter'[d] = moved'[d] /\ previous[d] <= counter'[d]
                            /\ Busy /\ col.dev = d => /\ previous[d] <= col.cur
                                                      /\ col.cur <= counter'[d]
    BY DEF Counters, Busy
  <2> QED BY <1>1, Fields DEF IInv, Counters, None
<1>5. /\ Busy' <=> Busy
      /\ Gain' = Gain
      /\ \A d \in Devices : Mark(d)' = Mark(d) /\ Written(d)' = Written(d)
  BY DEF Busy, Gain, Mark, Written
<1>6. \A d \in Devices : Mark(d) \in Nat \cup {None}
  BY <1>1, Fields DEF Mark
<1>7. UsageCovered'
  <2>1. \A d \in Devices : Covered(usage[d], previous[d], counter'[d], moved'[d])
    BY <1>1, <1>2, Fields DEF IInv, UsageCovered
  <2>2. Busy => Covered(usage[col.dev] + Gain, col.cur, counter'[col.dev], moved'[col.dev])
    <3> SUFFICES ASSUME Busy
                 PROVE  Covered(usage[col.dev] + Gain, col.cur, counter'[col.dev], moved'[col.dev])
      OBVIOUS
    <3>1. /\ col.dev \in Devices /\ usage[col.dev] + Gain \in Nat /\ col.cur \in Nat \cup {None}
          /\ Covered(usage[col.dev] + Gain, col.cur, counter[col.dev], moved[col.dev])
      BY <1>1, Fields DEF IInv, UsageCovered
    <3> QED BY <1>2, <3>1
  <2> QED BY <1>5, <2>1, <2>2 DEF UsageCovered
<1>8. HistoryCovered'
  <2> SUFFICES ASSUME ~overlapped
               PROVE  /\ \A d \in Devices : Covered(Written(d), Mark(d), counter'[d], moved'[d])
                      /\ col.pc \in {"read", "flush"} =>
                            Covered(Written(col.dev) + Gain, col.cur, counter'[col.dev], moved'[col.dev])
    <3>1. col.pc \in {"read", "flush"} => col.dev \in Devices
      BY <1>1, Fields DEF Busy
    <3> QED BY <1>5, <3>1 DEF HistoryCovered
  <2>1. \A d \in Devices : Covered(Written(d), Mark(d), counter'[d], moved'[d])
    BY <1>1, <1>2, <1>6, Fields DEF IInv, HistoryCovered
  <2>2. ASSUME col.pc \in {"read", "flush"}
        PROVE  Covered(Written(col.dev) + Gain, col.cur, counter'[col.dev], moved'[col.dev])
    <3>1. Busy
      BY <2>2 DEF Busy
    <3>2. /\ col.dev \in Devices /\ Written(col.dev) + Gain \in Nat /\ col.cur \in Nat \cup {None}
          /\ Covered(Written(col.dev) + Gain, col.cur, counter[col.dev], moved[col.dev])
      BY <1>1, <2>2, <3>1, Fields DEF IInv, HistoryCovered
    <3> QED BY <1>2, <3>2
  <2> QED BY <2>1, <2>2
<1> QED BY <1>3, <1>4, <1>7, <1>8 DEF IInv

\* A reading becomes the previous sample; its bytes, and no more, are added.
LEMMA Sampled ==
    ASSUME IInv, Busy, TInv', NEW d \in Devices, d = col.dev,
           UNCHANGED <<counter, moved, recreated, overlapped>>,
           previous' = [previous EXCEPT ![d] = col.cur],
           \A e \in Devices : Written(e)' = Written(e),
           usage' \in {usage, [usage EXCEPT ![d] = @ + Gain]},
           ~overlapped => Covered(Written(d), col.cur, counter[d], moved[d]),
           col.pc # "flush", ~Busy'
    PROVE  Counters' /\ UsageCovered' /\ HistoryCovered'
<1>1. TInv /\ previous'[d] = col.cur /\ \A e \in Devices : e # d => previous'[e] = previous[e]
  BY DEF IInv, TInv, AccountingTypeOK
<1>2. Counters'
  BY <1>1 DEF IInv, Counters
<1>3. UsageCovered'
  <2>1. \A e \in Devices : e # d => usage'[e] = usage[e]
    BY <1>1 DEF TInv, AccountingTypeOK
  <2>2. usage'[d] \in Nat /\ usage'[d] <= usage[d] + Gain
    BY <1>1, Fields DEF TInv, AccountingTypeOK
  <2>3. Covered(usage[d] + Gain, col.cur, counter[d], moved[d])
    BY DEF IInv, UsageCovered
  <2>4. Covered(usage'[d], col.cur, counter[d], moved[d])
    <3>1. /\ col.cur \in Nat /\ counter[d] \in Nat /\ moved[d] \in Nat
          /\ usage[d] + Gain \in Nat
      BY <1>1, Fields
    <3> QED BY <2>2, <2>3, <3>1, Ends
  <2> QED BY <1>1, <2>1, <2>4 DEF IInv, UsageCovered
<1>4. HistoryCovered'
  <2> SUFFICES ASSUME ~overlapped, NEW e \in Devices
               PROVE  Covered(Written(e), previous'[e], counter[e], moved[e])
    BY DEF HistoryCovered, Busy, Mark
  <2>1. CASE e = d
    BY <1>1, <2>1
  <2>2. CASE e # d
    BY <1>1, <2>2 DEF IInv, HistoryCovered, Mark
  <2> QED BY <2>1, <2>2
<1> QED BY <1>2, <1>3, <1>4

\* Samples are forgotten, and perhaps buckets.
LEMMA Forgotten ==
    ASSUME IInv, TInv', UNCHANGED <<counter, moved, recreated, usage, overlapped>>,
           ~Busy',
           \A d \in Devices : /\ previous'[d] \in {None, previous[d]}
                              /\ Mark(d)' \in {None, Mark(d)}
                              /\ Written(d)' <= Written(d)
    PROVE  Counters' /\ UsageCovered' /\ HistoryCovered'
<1>1. TInv
  BY DEF IInv
<1>2. Counters'
  BY <1>1, Fields DEF IInv, Counters, None
<1>3. UsageCovered'
  <2> SUFFICES ASSUME NEW d \in Devices
               PROVE  Covered(usage[d], previous'[d], counter[d], moved[d])
    BY DEF UsageCovered
  <2>1. Covered(usage[d], previous[d], counter[d], moved[d])
    BY DEF IInv, UsageCovered
  <2>2. /\ usage[d] \in Nat /\ counter[d] \in Nat /\ moved[d] \in Nat
        /\ previous[d] \in Nat \cup {None}
    BY <1>1, Fields
  <2>3. Covered(usage[d], None, counter[d], moved[d])
    BY <2>1, <2>2, Ends
  <2> QED BY <2>1, <2>3
<1>4. HistoryCovered'
  <2> SUFFICES ASSUME ~overlapped, NEW d \in Devices
               PROVE  Covered(Written(d)', Mark(d)', counter[d], moved[d])
    BY DEF HistoryCovered, Busy
  <2>1. Covered(Written(d), Mark(d), counter[d], moved[d])
    BY DEF IInv, HistoryCovered
  <2>2. samples'[d] \in Nat /\ pending'[d].bytes \in Nat
    BY DEF TInv, AccountingTypeOK, NoBucket
  <2>3. Written(d)' \in Nat /\ Mark(d) \in Nat \cup {None}
    BY <1>1, <2>2, Fields DEF Written, Mark
  <2>4. /\ Written(d) \in Nat /\ counter[d] \in Nat /\ moved[d] \in Nat
        /\ Written(d)' <= Written(d)
    BY <1>1, Fields
  <2>5. /\ Covered(Written(d)', None, counter[d], moved[d])
        /\ Covered(Written(d)', Mark(d), counter[d], moved[d])
    BY <2>1, <2>3, <2>4, Ends
  <2>6. CASE Mark(d)' = None
    BY <2>5, <2>6
  <2>7. CASE Mark(d)' = Mark(d)
    BY <2>5, <2>7
  <2> QED BY <2>6, <2>7
<1> QED BY <1>2, <1>3, <1>4

\* The gain of a reading goes into the bucket.
LEMMA Bucketed ==
    ASSUME IInv, TInv', Busy, col'.pc = "charge", col'.dev = col.dev, col'.cur = col.cur,
           col.pc \in {"read", "flush"}, previous[col.dev] # None,
           UNCHANGED <<counter, moved, recreated, previous, usage, stopper, overlapped>>,
           ~overlapped => Written(col.dev)' = Written(col.dev) + Gain,
           \A e \in Devices : e # col.dev => Written(e)' = Written(e)
    PROVE  IInv'
<1>1. Busy' /\ Gain' = Gain
  BY DEF Busy, Gain
<1>2. Alone'
  BY DEF IInv, Alone
<1>3. Counters'
  BY <1>1 DEF IInv, Counters, Busy
<1>4. UsageCovered'
  BY <1>1 DEF IInv, UsageCovered
<1>5. HistoryCovered'
  <2> SUFFICES ASSUME ~overlapped, NEW d \in Devices
               PROVE  Covered(Written(d)', Mark(d)', counter[d], moved[d])
    BY DEF HistoryCovered
  <2>1. CASE d = col.dev
    <3>1. Mark(d)' = col.cur
      BY <2>1 DEF Mark
    <3> QED BY <2>1, <3>1 DEF IInv, HistoryCovered
  <2>2. CASE d # col.dev
    <3>1. Mark(d)' = Mark(d)
      BY <2>2 DEF Mark
    <3> QED BY <2>2, <3>1 DEF IInv, HistoryCovered
  <2> QED BY <2>1, <2>2
<1> QED BY <1>2, <1>3, <1>4, <1>5 DEF IInv

\* A bucket goes into a row, while no reading is under way if there is no other
\* step under way either.
LEMMA Flushed ==
    ASSUME IInv, TInv',
           UNCHANGED <<counter, moved, recreated, previous, usage, overlapped>>,
           \/ col' = col /\ (~overlapped => col.pc = "idle")
           \/ ~Busy /\ ~Busy',
           ~overlapped => \A e \in Devices : Written(e)' = Written(e)
    PROVE  Counters' /\ UsageCovered' /\ HistoryCovered'
<1>1. /\ Busy' => col' = col /\ Busy
      /\ ~overlapped => ~Busy /\ ~Busy'
  BY DEF Busy
<1>2. Counters'
  BY <1>1 DEF IInv, Counters
<1>3. UsageCovered'
  BY <1>1 DEF IInv, UsageCovered, Gain
<1>4. HistoryCovered'
  <2> SUFFICES ASSUME ~overlapped
               PROVE  \A d \in Devices : Covered(Written(d)', Mark(d)', counter[d], moved[d])
    BY <1>1 DEF HistoryCovered, Busy
  <2>1. \A d \in Devices : Mark(d)' = Mark(d)
    BY <1>1 DEF Mark, Busy
  <2> QED BY <2>1 DEF IInv, HistoryCovered
<1> QED BY <1>2, <1>3, <1>4

-----------------------------------------------------------------------------
LEMMA NextInv == IInv /\ [Next]_vars => IInv'
<1> SUFFICES ASSUME IInv, [Next]_vars PROVE IInv'
  OBVIOUS
<1>a. TInv /\ TInv' /\ Alone
  BY NextTypes DEF IInv
<1>b. /\ col \in Collector /\ stopper \in Stopper
      /\ previous \in [Devices -> Nat \cup {None}]
      /\ samples \in [Devices -> Nat] /\ usage \in [Devices -> Nat]
      /\ pending \in [Devices -> {NoBucket} \cup [minute : 0 .. minute, bytes : Nat \ {0}]]
  BY <1>a DEF TInv, AccountingTypeOK
<1>1. CASE Tick
  <2>1. UNCHANGED <<Books, col, stopper, overlapped>>
    BY <1>1 DEF Tick, Books, kernel, memory, rows
  <2>2. Alone'
    BY <1>a, <2>1 DEF Alone, Books
  <2> QED BY <1>a, <2>1, <2>2, Await DEF IInv
<1>2. CASE Exit
  <2>1. /\ UNCHANGED <<counter, moved, recreated, samples, usage, overlapped>>
        /\ col'.pc = "idle" /\ stopper'.pc = "off"
        /\ \A d \in Devices : previous'[d] = None /\ pending'[d].bytes = 0
    BY <1>2 DEF Exit, kernel, rows, ColIdle, StopOff, NoBucket
  <2>2. Alone'
    BY <2>1 DEF Alone
  <2>3. /\ ~Busy'
        /\ \A d \in Devices : Mark(d)' = None /\ Written(d)' <= Written(d)
    BY <1>a, <2>1, Fields DEF Busy, Mark, Written
  <2> QED BY <1>a, <2>1, <2>2, <2>3, Forgotten DEF IInv
<1>3. CASE Stop
  <2>1. /\ UNCHANGED <<Books, col>> /\ stopper'.pc = "next"
        /\ (overlapped \/ col.pc # "idle") => overlapped'
        /\ overlapped => overlapped'
    BY <1>3 DEF Stop, Books, kernel, memory, rows, StopOff
  <2>2. Alone'
    BY <1>a, <2>1 DEF Alone, Books
  <2> QED BY <1>a, <2>1, <2>2, Await DEF IInv
<1>4. ASSUME NEW d \in Devices, Transfer(d) PROVE IInv'
  <2>1. /\ UNCHANGED <<recreated, previous, pending, samples, usage, col, stopper, overlapped>>
        /\ counter' = [counter EXCEPT ![d] = @ + 1]
        /\ moved' = [moved EXCEPT ![d] = @ + 1]
    BY <1>4 DEF Transfer, memory, rows
  <2>2. \A e \in Devices : \/ counter'[e] = counter[e] /\ moved'[e] = moved[e]
                           \/ counter'[e] = counter[e] + 1 /\ moved'[e] = moved[e] + 1
    BY <1>a, <2>1 DEF TInv, AccountingTypeOK
  <2> QED BY <1>a, <2>1, <2>2, KernelStep
<1>5. ASSUME NEW d \in Devices, CounterRecreated(d) PROVE IInv'
  <2>1. /\ UNCHANGED <<moved, previous, pending, samples, usage, col, stopper, overlapped>>
        /\ counter' = [counter EXCEPT ![d] = 0]
        /\ recreated' = recreated \cup {d}
    BY <1>5 DEF CounterRecreated, memory, rows
  <2>2. \A e \in Devices : \/ counter'[e] = counter[e] /\ moved'[e] = moved[e]
                           \/ counter'[e] = 0 /\ moved'[e] = moved[e] /\ e \in recreated'
    BY <1>a, <2>1 DEF TInv, AccountingTypeOK
  <2> QED BY <1>a, <2>1, <2>2, KernelStep
<1>6. CASE FlushFails
  <2>1. UNCHANGED <<Books, stopper, overlapped>> /\ col.pc = "flush" /\ col'.pc = "next"
    BY <1>6, <1>b DEF FlushFails, Books, kernel, memory, rows, Collector
  <2>2. Alone'
    BY <1>a, <2>1 DEF Alone, Books
  <2> QED BY <1>a, <2>1, <2>2, Await DEF IInv
<1>7. CASE ExpiredFails
  <2>1. UNCHANGED <<Books, stopper, overlapped>> /\ col.pc = "expflush" /\ col'.pc = "expired"
    BY <1>7, <1>b DEF ExpiredFails, Books, kernel, memory, rows, Collector
  <2>2. Alone'
    BY <1>a, <2>1 DEF Alone, Books
  <2> QED BY <1>a, <2>1, <2>2, Await DEF IInv
<1>8. CASE StopFails
  <2>1. UNCHANGED <<Books, col, overlapped>> /\ stopper.pc = "flush" /\ stopper'.pc = "next"
    BY <1>8, <1>b DEF StopFails, Books, kernel, memory, rows, Stopper
  <2>2. Alone'
    BY <1>a, <2>1 DEF Alone, Books
  <2> QED BY <1>a, <2>1, <2>2, Await DEF IInv
<1>9. ASSUME NEW d \in Devices, ReadFails(d) PROVE IInv'
  <2>1. UNCHANGED <<Books, stopper, overlapped>> /\ col.pc = "next" /\ col'.pc = "next"
    BY <1>9, <1>b DEF ReadFails, Books, kernel, memory, rows, Collector
  <2>2. Alone'
    BY <1>a, <2>1 DEF Alone, Books
  <2> QED BY <1>a, <2>1, <2>2, Await DEF IInv
<1>10. ASSUME NEW seen \in SUBSET Devices, Collect(seen) PROVE IInv'
  <2>1. /\ UNCHANGED <<Books, stopper, overlapped>>
        /\ col.pc = "idle" /\ stopper.pc = "off" /\ col'.pc = "next"
    BY <1>10 DEF Collect, ColIdle, Books, kernel, memory, rows
  <2>2. Alone'
    BY <1>a, <2>1 DEF Alone, Books
  <2> QED BY <1>a, <2>1, <2>2, Await DEF IInv
<1>11. ASSUME NEW d \in Devices, FlushExpired(d) PROVE IInv'
  <2>1. /\ UNCHANGED <<Books, stopper, overlapped>> /\ col.pc = "expired"
        /\ \/ col'.pc = "expired"
           \/ col'.pc = "expflush" /\ col'.dev = d /\ col'.bytes = pending[d].bytes
    BY <1>11, <1>b DEF FlushExpired, Books, kernel, memory, rows, Collector
  <2>2. Alone'
    BY <1>a, <2>1 DEF Alone, Books
  <2> QED BY <1>a, <2>1, <2>2, Await DEF IInv
<1>12. CASE FlushOldBucket
  <2>1. /\ UNCHANGED <<Books, stopper, overlapped>> /\ col.pc = "read" /\ col'.pc = "flush"
        /\ col'.dev = col.dev /\ col'.cur = col.cur /\ col'.bytes = pending[col.dev].bytes
    BY <1>12, <1>b DEF FlushOldBucket, Books, kernel, memory, rows, Collector
  <2>2. Alone'
    BY <1>a, <2>1 DEF Alone, Books
  <2> QED BY <1>a, <2>1, <2>2, Await DEF IInv
<1>13. CASE CollectDone
  <2>1. UNCHANGED <<Books, stopper, overlapped>> /\ col.pc = "expired" /\ col'.pc = "idle"
    BY <1>13 DEF CollectDone, ColIdle, Books, kernel, memory, rows
  <2>2. Alone'
    BY <1>a, <2>1 DEF Alone, Books
  <2> QED BY <1>a, <2>1, <2>2, Await DEF IInv
<1>14. ASSUME NEW d \in Devices, StopFlush(d) PROVE IInv'
  <2>1. /\ UNCHANGED <<Books, col, overlapped>> /\ stopper.pc = "next"
        /\ stopper'.pc = "flush" /\ stopper'.dev = d /\ stopper'.bytes = pending[d].bytes
    BY <1>14, <1>b DEF StopFlush, Books, kernel, memory, rows, Stopper
  <2>2. Alone'
    BY <1>a, <2>1 DEF Alone, Books
  <2> QED BY <1>a, <2>1, <2>2, Await DEF IInv
<1>15. CASE UNCHANGED vars
  <2>1. UNCHANGED <<Books, col, stopper, overlapped>>
    BY <1>15 DEF vars, Books, kernel, memory, rows
  <2>2. Alone'
    BY <1>a, <2>1 DEF Alone, Books
  <2> QED BY <1>a, <2>1, <2>2, Await DEF IInv
<1>16. ASSUME NEW d \in Devices, ReadUsage(d) PROVE IInv'
  <2>1. /\ UNCHANGED <<counter, moved, recreated, previous, pending, samples, usage,
                       stopper, overlapped>>
        /\ col.pc = "next" /\ col'.pc = "read" /\ col'.dev = d /\ col'.cur = counter[d]
    BY <1>16, <1>b DEF ReadUsage, kernel, memory, rows, Collector
  <2>2. Alone'
    BY <1>a, <2>1 DEF Alone
  <2>3. Gain' = IF previous[d] = None THEN 0 ELSE Delta(counter[d], previous[d])
    BY <2>1 DEF Gain
  <2>4. \A e \in Devices : Mark(e) = previous[e] /\ Mark(e)' = previous[e] /\ Written(e)' = Written(e)
    BY <2>1 DEF Mark, Written
  <2>5. Counters'
    BY <2>1, <1>a, Fields DEF IInv, Counters, Busy
  <2>6. UsageCovered'
    <3>1. Covered(usage[d] + Gain', counter[d], counter[d], moved[d])
      BY <1>a, <2>3, Fields, Reads DEF IInv, UsageCovered
    <3> QED BY <2>1, <3>1 DEF IInv, UsageCovered
  <2>7. HistoryCovered'
    <3>1. ASSUME ~overlapped PROVE Covered(Written(d) + Gain', counter[d], counter[d], moved[d])
      <4>1. Covered(Written(d), previous[d], counter[d], moved[d])
        BY <2>4, <3>1 DEF IInv, HistoryCovered
      <4>2. /\ Written(d) \in Nat /\ counter[d] \in Nat /\ moved[d] \in Nat
            /\ previous[d] \in Nat \cup {None}
        BY <1>a, Fields
      <4> QED BY <2>3, <4>1, <4>2, Reads
    <3> QED BY <2>1, <2>4, <3>1 DEF IInv, HistoryCovered
  <2> QED BY <1>a, <2>2, <2>5, <2>6, <2>7 DEF IInv
<1>17. CASE Baseline
  <2>1. /\ UNCHANGED <<counter, moved, recreated, pending, samples, usage, stopper, overlapped>>
        /\ col.pc = "read" /\ col'.pc = "next" /\ previous[col.dev] = None
        /\ previous' = [previous EXCEPT ![col.dev] = col.cur]
    BY <1>17, <1>b DEF Baseline, kernel, rows, Collector
  <2>2. Alone'
    BY <1>a, <2>1 DEF Alone
  <2>3. Busy /\ ~Busy' /\ Gain = 0 /\ col.dev \in Devices /\ Written(col.dev) \in Nat
    BY <1>a, <2>1, Fields DEF Busy, Gain
  <2>4. ~overlapped => Covered(Written(col.dev), col.cur, counter[col.dev], moved[col.dev])
    BY <2>1, <2>3 DEF IInv, HistoryCovered
  <2>5. \A e \in Devices : Written(e)' = Written(e)
    BY <2>1 DEF Written
  <2> QED BY <1>a, <2>1, <2>2, <2>3, <2>4, <2>5, Sampled DEF IInv
<1>18. CASE NothingMoved
  <2>1. /\ UNCHANGED <<counter, moved, recreated, pending, samples, usage, stopper, overlapped>>
        /\ col.pc = "read" /\ col'.pc = "next" /\ previous[col.dev] # None
        /\ Delta(col.cur, previous[col.dev]) <= 0
        /\ previous' = [previous EXCEPT ![col.dev] = col.cur]
    BY <1>18, <1>b DEF NothingMoved, kernel, rows, Collector
  <2>2. Alone'
    BY <1>a, <2>1 DEF Alone
  <2>3. Busy /\ ~Busy' /\ Gain <= 0 /\ Gain \in Nat /\ col.dev \in Devices /\ Written(col.dev) \in Nat
    BY <1>a, <2>1, Fields DEF Busy, Gain
  <2>4. ~overlapped => Covered(Written(col.dev), col.cur, counter[col.dev], moved[col.dev])
    BY <2>1, <2>3 DEF IInv, HistoryCovered
  <2>5. \A e \in Devices : Written(e)' = Written(e)
    BY <2>1 DEF Written
  <2> QED BY <1>a, <2>1, <2>2, <2>3, <2>4, <2>5, Sampled DEF IInv
<1>19. CASE Charge
  <2>1. /\ UNCHANGED <<counter, moved, recreated, pending, samples, stopper, overlapped>>
        /\ col.pc = "charge" /\ col'.pc = "next"
        /\ previous' = [previous EXCEPT ![col.dev] = col.cur]
    BY <1>19, <1>b DEF Charge, kernel, Collector
  <2>2. Alone'
    BY <1>a, <2>1 DEF Alone
  <2>3. /\ Busy /\ ~Busy' /\ col.dev \in Devices
        /\ Gain = Delta(col.cur, previous[col.dev])
    BY <1>a, <2>1 DEF TInv, Positions, Busy, Gain
  <2>4. usage' \in {usage, [usage EXCEPT ![col.dev] = @ + Gain]}
    BY <1>19, <2>3 DEF Charge
  <2>5. ~overlapped => Covered(Written(col.dev), col.cur, counter[col.dev], moved[col.dev])
    BY <2>1, <2>3 DEF IInv, HistoryCovered, Mark
  <2>6. \A e \in Devices : Written(e)' = Written(e)
    BY <2>1 DEF Written
  <2> QED BY <1>a, <2>1, <2>2, <2>3, <2>4, <2>5, <2>6, Sampled DEF IInv
<1>20. CASE Forget
  <2>1. /\ UNCHANGED <<counter, moved, recreated, pending, samples, usage, stopper, overlapped>>
        /\ col.pc = "next" /\ col'.pc = "expired"
        /\ \A d \in Devices : previous'[d] \in {None, previous[d]}
    BY <1>20, <1>b DEF Forget, kernel, rows, Collector
  <2>2. Alone'
    BY <1>a, <2>1 DEF Alone
  <2>3. /\ ~Busy'
        /\ \A d \in Devices : Mark(d)' \in {None, Mark(d)} /\ Written(d)' = Written(d)
    BY <2>1 DEF Busy, Mark, Written
  <2> QED BY <1>a, <2>1, <2>2, <2>3, Forgotten, Fields DEF IInv
<1>21. CASE AddToBucket
  <2>1. /\ UNCHANGED <<counter, moved, recreated, previous, samples, usage, stopper, overlapped>>
        /\ col.pc = "read" /\ col'.pc = "charge" /\ previous[col.dev] # None
        /\ col'.dev = col.dev /\ col'.cur = col.cur
    BY <1>21, <1>b DEF AddToBucket, kernel, rows, Collector
  <2>2. /\ Busy /\ col.dev \in Devices /\ Gain = Delta(col.cur, previous[col.dev])
        /\ Gain \in Nat
    BY <1>a, <2>1, Fields DEF Busy, Gain
  <2>3. pending' = [pending EXCEPT ![col.dev] =
                       [minute |-> col.now, bytes |-> pending[col.dev].bytes + Gain]]
    BY <1>21, <2>2 DEF AddToBucket
  <2>4. /\ Written(col.dev)' = Written(col.dev) + Gain
        /\ \A e \in Devices : e # col.dev => Written(e)' = Written(e)
    BY <1>a, <1>b, <2>1, <2>2, <2>3, Fields DEF Written
  <2> QED BY <1>a, <2>1, <2>2, <2>4, Bucketed
<1>22. CASE OldBucketFlushed
  <2>1. /\ UNCHANGED <<counter, moved, recreated, previous, usage, stopper, overlapped>>
        /\ col.pc = "flush" /\ col'.pc = "charge" /\ previous[col.dev] # None
        /\ col'.dev = col.dev /\ col'.cur = col.cur
    BY <1>22, <1>a, <1>b DEF OldBucketFlushed, kernel, Collector, TInv, Positions
  <2>2. /\ Busy /\ col.dev \in Devices /\ Gain = Delta(col.cur, previous[col.dev])
        /\ Gain \in Nat
    BY <1>a, <2>1, Fields DEF Busy, Gain
  <2>3. /\ pending' = [pending EXCEPT ![col.dev] = [minute |-> col.now, bytes |-> Gain]]
        /\ samples' = [samples EXCEPT ![col.dev] = @ + col.bytes]
    BY <1>22, <2>2 DEF OldBucketFlushed
  <2>4. /\ ~overlapped => Written(col.dev)' = Written(col.dev) + Gain
        /\ \A e \in Devices : e # col.dev => Written(e)' = Written(e)
    BY <1>a, <1>b, <2>1, <2>2, <2>3, Fields DEF Written, Alone
  <2> QED BY <1>a, <2>1, <2>2, <2>4, Bucketed
<1>23. CASE ExpiredFlushed
  <2>1. /\ UNCHANGED <<counter, moved, recreated, previous, usage, stopper, overlapped>>
        /\ col.pc = "expflush" /\ col'.pc = "expired" /\ col.dev \in Devices
        /\ pending' = [pending EXCEPT ![col.dev] = NoBucket]
        /\ samples' = [samples EXCEPT ![col.dev] = @ + col.bytes]
    BY <1>23, <1>a, <1>b DEF ExpiredFlushed, kernel, Collector, TInv, Positions
  <2>2. Alone'
    BY <1>a, <2>1 DEF Alone
  <2>3. ~overlapped => \A e \in Devices : Written(e)' = Written(e)
    BY <1>a, <1>b, <2>1, Fields DEF Written, Alone, NoBucket
  <2>4. ~Busy /\ ~Busy'
    BY <2>1 DEF Busy
  <2> QED BY <1>a, <2>1, <2>2, <2>3, <2>4, Flushed DEF IInv
<1>24. CASE StopFlushed
  <2>1. /\ UNCHANGED <<counter, moved, recreated, previous, usage, col, overlapped>>
        /\ stopper.pc = "flush" /\ stopper'.pc = "next" /\ stopper.dev \in Devices
        /\ pending' = [pending EXCEPT ![stopper.dev] = NoBucket]
        /\ samples' = [samples EXCEPT ![stopper.dev] = @ + stopper.bytes]
    BY <1>24, <1>a, <1>b DEF StopFlushed, kernel, Stopper, TInv, Positions
  <2>2. Alone'
    BY <1>a, <2>1 DEF Alone
  <2>3. ~overlapped => \A e \in Devices : Written(e)' = Written(e)
    BY <1>a, <1>b, <2>1, Fields DEF Written, Alone, NoBucket
  <2>4. ~overlapped => col.pc = "idle"
    BY <1>a, <2>1 DEF Alone
  <2> QED BY <1>a, <2>1, <2>2, <2>3, <2>4, Flushed DEF IInv
<1> QED
  BY <1>1, <1>2, <1>3, <1>4, <1>5, <1>6, <1>7, <1>8, <1>9, <1>10, <1>11, <1>12, <1>13, <1>14,
     <1>15, <1>16, <1>17, <1>18, <1>19, <1>20, <1>21, <1>22, <1>23, <1>24
  DEF Next, Environment, Failure, CollectorStep, StopperStep

LEMMA Invariance == Spec => []IInv
  BY InitInv, NextInv, PTL DEF Spec

-----------------------------------------------------------------------------
\* What a step changes of what is known of a device whose counter was never
\* recreated.

ExactlyKnown ==
    \A d \in Devices \ recreated : previous[d] # None =>
        /\ Mark(d) \in Nat /\ Mark(d) <= counter[d]
        /\ Written(d) \in Nat /\ counter[d] \in Nat /\ moved[d] \in Nat
        /\ Known(d) = Written(d) + counter[d] - Mark(d)

LEMMA Exact == IInv => ExactlyKnown
<1> SUFFICES ASSUME IInv, NEW d \in Devices \ recreated, previous[d] # None
             PROVE  /\ Mark(d) \in Nat /\ Mark(d) <= counter[d]
                    /\ Written(d) \in Nat /\ counter[d] \in Nat /\ moved[d] \in Nat
                    /\ Known(d) = Written(d) + counter[d] - Mark(d)
  BY DEF ExactlyKnown
<1>1. /\ previous[d] \in Nat /\ col.cur \in Nat /\ counter[d] \in Nat
      /\ moved[d] \in Nat /\ Written(d) \in Nat
  BY Fields DEF IInv
<1>2. Mark(d) \in Nat /\ Mark(d) <= counter[d]
  BY <1>1 DEF IInv, Counters, Mark, Busy
<1>3. Mark(d) # None
  BY <1>2 DEF None
<1> QED BY <1>1, <1>2, <1>3 DEF Known, Written, Delta

\* What was known grows by what was transferred: bytes only move between the
\* counter beyond the mark, the bucket and the row.
Balanced(d) ==
    \/ d \in recreated' \/ overlapped' \/ previous[d] = None \/ previous'[d] = None
    \/ /\ d \notin recreated
       /\ counter'[d] + moved[d] = counter[d] + moved'[d]
       /\ Written(d)' + Mark(d) = Written(d) + Mark(d)'

LEMMA Balance ==
    ASSUME IInv, [Next]_vars, NEW d \in Devices
    PROVE  Balanced(d)
<1>a. /\ col \in Collector /\ stopper \in Stopper
      /\ counter \in [Devices -> Nat] /\ moved \in [Devices -> Nat]
      /\ previous \in [Devices -> Nat \cup {None}]
      /\ samples \in [Devices -> Nat]
      /\ pending \in [Devices -> {NoBucket} \cup [minute : 0 .. minute, bytes : Nat \ {0}]]
      /\ col.pc \in {"read", "flush", "charge", "expflush"} => col.dev \in Devices
      /\ col.pc \in {"flush", "charge"} => previous[col.dev] # None
      /\ stopper.pc = "flush" => stopper.dev \in Devices
  BY DEF IInv, TInv, AccountingTypeOK, Positions
<1>b. Alone /\ (d \notin recreated /\ Busy /\ col.dev = d => previous[d] <= col.cur)
  BY DEF IInv, Counters
<1>c. /\ counter[d] \in Nat /\ moved[d] \in Nat /\ samples[d] \in Nat
      /\ previous[d] \in Nat \cup {None} /\ pending[d].bytes \in Nat
      /\ col.cur \in Nat /\ col.bytes \in Nat /\ stopper.bytes \in Nat
  BY Fields DEF IInv
<1>d. None \notin Nat
  BY DEF None
<1> USE DEF Balanced, Written, Mark, kernel, memory, rows
<1>1. CASE Tick
  BY <1>1, <1>a, <1>c, <1>d DEF Tick, Collector, Stopper
<1>2. CASE Stop
  BY <1>2, <1>a, <1>c, <1>d DEF Stop, Collector, Stopper
<1>3. CASE FlushFails
  BY <1>3, <1>a, <1>c, <1>d DEF FlushFails, Collector, Stopper
<1>4. CASE ExpiredFails
  BY <1>4, <1>a, <1>c, <1>d DEF ExpiredFails, Collector, Stopper
<1>5. CASE StopFails
  BY <1>5, <1>a, <1>c, <1>d DEF StopFails, Collector, Stopper
<1>6. ASSUME NEW e \in Devices, ReadFails(e) PROVE Balanced(d)
  BY <1>6, <1>a, <1>c, <1>d DEF ReadFails, Collector, Stopper
<1>7. ASSUME NEW seen \in SUBSET Devices, Collect(seen) PROVE Balanced(d)
  BY <1>7, <1>a, <1>c, <1>d DEF Collect, ColIdle, Collector, Stopper
<1>8. ASSUME NEW e \in Devices, ReadUsage(e) PROVE Balanced(d)
  BY <1>8, <1>a, <1>c, <1>d DEF ReadUsage, Collector, Stopper
<1>9. ASSUME NEW e \in Devices, FlushExpired(e) PROVE Balanced(d)
  BY <1>9, <1>a, <1>c, <1>d DEF FlushExpired, Collector, Stopper
<1>10. CASE FlushOldBucket
  BY <1>10, <1>a, <1>c, <1>d DEF FlushOldBucket, Collector, Stopper
<1>11. CASE CollectDone
  BY <1>11, <1>a, <1>c, <1>d DEF CollectDone, ColIdle, Collector, Stopper
<1>12. ASSUME NEW e \in Devices, StopFlush(e) PROVE Balanced(d)
  BY <1>12, <1>a, <1>c, <1>d DEF StopFlush, Collector, Stopper
<1>13. CASE UNCHANGED vars
  BY <1>13, <1>a, <1>c, <1>d DEF vars
<1>14. ASSUME NEW e \in Devices, Transfer(e) PROVE Balanced(d)
  BY <1>14, <1>a, <1>c, <1>d DEF Transfer, Collector, Stopper
<1>15. ASSUME NEW e \in Devices, CounterRecreated(e) PROVE Balanced(d)
  BY <1>15, <1>a, <1>c, <1>d DEF CounterRecreated, Collector, Stopper
<1>16. CASE Exit
  BY <1>16, <1>a, <1>c, <1>d DEF Exit, Collector, Stopper
<1>17. CASE Baseline
  BY <1>17, <1>a, <1>c, <1>d DEF Baseline, Collector, Stopper
<1>18. CASE NothingMoved
  BY <1>18, <1>a, <1>b, <1>c, <1>d DEF NothingMoved, Delta, Busy, Collector, Stopper
<1>19. CASE AddToBucket
  BY <1>19, <1>a, <1>b, <1>c, <1>d DEF AddToBucket, Delta, Busy, Collector, Stopper
<1>20. CASE OldBucketFlushed
  BY <1>20, <1>a, <1>b, <1>c, <1>d DEF OldBucketFlushed, Delta, Busy, Alone, Collector, Stopper
<1>21. CASE Charge
  BY <1>21, <1>a, <1>c, <1>d DEF Charge, Collector, Stopper
<1>22. CASE Forget
  BY <1>22, <1>a, <1>c, <1>d DEF Forget, Collector, Stopper
<1>23. CASE ExpiredFlushed
  BY <1>23, <1>a, <1>b, <1>c, <1>d DEF ExpiredFlushed, NoBucket, Alone, Collector, Stopper
<1>24. CASE StopFlushed
  BY <1>24, <1>a, <1>b, <1>c, <1>d DEF StopFlushed, NoBucket, Alone, Collector, Stopper
<1> QED
  BY <1>1, <1>2, <1>3, <1>4, <1>5, <1>6, <1>7, <1>8, <1>9, <1>10, <1>11, <1>12,
     <1>13, <1>14, <1>15, <1>16, <1>17, <1>18, <1>19, <1>20, <1>21, <1>22, <1>23, <1>24
  DEF Next, Environment, Failure, CollectorStep, StopperStep

LEMMA Conserved ==
    ASSUME IInv, IInv', [Next]_vars, ~overlapped', NEW d \in Devices, d \notin recreated',
           previous[d] # None, previous'[d] # None
    PROVE  Known(d)' - Known(d) = moved'[d] - moved[d]
<1>1. /\ d \notin recreated
      /\ counter'[d] + moved[d] = counter[d] + moved'[d]
      /\ Written(d)' + Mark(d) = Written(d) + Mark(d)'
  BY Balance DEF Balanced
<1>2. /\ Mark(d) \in Nat /\ Written(d) \in Nat /\ counter[d] \in Nat /\ moved[d] \in Nat
      /\ Known(d) = Written(d) + counter[d] - Mark(d)
  BY <1>1, Exact DEF ExactlyKnown
<1>3. /\ Mark(d)' \in Nat /\ Written(d)' \in Nat /\ counter'[d] \in Nat /\ moved'[d] \in Nat
      /\ Known(d)' = Written(d)' + counter'[d] - Mark(d)'
  <2>1. ExactlyKnown'
    BY Exact, PTL
  <2> QED BY <2>1 DEF ExactlyKnown
<1> QED BY <1>1, <1>2, <1>3

-----------------------------------------------------------------------------
\* Nothing that is held is of a wrong kind, and no bucket is empty or of a
\* minute to come (addToHistoryBucket, collectDevice).
THEOREM AccountingTypes == Spec => []AccountingTypeOK
  <1>1. IInv => AccountingTypeOK
    BY DEF IInv, TInv
  <1> QED BY <1>1, Invariance, PTL

\* No byte is counted twice, in the history as long as no stop() overlaps a
\* collect(), in the quota's usage ever (calculateDelta, addToHistoryBucket,
\* the flushes and recordUsage).
THEOREM NothingCountedTwice == Spec => []NeverOvercounted
  <1>1. IInv => NeverOvercounted
    <2> SUFFICES ASSUME IInv, NEW d \in Devices
                 PROVE  /\ ~overlapped => Known(d) <= moved[d]
                        /\ usage[d] <= moved[d]
      BY DEF NeverOvercounted
    <2>1. TInv /\ Mark(d) \in Nat \cup {None}
      BY Fields DEF IInv, Mark
    <2>2. ~overlapped => Known(d) <= moved[d]
      BY <2>1, Fields, Counts DEF IInv, HistoryCovered, Known, Written
    <2>3. usage[d] <= moved[d]
      BY <2>1, Fields, Counts DEF IInv, UsageCovered
    <2> QED BY <2>2, <2>3
  <1> QED BY <1>1, Invariance, PTL

\* No byte is lost on its way from the counter to a row, whatever the flushes,
\* failures and a stop() do meanwhile (collectDevice, the flushes and stop).
THEOREM NothingDropped == Spec => BytesConserved
  <1>1. IInv /\ IInv' /\ [Next]_vars =>
          [ ~overlapped' =>
              \A d \in Devices \ recreated' :
                  (previous[d] # None /\ previous'[d] # None)
                      => Known(d)' - Known(d) = moved'[d] - moved[d] ]_vars
    BY Conserved
  <1> QED BY <1>1, Invariance, PTL DEF Spec, BytesConserved
=============================================================================
