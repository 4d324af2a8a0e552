------------------------------ MODULE Retention -----------------------------
(***************************************************************************)
(* TrafficRetentionService.run and PrismaTrafficSampleRepository.findHistory: *)
(* minute rows are rolled into hourly rows and those into daily rows, by   *)
(* four statements that are no transaction, while rows are written, the    *)
(* history is read and the backend dies and comes back.                    *)
(*                                                                         *)
(* A sample is the bytes of one moment; a row is the set of the samples    *)
(* whose bytes it sums, and a table the set of the samples of its rows:    *)
(* to replace a row is to replace the samples of its hour or day.          *)
(***************************************************************************)
EXTENDS Integers

CONSTANTS
    Hour, Day,             \* the lengths of the two buckets, in moments
    RawWindow,             \* rawWindowMs
    HourlyWindow,          \* hourlyWindowMs
    Interval,              \* intervalMs
    RunTime,               \* how long a run takes at most
    Late,                  \* how long after its moment a sample is written
    Ranges                 \* the durations the history API offers

ASSUME RetentionAssumption ==
    /\ Hour \in Nat \ {0} /\ Day \in Nat \ {0} /\ Day % Hour = 0
    /\ RawWindow \in Nat /\ HourlyWindow \in Nat /\ RawWindow <= HourlyWindow
    /\ Interval \in Nat \ {0} /\ RunTime \in Nat /\ RunTime < Interval
    /\ Late \in Nat /\ Late < RawWindow
    /\ Ranges \subseteq Nat

VARIABLES
    now,         \* the clock
    run,         \* run(): its next statement, when it was called, when the
                 \* timer was set or last fired, and whether start() has
                 \* returned, so that requests are served
    raw,         \* traffic_samples
    hourly,      \* traffic_rollups, hourly
    daily,       \* traffic_rollups, daily
    query,       \* findHistory(): what it has read
    recorded,    \* history: every sample that was written
    outlived     \* history: samples a run found raw beyond the hourly window

tables == <<raw, hourly, daily>>
vars == <<now, run, tables, query, recorded, outlived>>

FloorToHour(t) == Hour * (t \div Hour)
FloorToDay(t) == Day * (t \div Day)

\* "down": no backend; "start": start()'s own run() has not begun; "idle": the
\* timer is set; otherwise the statement that is next.
PCs == {"down", "start", "idle", "hourly", "daily", "dropRaw", "dropHourly"}

\* The query's next read; crossed, history: a run has begun since the first.
Query == [pc : {"none", "hourly", "daily", "answered"}, to : Nat, range : Ranges \cup {0},
          raw : SUBSET Nat, hourly : SUBSET Nat, daily : SUBSET Nat, crossed : BOOLEAN]
NoQuery == [pc |-> "none", to |-> 0, range |-> 0,
            raw |-> {}, hourly |-> {}, daily |-> {}, crossed |-> FALSE]

Init ==
    /\ now = RawWindow + HourlyWindow + Day     \* every cutoff is a time
    /\ run = [pc |-> "start", at |-> now, timer |-> now, serving |-> FALSE]
    /\ raw = {} /\ hourly = {} /\ daily = {}
    /\ query = NoQuery
    /\ recorded = {}
    /\ outlived = {}

\* A cutoff in the middle of an hour.
FaultyRawCutoff == run.at - RawWindow

rawCutoff == FloorToHour(run.at - RawWindow)

\* A cutoff in the middle of a day.
FaultyHourlyCutoff == FloorToHour(run.at - HourlyWindow)

hourlyCutoff == FloorToDay(run.at - HourlyWindow)

-----------------------------------------------------------------------------
\* Time passes, for at most RunTime during a run.
Tick ==
    /\ \/ run.pc = "down"
       \/ run.pc = "idle" /\ now < run.timer + Interval
       \/ run.pc \notin {"down", "idle"} /\ now < run.at + RunTime
    /\ now' = now + 1
    /\ UNCHANGED <<run, tables, query, recorded, outlived>>

\* accumulateBucket, at most Late after the moment of the sample.
Record(t) ==
    /\ run.pc # "down"
    /\ t \in now - Late .. now
    /\ t \notin recorded
    /\ raw' = raw \cup {t}
    /\ recorded' = recorded \cup {t}
    /\ UNCHANGED <<now, run, hourly, daily, query, outlived>>

\* start(), when the backend comes up, and the timer, Interval after it was set
\* or last fired.
Begin ==
    /\ run.pc = "start" \/ (run.pc = "idle" /\ now = run.timer + Interval)
    /\ run' = [run EXCEPT !.pc = "hourly", !.at = now, !.timer = now]
    /\ query' = [query EXCEPT !.crossed = @ \/ query.pc \in {"hourly", "daily"}]
    /\ UNCHANGED <<now, tables, recorded, outlived>>

\* The rows of a bucket are replaced by what is selected for them.
Upsert(rows, Bucket(_), selected) ==
    {t \in rows : \A s \in selected : Bucket(s) # Bucket(t)} \cup selected

\* The first statement: raw hours become hourly rows.
RollUpHours ==
    /\ run.pc = "hourly"
    /\ hourly' = Upsert(hourly, FloorToHour,
                        {t \in raw : t < rawCutoff /\ t >= hourlyCutoff})
    /\ outlived' = outlived \cup {t \in raw : t < hourlyCutoff}
    /\ run' = [run EXCEPT !.pc = "daily"]
    /\ UNCHANGED <<now, raw, daily, query, recorded>>

\* The second: hourly rows before the cutoff become daily rows.
RollUpDays ==
    /\ run.pc = "daily"
    /\ daily' = Upsert(daily, FloorToDay, {t \in hourly : FloorToHour(t) < hourlyCutoff})
    /\ run' = [run EXCEPT !.pc = "dropRaw"]
    /\ UNCHANGED <<now, raw, hourly, query, recorded, outlived>>

\* Raw rows are kept as long as hourly ones.
FaultyDropRaw ==
    /\ run.pc = "dropRaw"
    /\ raw' = {t \in raw : t >= hourlyCutoff}
    /\ run' = [run EXCEPT !.pc = "dropHourly"]
    /\ UNCHANGED <<now, hourly, daily, query, recorded, outlived>>

\* The third.
DropRaw ==
    /\ run.pc = "dropRaw"
    /\ raw' = {t \in raw : t >= rawCutoff}
    /\ run' = [run EXCEPT !.pc = "dropHourly"]
    /\ UNCHANGED <<now, hourly, daily, query, recorded, outlived>>

\* The fourth. start() sets the timer when its own run has ended.
DropHourly ==
    /\ run.pc = "dropHourly"
    /\ hourly' = {t \in hourly : FloorToHour(t) >= hourlyCutoff}
    /\ run' = [run EXCEPT !.pc = "idle", !.serving = TRUE,
                          !.timer = IF run.serving THEN @ ELSE now]
    /\ UNCHANGED <<now, raw, daily, query, recorded, outlived>>

\* The backend dies, as it also does when a statement of a run the timer
\* started fails: nothing catches that.
Die ==
    /\ run.pc # "down"
    /\ run' = [run EXCEPT !.pc = "down", !.serving = FALSE]
    /\ query' = NoQuery
    /\ UNCHANGED <<now, tables, recorded, outlived>>

Start ==
    /\ run.pc = "down"
    /\ run' = [pc |-> "start", at |-> now, timer |-> now, serving |-> FALSE]
    /\ UNCHANGED <<now, tables, query, recorded, outlived>>

-----------------------------------------------------------------------------
\* All raw rows of the range, those that may be rolled up already included.
FaultyAsk(range) ==
    /\ run.serving
    /\ query.pc \in {"none", "answered"}
    /\ query' = [NoQuery EXCEPT
          !.pc = IF range <= RawWindow THEN "answered" ELSE "hourly",
          !.to = now, !.range = range,
          !.raw = {t \in raw : t >= now - range /\ t < now}]
    /\ UNCHANGED <<now, run, tables, recorded, outlived>>

\* findHistory for one device, from now - range to now: the raw rows of the
\* last 48 hours, ...
Ask(range) ==
    /\ run.serving
    /\ query.pc \in {"none", "answered"}
    /\ query' = [NoQuery EXCEPT
          !.pc = IF range <= RawWindow THEN "answered" ELSE "hourly",
          !.to = now, !.range = range,
          !.raw = {t \in raw : t >= now - range /\ t >= now - RawWindow /\ t < now}]
    /\ UNCHANGED <<now, run, tables, recorded, outlived>>

\* The first whole hour of the range is left out.
FaultyReadHourly ==
    /\ query.pc = "hourly"
    /\ query' = [query EXCEPT
          !.pc = IF query.range <= HourlyWindow THEN "answered" ELSE "daily",
          !.hourly = {t \in hourly : /\ FloorToHour(t) > query.to - query.range
                                     /\ FloorToHour(t) >= query.to - HourlyWindow
                                     /\ FloorToHour(t) < query.to - RawWindow}]
    /\ UNCHANGED <<now, run, tables, recorded, outlived>>

\* ... for a range beyond them the hourly rows before, ...
ReadHourly ==
    /\ query.pc = "hourly"
    /\ query' = [query EXCEPT
          !.pc = IF query.range <= HourlyWindow THEN "answered" ELSE "daily",
          !.hourly = {t \in hourly : /\ FloorToHour(t) >= query.to - query.range
                                     /\ FloorToHour(t) >= query.to - HourlyWindow
                                     /\ FloorToHour(t) < query.to - RawWindow}]
    /\ UNCHANGED <<now, run, tables, recorded, outlived>>

\* ... and for one beyond 30 days the daily rows before those.
ReadDaily ==
    /\ query.pc = "daily"
    /\ query' = [query EXCEPT
          !.pc = "answered",
          !.daily = {t \in daily : /\ FloorToDay(t) >= query.to - query.range
                                   /\ FloorToDay(t) < query.to - HourlyWindow}]
    /\ UNCHANGED <<now, run, tables, recorded, outlived>>

-----------------------------------------------------------------------------
Next ==
    \/ Tick \/ Die \/ Start
    \/ \E t \in now - Late .. now : Record(t)
    \/ Begin \/ RollUpHours \/ RollUpDays \/ DropRaw \/ DropHourly
    \/ (\E range \in Ranges : Ask(range)) \/ ReadHourly \/ ReadDaily

Spec == Init /\ [][Next]_vars

-----------------------------------------------------------------------------
\* The types; a row of the roll-ups is of an hour or day that has left its
\* window whole, so that it is never replaced by a part of itself.
RetentionTypeOK ==
    /\ now \in Nat
    /\ run \in [pc : PCs, at : Nat, timer : Nat, serving : BOOLEAN]
    /\ query \in Query
    /\ raw \subseteq 0 .. now
    /\ hourly \subseteq {t \in 0 .. now : FloorToHour(t) + Hour <= now - RawWindow}
    /\ daily \subseteq {t \in 0 .. now : FloorToDay(t) + Day <= now - HourlyWindow}
    /\ recorded \subseteq 0 .. now
    /\ outlived \subseteq recorded

\* Whatever statement a run dies in, and whatever is written meanwhile, the
\* bytes of every sample are in a row of one of the tables: no row is replaced
\* by one that has lost a part of its hour or day, and nothing is deleted that
\* has not been rolled up, samples apart that no run saw for a whole
\* HourlyWindow.
NothingLost == recorded \subseteq raw \cup hourly \cup daily \cup outlived

\* "preserving long-term daily/hourly aggregates" (line 15): the same, without
\* the exception.
LongTermPreserved == recorded \subseteq raw \cup hourly \cup daily

\* From the call of a run to the end of the next: the timer is set at the end of
\* start()'s run, and it calls the next one Interval later.
Lag == RunTime + Interval + RunTime

\* "Keeps fine-grained traffic history bounded" (line 15): while requests are
\* served, what is older than its window, one interval and two runs is gone.
HistoryBounded ==
    run.serving =>
        /\ \A t \in raw : t >= FloorToHour(now - RawWindow - Lag)
        /\ \A t \in hourly : FloorToHour(t) >= FloorToDay(now - HourlyWindow - Lag)

\* No answer counts the bytes of a sample in two of its rows, although between
\* the statements of a run the tables overlap and the reads come one by one;
\* unless a run begins between the reads.
NeverTwice ==
    ~query.crossed =>
        /\ query.raw \cap query.hourly = {}
        /\ query.raw \cap query.daily = {}
        /\ query.hourly \cap query.daily = {}

\* From what the last run has rolled up to where the answer's raw rows begin.
Hole == FloorToHour(query.to - RawWindow - Lag) .. query.to - RawWindow - 1

\* Apart from that hole, of up to two hours and two runs two days ago, and from
\* the hour it begins in, the history of a day, week or month has every sample.
HistoryComplete ==
    (query.pc = "answered" /\ query.range <= HourlyWindow /\ ~query.crossed) =>
        \A t \in recorded \ outlived :
            (FloorToHour(t) >= query.to - query.range /\ t < query.to - Late /\ t \notin Hole)
                => t \in query.raw \cup query.hourly
=============================================================================
