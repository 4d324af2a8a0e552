--------------------------- MODULE RetentionProofs --------------------------
(***************************************************************************)
(* For any lengths of hours, days and windows: no sample is lost by the    *)
(* roll-up, whichever statements a run gets to; the tables keep to their   *)
(* windows; and what the history answers, although its reads and the       *)
(* statements of a run interleave.                                         *)
(*                                                                         *)
(* The argument: rolling up never takes anything out of the table it       *)
(* writes (RollUpHoursKeeps, RollUpDaysKeeps), because an hour (day) that  *)
(* is rolled up again is still whole in the table it is rolled up from;    *)
(* and each deletion finds what it drops in the next table. The bounds     *)
(* follow from the time of the last run (BoundInv), and the answers from   *)
(* where a sample can be at a given age (Places, QueryInv).                *)
(***************************************************************************)
EXTENDS Retention, TLAPS

\* hourly and daily hold what the cutoffs of the last run allow.
TableTypes ==
    /\ now \in Nat /\ now >= RawWindow + HourlyWindow + Day
    /\ run \in [pc : PCs, at : Nat, timer : Nat, serving : BOOLEAN]
    /\ run.at <= now /\ run.at >= RawWindow + HourlyWindow + Day
    /\ raw \subseteq recorded /\ recorded \subseteq 0 .. now
    /\ outlived \subseteq recorded
    /\ hourly \subseteq {t \in 0 .. now : FloorToHour(t) + Hour <= run.at - RawWindow}
    /\ daily \subseteq {t \in 0 .. now : FloorToDay(t) + Day <= run.at - HourlyWindow}

\* Of an hour that has raw rows left, no hourly row is without its raw rows;
\* the same of days and hourly rows.
HoursWhole ==
    \A s \in raw, t \in hourly : FloorToHour(s) = FloorToHour(t) => t \in raw
DaysWhole ==
    \A s \in hourly, t \in daily : FloorToDay(s) = FloorToDay(t) => t \in hourly

\* What the statements that are still to come will drop is in the next table.
RawCopied ==
    run.pc \in {"daily", "dropRaw"} =>
        \A t \in raw : t < rawCutoff => t \in hourly \cup outlived
HourlyCopied ==
    run.pc \in {"dropRaw", "dropHourly"} =>
        \A t \in hourly : FloorToHour(t) < hourlyCutoff => t \in daily

\* How long ago the last run was, and what it has left behind.  The timer is set
\* at the end of start()'s run, and fires at the begin of every other.
BoundInv ==
    /\ run.pc \notin {"down", "idle"} => now <= run.at + RunTime
    /\ run.pc = "idle" => run.serving /\ now <= run.timer + Interval
    /\ run.serving => run.pc \notin {"down", "start"} /\ run.timer <= run.at + RunTime
    /\ run.serving /\ run.pc # "idle" => run.timer = run.at
    /\ run.pc \in {"dropHourly", "idle"} => \A t \in raw : t >= rawCutoff
    /\ run.pc = "idle" => \A t \in hourly : FloorToHour(t) >= hourlyCutoff
    /\ run.serving /\ run.pc # "idle" =>
          /\ \A t \in raw : t >= FloorToHour(run.at - RunTime - Interval - RawWindow)
          /\ \A t \in hourly :
                FloorToHour(t) >= FloorToDay(run.at - RunTime - Interval - HourlyWindow)

\* The samples that an answer must have, and what it may hold so far.
Expected(t) ==
    /\ FloorToHour(t) >= query.to - query.range
    /\ t < query.to - Late /\ t \notin Hole

QueryInv ==
    /\ query.pc = "none" => query.raw = {}
    /\ query.pc \in {"none", "hourly"} => query.hourly = {}
    /\ query.pc \in {"none", "hourly", "daily"} => query.daily = {}
    /\ query.pc # "none" => query.to <= now
    /\ run.pc = "down" => query.pc = "none"
    /\ query.pc = "daily" => query.range > HourlyWindow
    /\ \A t \in query.raw : t >= query.to - RawWindow
    /\ \A t \in query.hourly : t >= query.to - HourlyWindow
    /\ query.pc \in {"hourly", "daily"} /\ ~query.crossed => run.at <= query.to
    /\ query.pc = "hourly" /\ ~query.crossed /\ query.range <= HourlyWindow =>
          \A t \in recorded \ outlived :
              Expected(t) => t \in query.raw \/ (t \in hourly /\ t < query.to - RawWindow)
    /\ NeverTwice /\ HistoryComplete

IInv ==
    /\ TableTypes /\ query \in Query
    /\ HoursWhole /\ DaysWhole
    /\ RawCopied /\ HourlyCopied
    /\ NothingLost

-----------------------------------------------------------------------------
\* The floor of t to a multiple of n.
LEMMA FloorBounds ==
    ASSUME NEW n \in Nat \ {0}, NEW t \in Int
    PROVE  n * (t \div n) \in Int /\ n * (t \div n) <= t /\ t < n * (t \div n) + n
  BY SMT

\* It is on the same side of every multiple as t.
LEMMA FloorSide ==
    ASSUME NEW n \in Nat \ {0}, NEW t \in Int, NEW k \in Int
    PROVE  /\ t >= n * k => n * (t \div n) >= n * k
           /\ t < n * k => n * (t \div n) + n <= n * k
  <1> DEFINE q == t \div n
  <1>1. q \in Int /\ n * q \in Int /\ n * k \in Int /\ n * q <= t /\ t < n * q + n
    BY FloorBounds
  <1> HIDE DEF q
  <1>2. CASE k <= q
    <2>1. n * k <= n * q
      BY <1>1, <1>2
    <2> QED BY <1>1, <2>1 DEF q
  <1>3. CASE q + 1 <= k
    <2>1. n * (q + 1) <= n * k
      BY <1>1, <1>3
    <2>2. n * (q + 1) = n * q + n
      BY <1>1
    <2> QED BY <1>1, <2>1, <2>2 DEF q
  <1> QED BY <1>1, <1>2, <1>3

LEMMA MultipleOfMultiple ==
    ASSUME NEW n \in Nat \ {0}, NEW d \in Nat \ {0}, d % n = 0, NEW k \in Int
    PROVE  \E j \in Int : d * k = n * j
  <1>1. d = n * (d \div n)
    OBVIOUS
  <1>2. d * k = n * ((d \div n) * k)
    BY <1>1
  <1>3. (d \div n) * k \in Int
    OBVIOUS
  <1> QED BY <1>2, <1>3

\* What the statements use of the two cutoffs and of the buckets.  at is the
\* time of the run.
LEMMA Cutoffs ==
    ASSUME NEW t \in Int, NEW x \in Int
    PROVE  /\ FloorToHour(t) \in Int /\ FloorToHour(t) <= t /\ t < FloorToHour(t) + Hour
           /\ FloorToDay(t) \in Int /\ FloorToDay(t) <= t /\ t < FloorToDay(t) + Day
           /\ t >= FloorToHour(x) => FloorToHour(t) >= FloorToHour(x)
           /\ t < FloorToHour(x) => FloorToHour(t) + Hour <= FloorToHour(x)
           /\ t >= FloorToDay(x) => /\ FloorToHour(t) >= FloorToDay(x)
                                    /\ FloorToDay(t) >= FloorToDay(x)
           /\ t < FloorToDay(x) => FloorToDay(t) + Day <= FloorToDay(x)
  <1> USE RetentionAssumption
  <1>1. /\ FloorToHour(t) \in Int /\ FloorToHour(t) <= t /\ t < FloorToHour(t) + Hour
        /\ FloorToDay(t) \in Int /\ FloorToDay(t) <= t /\ t < FloorToDay(t) + Day
    BY FloorBounds DEF FloorToHour, FloorToDay
  <1>2. /\ t >= FloorToHour(x) => FloorToHour(t) >= FloorToHour(x)
        /\ t < FloorToHour(x) => FloorToHour(t) + Hour <= FloorToHour(x)
    <2>1. x \div Hour \in Int
      OBVIOUS
    <2> QED BY <2>1, FloorSide DEF FloorToHour
  <1>3. /\ t >= FloorToDay(x) => FloorToDay(t) >= FloorToDay(x)
        /\ t < FloorToDay(x) => FloorToDay(t) + Day <= FloorToDay(x)
    <2>1. x \div Day \in Int
      OBVIOUS
    <2> QED BY <2>1, FloorSide DEF FloorToDay
  <1>4. t >= FloorToDay(x) => FloorToHour(t) >= FloorToDay(x)
    <2>1. x \div Day \in Int
      OBVIOUS
    <2>2. \E j \in Int : Day * (x \div Day) = Hour * j
      <3> DEFINE k == x \div Day
      <3>1. k \in Int
        BY <2>1
      <3> HIDE DEF k
      <3>2. \E j \in Int : Day * k = Hour * j
        <4>1. Hour \in Nat \ {0} /\ Day \in Nat \ {0} /\ Day % Hour = 0
          BY RetentionAssumption
        <4> QED BY <3>1, <4>1, MultipleOfMultiple
      <3> QED BY <3>2 DEF k
    <2>3. PICK j \in Int : FloorToDay(x) = Hour * j
      BY <2>2 DEF FloorToDay
    <2> QED BY <2>3, FloorSide DEF FloorToHour
  <1> QED BY <1>1, <1>2, <1>3, <1>4

LEMMA Rounding ==
    ASSUME NEW a \in Int, NEW t \in Int
    PROVE  /\ FloorToHour(t) + Hour <= a => FloorToHour(t) + Hour <= FloorToHour(a)
           /\ FloorToDay(t) + Day <= a => FloorToDay(t) + Day <= FloorToDay(a)
  <1> USE RetentionAssumption
  <1>1. FloorToHour(t) \in Int /\ FloorToDay(t) \in Int
    BY Cutoffs
  <1>2. ASSUME FloorToHour(t) + Hour <= a PROVE FloorToHour(t) + Hour <= FloorToHour(a)
    <2>1. t \div Hour + 1 \in Int /\ Hour * (t \div Hour + 1) = FloorToHour(t) + Hour
      BY DEF FloorToHour
    <2> QED BY <1>2, <2>1, FloorSide DEF FloorToHour
  <1>3. ASSUME FloorToDay(t) + Day <= a PROVE FloorToDay(t) + Day <= FloorToDay(a)
    <2>1. t \div Day + 1 \in Int /\ Day * (t \div Day + 1) = FloorToDay(t) + Day
      BY DEF FloorToDay
    <2> QED BY <1>3, <2>1, FloorSide DEF FloorToDay
  <1> QED BY <1>2, <1>3

\* The cutoffs of the last run, and the hours and days before them.
LEMMA CutoffTypes ==
    ASSUME TableTypes
    PROVE  /\ run.at \in Nat /\ run.at <= now
           /\ rawCutoff \in Int /\ rawCutoff <= run.at - RawWindow
           /\ hourlyCutoff \in Int /\ hourlyCutoff <= run.at - HourlyWindow
  <1> USE RetentionAssumption
  <1>1. run.at \in Nat /\ run.at - RawWindow \in Int /\ run.at - HourlyWindow \in Int
    BY DEF TableTypes
  <1> QED BY <1>1, Cutoffs DEF rawCutoff, hourlyCutoff, TableTypes

LEMMA Sides ==
    ASSUME TableTypes, NEW t \in Int
    PROVE  /\ FloorToHour(t) \in Int /\ FloorToDay(t) \in Int
           /\ t < rawCutoff <=> FloorToHour(t) < rawCutoff
           /\ t < rawCutoff <=> FloorToHour(t) + Hour <= run.at - RawWindow
           /\ t < hourlyCutoff <=> FloorToHour(t) < hourlyCutoff
           /\ t < hourlyCutoff <=> FloorToDay(t) < hourlyCutoff
           /\ t < hourlyCutoff <=> FloorToDay(t) + Day <= run.at - HourlyWindow
  <1> USE RetentionAssumption
  <1> DEFINE a == run.at - RawWindow
             b == run.at - HourlyWindow
  <1>1. a \in Int /\ b \in Int
    BY DEF TableTypes
  <1>2. /\ rawCutoff = FloorToHour(a) /\ rawCutoff \in Int /\ rawCutoff <= a
        /\ hourlyCutoff = FloorToDay(b) /\ hourlyCutoff \in Int /\ hourlyCutoff <= b
    BY CutoffTypes DEF rawCutoff, hourlyCutoff
  <1> HIDE DEF a, b
  <1>3. /\ FloorToHour(t) \in Int /\ FloorToHour(t) <= t /\ t < FloorToHour(t) + Hour
        /\ FloorToDay(t) \in Int /\ FloorToDay(t) <= t /\ t < FloorToDay(t) + Day
    BY Cutoffs
  <1>4. /\ t >= rawCutoff => FloorToHour(t) >= rawCutoff
        /\ t < rawCutoff => FloorToHour(t) + Hour <= rawCutoff
    BY <1>1, <1>2, Cutoffs
  <1>5. /\ t >= hourlyCutoff => FloorToHour(t) >= hourlyCutoff /\ FloorToDay(t) >= hourlyCutoff
        /\ t < hourlyCutoff => FloorToDay(t) + Day <= hourlyCutoff
    BY <1>1, <1>2, Cutoffs
  <1>6. /\ FloorToHour(t) + Hour <= a => FloorToHour(t) + Hour <= rawCutoff
        /\ FloorToDay(t) + Day <= b => FloorToDay(t) + Day <= hourlyCutoff
    BY <1>1, <1>2, Rounding
  <1> QED BY <1>1, <1>2, <1>3, <1>4, <1>5, <1>6 DEF a, b

-----------------------------------------------------------------------------
\* Replacing the rows of the selected hours loses none of the old hourly rows:
\* each is selected again.
LEMMA RollUpHoursKeeps ==
    ASSUME TableTypes, HoursWhole, RollUpHours
    PROVE  hourly \subseteq hourly'
  <1> SUFFICES ASSUME NEW t \in hourly, t \notin hourly' PROVE FALSE
    OBVIOUS
  <1> DEFINE selected == {s \in raw : s < rawCutoff /\ s >= hourlyCutoff}
  <1>1. PICK s \in selected : FloorToHour(s) = FloorToHour(t)
    BY DEF RollUpHours, Upsert
  <1>2. t \in raw
    BY <1>1 DEF HoursWhole
  <1>3. s \in Int /\ t \in Int
    BY <1>2 DEF TableTypes
  <1>4. FloorToHour(s) < rawCutoff /\ ~(FloorToHour(s) < hourlyCutoff)
    BY <1>1, <1>3, CutoffTypes, Sides
  <1>5. t < rawCutoff /\ ~(t < hourlyCutoff)
    BY <1>1, <1>3, <1>4, Sides
  <1>6. t >= hourlyCutoff
    BY <1>3, <1>5, CutoffTypes
  <1> QED BY <1>2, <1>5, <1>6 DEF RollUpHours, Upsert

LEMMA RollUpDaysKeeps ==
    ASSUME TableTypes, DaysWhole, RollUpDays
    PROVE  daily \subseteq daily'
  <1> SUFFICES ASSUME NEW t \in daily, t \notin daily' PROVE FALSE
    OBVIOUS
  <1> DEFINE selected == {s \in hourly : FloorToHour(s) < hourlyCutoff}
  <1>1. PICK s \in selected : FloorToDay(s) = FloorToDay(t)
    BY DEF RollUpDays, Upsert
  <1>2. t \in hourly
    BY <1>1 DEF DaysWhole
  <1>3. s \in Int /\ t \in Int
    BY <1>2 DEF TableTypes
  <1>4. FloorToDay(s) < hourlyCutoff
    BY <1>1, <1>3, Sides
  <1>5. FloorToHour(t) < hourlyCutoff
    BY <1>1, <1>3, <1>4, Sides
  <1> QED BY <1>2, <1>5 DEF RollUpDays, Upsert

-----------------------------------------------------------------------------
LEMMA InitInv == Init => IInv
  BY RetentionAssumption
  DEF Init, IInv, TableTypes, PCs, NoQuery, Query, HoursWhole, DaysWhole,
      RawCopied, HourlyCopied, NothingLost

\* The queries read, and change nothing.
LEMMA QueryTypes ==
    ASSUME query \in Query, now \in Nat, raw \subseteq Nat, hourly \subseteq Nat,
           daily \subseteq Nat, [Next]_vars
    PROVE  query' \in Query
  <1> USE DEF Query
  <1>1. CASE UNCHANGED query
    BY <1>1
  <1>2. CASE Die
    BY <1>2 DEF Die, NoQuery
  <1>3. CASE Begin
    BY <1>3 DEF Begin
  <1>4. ASSUME NEW range \in Ranges, Ask(range) PROVE query' \in Query
    BY <1>4 DEF Ask, NoQuery
  <1>5. CASE ReadHourly
    BY <1>5 DEF ReadHourly
  <1>6. CASE ReadDaily
    BY <1>6 DEF ReadDaily
  <1> QED BY <1>1, <1>2, <1>3, <1>4, <1>5, <1>6
          DEF Next, vars, Tick, Start, Record, RollUpHours, RollUpDays, DropRaw, DropHourly

\* What has left its window once stays out of it: run.at only grows.
LEMMA LaterCutoffs ==
    ASSUME TableTypes, NEW a \in Nat, run.at <= a
    PROVE  /\ hourly \subseteq {t \in 0 .. now : FloorToHour(t) + Hour <= a - RawWindow}
           /\ daily \subseteq {t \in 0 .. now : FloorToDay(t) + Day <= a - HourlyWindow}
  <1> USE RetentionAssumption
  <1>1. /\ \A t \in hourly : t \in 0 .. now /\ FloorToHour(t) + Hour <= run.at - RawWindow
        /\ \A t \in daily : t \in 0 .. now /\ FloorToDay(t) + Day <= run.at - HourlyWindow
        /\ now \in Nat /\ run.at \in Nat
    BY DEF TableTypes
  <1>2. /\ \A t \in hourly : FloorToHour(t) \in Int
        /\ \A t \in daily : FloorToDay(t) \in Int
    BY <1>1, Sides
  <1>3. /\ \A t \in hourly : FloorToHour(t) + Hour <= a - RawWindow
        /\ \A t \in daily : FloorToDay(t) + Day <= a - HourlyWindow
    BY <1>1, <1>2
  <1> QED BY <1>1, <1>3

LEMMA NextInv == IInv /\ [Next]_vars => IInv'
<1> SUFFICES ASSUME IInv, [Next]_vars PROVE IInv'
  OBVIOUS
<1> USE RetentionAssumption
<1>a. TableTypes /\ HoursWhole /\ DaysWhole /\ RawCopied /\ HourlyCopied /\ NothingLost
  BY DEF IInv
<1>b. query' \in Query
  BY QueryTypes DEF IInv, TableTypes
<1>1. CASE Tick
  <2>1. TableTypes'
    BY <1>1, <1>a DEF Tick, TableTypes, tables
  <2> QED BY <2>1, <1>1, <1>a, <1>b
          DEF Tick, IInv, HoursWhole, DaysWhole, RawCopied, HourlyCopied, NothingLost,
              rawCutoff, hourlyCutoff, tables
<1>2. CASE Die
  <2>1. TableTypes'
    BY <1>2, <1>a DEF Die, TableTypes, tables, PCs
  <2> QED BY <2>1, <1>2, <1>a, <1>b
          DEF Die, IInv, HoursWhole, DaysWhole, RawCopied, HourlyCopied, NothingLost,
              TableTypes, tables
<1>3. CASE Start
  <2>1. TableTypes'
    <3>1. run'.at = now /\ now \in Nat /\ run.at <= now
      BY <1>3, <1>a DEF Start, TableTypes
    <3> QED BY <1>3, <1>a, <3>1, LaterCutoffs DEF Start, TableTypes, tables, PCs
  <2> QED BY <2>1, <1>3, <1>a, <1>b
          DEF Start, IInv, HoursWhole, DaysWhole, RawCopied, HourlyCopied, NothingLost,
              TableTypes, tables
<1>4. ASSUME NEW u \in now - Late .. now, Record(u) PROVE IInv'
  <2>1. u \in Nat /\ u > run.at - RawWindow
    BY <1>a DEF TableTypes
  <2>2. TableTypes'
    BY <1>4, <1>a, <2>1 DEF Record, TableTypes, tables
  <2>3. \A t \in hourly : FloorToHour(u) # FloorToHour(t)
    <3>1. ~(u < rawCutoff) /\ u \in Int
      BY <1>a, <2>1, CutoffTypes
    <3>2. \A t \in hourly : t \in Int /\ FloorToHour(t) + Hour <= run.at - RawWindow
      BY <1>a DEF TableTypes
    <3> QED BY <1>a, <3>1, <3>2, Sides
  <2>4. HoursWhole'
    BY <1>4, <1>a, <2>3 DEF Record, HoursWhole
  <2>5. RawCopied'
    BY <1>4, <1>a, <2>1, CutoffTypes DEF Record, RawCopied, rawCutoff
  <2> QED BY <2>2, <2>4, <2>5, <1>4, <1>a, <1>b
          DEF Record, IInv, DaysWhole, HourlyCopied, NothingLost, hourlyCutoff
<1>5. CASE Begin
  <2>1. TableTypes'
    <3>1. run'.at = now /\ now \in Nat /\ run.at <= now
      BY <1>5, <1>a DEF Begin, TableTypes
    <3>2. run' \in [pc : PCs, at : Nat, timer : Nat, serving : BOOLEAN]
      BY <1>5, <1>a, <3>1 DEF Begin, TableTypes, PCs
    <3>3. /\ hourly \subseteq {t \in 0 .. now : FloorToHour(t) + Hour <= now - RawWindow}
          /\ daily \subseteq {t \in 0 .. now : FloorToDay(t) + Day <= now - HourlyWindow}
      BY <1>a, <3>1, LaterCutoffs
    <3> QED BY <1>5, <1>a, <3>1, <3>2, <3>3 DEF Begin, TableTypes, tables
  <2> QED BY <2>1, <1>5, <1>a, <1>b
          DEF Begin, IInv, HoursWhole, DaysWhole, RawCopied, HourlyCopied, NothingLost,
              TableTypes, tables
<1>6. CASE RollUpHours
  <2> DEFINE selected == {t \in raw : t < rawCutoff /\ t >= hourlyCutoff}
  <2>1. hourly \subseteq hourly' /\ hourly' \subseteq hourly \cup selected
    BY <1>6, <1>a, RollUpHoursKeeps DEF RollUpHours, Upsert
  <2>2. \A t \in selected : FloorToHour(t) + Hour <= run.at - RawWindow
    BY <1>a, Sides DEF TableTypes
  <2>3. TableTypes'
    <3>1. hourly' \subseteq {t \in 0 .. now : FloorToHour(t) + Hour <= run.at - RawWindow}
      BY <1>a, <2>1, <2>2 DEF TableTypes
    <3>2. {t \in raw : t < hourlyCutoff} \subseteq recorded
      BY <1>a DEF TableTypes
    <3> QED BY <1>6, <1>a, <3>1, <3>2 DEF RollUpHours, TableTypes, PCs
  <2>4. HoursWhole'
    BY <1>6, <1>a, <2>1 DEF RollUpHours, HoursWhole
  <2>5. \A s \in selected, t \in daily : FloorToDay(s) # FloorToDay(t)
    <3> SUFFICES ASSUME NEW s \in selected, NEW t \in daily PROVE FloorToDay(s) # FloorToDay(t)
      OBVIOUS
    <3>1. s \in Int /\ t \in Int /\ FloorToDay(t) + Day <= run.at - HourlyWindow
      BY <1>a DEF TableTypes
    <3>2. ~(s < hourlyCutoff)
      BY <1>a, <3>1, CutoffTypes
    <3> QED BY <1>a, <3>1, <3>2, Sides
  <2>6. DaysWhole'
    BY <1>6, <1>a, <2>1, <2>5 DEF RollUpHours, DaysWhole
  <2>7. RawCopied'
    <3>1. selected \subseteq hourly'
      BY <1>6 DEF RollUpHours, Upsert
    <3>2. \A t \in raw : t >= hourlyCutoff \/ t < hourlyCutoff
      BY <1>a, CutoffTypes DEF TableTypes
    <3> QED BY <1>6, <1>a, <3>1, <3>2 DEF RollUpHours, RawCopied, rawCutoff, TableTypes
  <2>8. HourlyCopied'
    BY <1>6, <1>a DEF RollUpHours, HourlyCopied, TableTypes
  <2> QED BY <2>1, <2>3, <2>4, <2>6, <2>7, <2>8, <1>6, <1>a, <1>b
          DEF RollUpHours, IInv, NothingLost
<1>7. CASE RollUpDays
  <2> DEFINE selected == {t \in hourly : FloorToHour(t) < hourlyCutoff}
  <2>1. daily \subseteq daily' /\ daily' \subseteq daily \cup selected /\ selected \subseteq daily'
    BY <1>7, <1>a, RollUpDaysKeeps DEF RollUpDays, Upsert
  <2>2. \A t \in selected : FloorToDay(t) + Day <= run.at - HourlyWindow
    <3> SUFFICES ASSUME NEW t \in selected PROVE FloorToDay(t) + Day <= run.at - HourlyWindow
      OBVIOUS
    <3>1. t \in Int
      BY <1>a DEF TableTypes
    <3> QED BY <1>a, <3>1, Sides
  <2>3. TableTypes'
    BY <1>7, <1>a, <2>1, <2>2 DEF RollUpDays, TableTypes, PCs
  <2>4. DaysWhole'
    BY <1>7, <1>a, <2>1 DEF RollUpDays, DaysWhole
  <2>5. RawCopied'
    BY <1>7, <1>a DEF RollUpDays, RawCopied, rawCutoff, TableTypes
  <2>6. HourlyCopied'
    BY <1>7, <1>a, <2>1 DEF RollUpDays, HourlyCopied, hourlyCutoff, TableTypes
  <2> QED BY <2>1, <2>3, <2>4, <2>5, <2>6, <1>7, <1>a, <1>b
          DEF RollUpDays, IInv, HoursWhole, NothingLost
<1>8. CASE DropRaw
  <2>1. TableTypes'
    BY <1>8, <1>a DEF DropRaw, TableTypes, PCs
  <2>2. HoursWhole'
    <3> SUFFICES ASSUME NEW s \in raw', NEW t \in hourly, FloorToHour(s) = FloorToHour(t)
                 PROVE  t \in raw'
      BY <1>8 DEF DropRaw, HoursWhole
    <3>1. s \in raw /\ s >= rawCutoff /\ t \in raw
      BY <1>8, <1>a DEF DropRaw, HoursWhole
    <3>2. s \in Int /\ t \in Int
      BY <1>a, <3>1 DEF TableTypes
    <3>3. ~(t < rawCutoff)
      BY <1>a, <3>1, <3>2, CutoffTypes, Sides
    <3> QED BY <1>8, <1>a, <3>1, <3>2, <3>3, CutoffTypes DEF DropRaw
  <2>3. \A t \in raw : t >= rawCutoff \/ t \in hourly \cup outlived
    BY <1>8, <1>a, CutoffTypes DEF DropRaw, RawCopied, TableTypes
  <2>4. NothingLost'
    BY <1>8, <1>a, <2>3 DEF DropRaw, NothingLost
  <2>5. RawCopied' /\ HourlyCopied'
    BY <1>8, <1>a DEF DropRaw, RawCopied, HourlyCopied, hourlyCutoff, TableTypes
  <2> QED BY <2>1, <2>2, <2>4, <2>5, <1>8, <1>a, <1>b DEF DropRaw, IInv, DaysWhole
<1>9. CASE DropHourly
  <2>1. TableTypes'
    BY <1>9, <1>a DEF DropHourly, TableTypes, PCs
  <2>2. DaysWhole'
    <3> SUFFICES ASSUME NEW s \in hourly', NEW t \in daily, FloorToDay(s) = FloorToDay(t)
                 PROVE  t \in hourly'
      BY <1>9 DEF DropHourly, DaysWhole
    <3>1. s \in hourly /\ FloorToHour(s) >= hourlyCutoff /\ t \in hourly
      BY <1>9, <1>a DEF DropHourly, DaysWhole
    <3>2. s \in Int /\ t \in Int
      BY <1>a, <3>1 DEF TableTypes
    <3>3. ~(FloorToHour(s) < hourlyCutoff)
      BY <1>a, <3>1, <3>2, CutoffTypes, Sides
    <3>4. ~(FloorToHour(t) < hourlyCutoff)
      BY <1>a, <3>1, <3>2, <3>3, Sides
    <3>5. FloorToHour(t) >= hourlyCutoff
      BY <1>a, <3>2, <3>4, CutoffTypes, Sides
    <3> QED BY <1>9, <3>1, <3>5 DEF DropHourly
  <2>3. \A t \in hourly : FloorToHour(t) >= hourlyCutoff \/ t \in daily
    <3>1. \A t \in hourly : FloorToHour(t) \in Int
      BY <1>a, Sides DEF TableTypes
    <3> QED BY <1>9, <1>a, <3>1, CutoffTypes DEF DropHourly, HourlyCopied
  <2>4. NothingLost'
    BY <1>9, <1>a, <2>3 DEF DropHourly, NothingLost
  <2>5. RawCopied' /\ HourlyCopied'
    BY <1>9, <1>a DEF DropHourly, RawCopied, HourlyCopied, TableTypes
  <2> QED BY <2>1, <2>2, <2>4, <2>5, <1>9, <1>a, <1>b DEF DropHourly, IInv, HoursWhole
<1>10. CASE UNCHANGED <<now, run, tables, recorded, outlived>>
  <2>1. UNCHANGED <<now, run, raw, hourly, daily, recorded, outlived>>
    BY <1>10 DEF tables
  <2> QED BY <2>1, <1>a, <1>b
          DEF IInv, TableTypes, HoursWhole, DaysWhole, RawCopied, HourlyCopied, NothingLost,
              rawCutoff, hourlyCutoff
<1> QED
  <2>1. (\E range \in Ranges : Ask(range)) \/ ReadHourly \/ ReadDaily \/ UNCHANGED vars
          => UNCHANGED <<now, run, tables, recorded, outlived>>
    BY DEF Ask, ReadHourly, ReadDaily, vars
  <2> QED BY <2>1, <1>1, <1>2, <1>3, <1>4, <1>5, <1>6, <1>7, <1>8, <1>9, <1>10 DEF Next

-----------------------------------------------------------------------------
\* The bounds.

LEMMA FloorsGrow ==
    ASSUME NEW x \in Int, NEW y \in Int, x <= y
    PROVE  /\ FloorToHour(x) \in Int /\ FloorToHour(x) <= FloorToHour(y)
           /\ FloorToDay(x) \in Int /\ FloorToDay(x) <= FloorToDay(y)
  <1>1. /\ FloorToHour(x) \in Int /\ FloorToHour(x) <= x /\ FloorToHour(y) \in Int
        /\ FloorToDay(x) \in Int /\ FloorToDay(x) <= x /\ FloorToDay(y) \in Int
    BY Cutoffs
  <1>2. y >= FloorToHour(x) /\ y >= FloorToDay(x)
    BY <1>1
  <1> QED BY <1>1, <1>2, Cutoffs

LEMMA InitBound == Init => BoundInv
  BY RetentionAssumption DEF Init, BoundInv

LEMMA NextBound == IInv /\ BoundInv /\ [Next]_vars => BoundInv'
<1> SUFFICES ASSUME IInv, BoundInv, [Next]_vars PROVE BoundInv'
  OBVIOUS
<1> USE RetentionAssumption
<1> DEFINE oldRaw == FloorToHour(run.at - RunTime - Interval - RawWindow)
           oldHourly == FloorToDay(run.at - RunTime - Interval - HourlyWindow)
<1>a. /\ TableTypes /\ HoursWhole
      /\ now \in Nat /\ run.at \in Nat /\ run.timer \in Nat /\ run.at <= now
      /\ run \in [pc : PCs, at : Nat, timer : Nat, serving : BOOLEAN]
      /\ \A t \in raw : t \in Int
      /\ \A t \in hourly : t \in Int /\ FloorToHour(t) \in Int
  <2>1. TableTypes /\ HoursWhole
    BY DEF IInv
  <2>2. \A t \in hourly : t \in Int
    BY <2>1 DEF TableTypes
  <2>3. \A t \in hourly : FloorToHour(t) \in Int
    BY <2>1, <2>2, Sides
  <2> QED BY <2>1, <2>2, <2>3 DEF TableTypes
<1>b. /\ rawCutoff \in Int /\ hourlyCutoff \in Int /\ rawCutoff <= run.at - RawWindow
      /\ oldRaw \in Int /\ oldRaw <= rawCutoff
      /\ oldHourly \in Int /\ oldHourly <= hourlyCutoff
  <2>1. /\ run.at - RawWindow \in Int /\ run.at - RunTime - Interval - RawWindow \in Int
        /\ run.at - RunTime - Interval - RawWindow <= run.at - RawWindow
        /\ run.at - HourlyWindow \in Int /\ run.at - RunTime - Interval - HourlyWindow \in Int
        /\ run.at - RunTime - Interval - HourlyWindow <= run.at - HourlyWindow
    BY <1>a
  <2> QED BY <1>a, <2>1, CutoffTypes, FloorsGrow DEF rawCutoff, hourlyCutoff
<1>1. CASE Tick
  BY <1>1, <1>a DEF Tick, BoundInv, tables, rawCutoff, hourlyCutoff
<1>2. CASE Die
  BY <1>2, <1>a DEF Die, BoundInv
<1>3. CASE Start
  BY <1>3, <1>a DEF Start, BoundInv
<1>4. ASSUME NEW u \in now - Late .. now, Record(u) PROVE BoundInv'
  <2>1. u \in Int /\ u >= rawCutoff /\ u >= oldRaw
    BY <1>a, <1>b
  <2> QED BY <1>4, <1>a, <1>b, <2>1 DEF Record, BoundInv, rawCutoff, hourlyCutoff
<1>5. CASE Begin
  <2>1. /\ run'.pc = "hourly" /\ run'.at = now /\ run'.serving = run.serving
        /\ run'.timer = now /\ now' = now /\ raw' = raw /\ hourly' = hourly
    BY <1>5, <1>a DEF Begin, tables
  <2>2. ASSUME run.serving
        PROVE  /\ \A t \in raw : t >= FloorToHour(run'.at - RunTime - Interval - RawWindow)
               /\ \A t \in hourly : FloorToHour(t) >=
                                      FloorToDay(run'.at - RunTime - Interval - HourlyWindow)
    <3> DEFINE c == run'.at - RunTime - Interval - RawWindow
               d == run'.at - RunTime - Interval - HourlyWindow
    <3>1. run.pc = "idle" /\ now = run.timer + Interval /\ run.timer <= run.at + RunTime
      BY <1>5, <2>2 DEF Begin, BoundInv
    <3>2. /\ c \in Int /\ run.at - RawWindow \in Int /\ c <= run.at - RawWindow
          /\ d \in Int /\ run.at - HourlyWindow \in Int /\ d <= run.at - HourlyWindow
      BY <1>a, <2>1, <3>1
    <3> HIDE DEF c, d
    <3>3. /\ FloorToHour(c) \in Int /\ FloorToHour(c) <= rawCutoff
          /\ FloorToDay(d) \in Int /\ FloorToDay(d) <= hourlyCutoff
      BY <3>2, FloorsGrow DEF rawCutoff, hourlyCutoff
    <3>4. /\ \A t \in raw : t >= rawCutoff
          /\ \A t \in hourly : FloorToHour(t) >= hourlyCutoff
      BY <3>1 DEF BoundInv
    <3>5. /\ \A t \in raw : t >= FloorToHour(c)
          /\ \A t \in hourly : FloorToHour(t) >= FloorToDay(d)
      BY <1>a, <1>b, <3>3, <3>4
    <3> QED BY <3>5 DEF c, d
  <2> QED BY <1>a, <2>1, <2>2 DEF BoundInv
<1>6. CASE RollUpHours
  <2>1. \A t \in hourly' : t \in hourly \/ (t \in raw /\ t >= hourlyCutoff)
    BY <1>6 DEF RollUpHours, Upsert
  <2>2. \A t \in raw : t >= hourlyCutoff => FloorToHour(t) \in Int /\ FloorToHour(t) >= hourlyCutoff
    BY <1>a, <1>b, Sides
  <2>3. run.serving => \A t \in hourly' : FloorToHour(t) >= oldHourly
    <3>1. run.serving => \A t \in hourly : FloorToHour(t) >= oldHourly
      BY <1>6 DEF RollUpHours, BoundInv
    <3> HIDE DEF oldHourly
    <3> QED BY <1>b, <2>1, <2>2, <3>1
  <2> QED BY <1>6, <1>a, <2>3 DEF RollUpHours, BoundInv
<1>7. CASE RollUpDays
  BY <1>7, <1>a DEF RollUpDays, BoundInv
<1>8. CASE DropRaw
  BY <1>8, <1>a, <1>b DEF DropRaw, BoundInv, rawCutoff
<1>9. CASE DropHourly
  BY <1>9, <1>a, <1>b DEF DropHourly, BoundInv, rawCutoff, hourlyCutoff
<1>10. CASE UNCHANGED <<now, run, tables, recorded, outlived>>
  BY <1>10 DEF BoundInv, tables, rawCutoff, hourlyCutoff
<1> QED
  <2>1. (\E range \in Ranges : Ask(range)) \/ ReadHourly \/ ReadDaily \/ UNCHANGED vars
          => UNCHANGED <<now, run, tables, recorded, outlived>>
    BY DEF Ask, ReadHourly, ReadDaily, vars
  <2> QED BY <2>1, <1>1, <1>2, <1>3, <1>4, <1>5, <1>6, <1>7, <1>8, <1>9, <1>10 DEF Next

LEMMA Bounded == ASSUME IInv, BoundInv PROVE HistoryBounded
  <1> USE RetentionAssumption
  <1> SUFFICES ASSUME run.serving PROVE HistoryBounded
    BY DEF HistoryBounded
  <1> DEFINE a == now - RawWindow - Lag
             b == now - HourlyWindow - Lag
  <1>1. /\ TableTypes /\ now \in Nat /\ run.at \in Nat /\ run.timer \in Nat
        /\ \A t \in raw : t \in Int
        /\ \A t \in hourly : FloorToHour(t) \in Int
    <2>1. TableTypes
      BY DEF IInv
    <2>2. \A t \in hourly : t \in Int
      BY <2>1 DEF TableTypes
    <2>3. \A t \in hourly : FloorToHour(t) \in Int
      BY <2>1, <2>2, Sides
    <2> QED BY <2>1, <2>3 DEF TableTypes
  <1>2. CASE run.pc = "idle"
    <2>1. /\ a \in Int /\ run.at - RawWindow \in Int /\ a <= run.at - RawWindow
          /\ b \in Int /\ run.at - HourlyWindow \in Int /\ b <= run.at - HourlyWindow
      BY <1>1, <1>2 DEF BoundInv, Lag
    <2>2. /\ FloorToHour(a) \in Int /\ FloorToHour(a) <= rawCutoff /\ rawCutoff \in Int
          /\ FloorToDay(b) \in Int /\ FloorToDay(b) <= hourlyCutoff /\ hourlyCutoff \in Int
      BY <1>1, <2>1, FloorsGrow, CutoffTypes DEF rawCutoff, hourlyCutoff
    <2> QED BY <1>1, <1>2, <2>2 DEF BoundInv, HistoryBounded
  <1>3. CASE run.pc # "idle"
    <2>1. /\ a \in Int /\ run.at - RunTime - Interval - RawWindow \in Int
          /\ a <= run.at - RunTime - Interval - RawWindow
          /\ b \in Int /\ run.at - RunTime - Interval - HourlyWindow \in Int
          /\ b <= run.at - RunTime - Interval - HourlyWindow
      BY <1>1, <1>3 DEF BoundInv, Lag
    <2>2. /\ FloorToHour(a) \in Int
          /\ FloorToHour(run.at - RunTime - Interval - RawWindow) \in Int
          /\ FloorToHour(a) <= FloorToHour(run.at - RunTime - Interval - RawWindow)
          /\ FloorToDay(b) \in Int
          /\ FloorToDay(run.at - RunTime - Interval - HourlyWindow) \in Int
          /\ FloorToDay(b) <= FloorToDay(run.at - RunTime - Interval - HourlyWindow)
      <3> HIDE DEF a, b
      <3> DEFINE c == run.at - RunTime - Interval - RawWindow
                 d == run.at - RunTime - Interval - HourlyWindow
      <3>1. c \in Int /\ a \in Int /\ a <= c /\ d \in Int /\ b \in Int /\ b <= d
        BY <2>1
      <3> HIDE DEF c, d
      <3>2. /\ FloorToHour(a) \in Int /\ FloorToHour(c) \in Int
            /\ FloorToHour(a) <= FloorToHour(c)
        BY <3>1, FloorsGrow
      <3>3. /\ FloorToDay(b) \in Int /\ FloorToDay(d) \in Int
            /\ FloorToDay(b) <= FloorToDay(d)
        BY <3>1, FloorsGrow
      <3> QED BY <3>2, <3>3 DEF c, d
    <2> QED BY <1>1, <1>3, <2>2 DEF BoundInv, HistoryBounded
  <1> QED BY <1>2, <1>3

-----------------------------------------------------------------------------
\* The answers.

LEMMA InitQuery == Init => QueryInv
  BY DEF Init, NoQuery, QueryInv, NeverTwice, HistoryComplete

\* Where a sample is, by the table that has it.
LEMMA Places ==
    ASSUME IInv
    PROVE  /\ now \in Nat /\ run.at \in Nat /\ run.at <= now
           /\ \A t \in recorded : t \in Int
           /\ \A t \in raw : t \in Int
           /\ \A t \in hourly : t \in Int /\ t < run.at - RawWindow
           /\ \A t \in daily : t \in Int /\ t < run.at - HourlyWindow
  <1>1. TableTypes /\ now \in Nat /\ run.at \in Nat /\ run.at <= now
    BY DEF IInv, TableTypes
  <1>2. /\ \A t \in recorded : t \in Int
        /\ \A t \in raw : t \in Int
        /\ \A t \in hourly : t \in Int /\ FloorToHour(t) + Hour <= run.at - RawWindow
        /\ \A t \in daily : t \in Int /\ FloorToDay(t) + Day <= run.at - HourlyWindow
    BY <1>1 DEF TableTypes
  <1>3. /\ \A t \in hourly : t < rawCutoff
        /\ \A t \in daily : t < hourlyCutoff
    BY <1>1, <1>2, Sides
  <1> QED BY <1>1, <1>2, <1>3, CutoffTypes, RetentionAssumption

\* What no run and no answer changes.
QueryQuiet ==
    /\ UNCHANGED query
    /\ run'.at = run.at /\ (run'.pc = "down" => run.pc = "down")
    /\ now' \in Nat /\ now <= now'

LEMMA QuietQuery ==
    ASSUME QueryInv, QueryQuiet, now \in Nat, query \in Query,
           query.pc = "hourly" /\ query.range <= HourlyWindow /\ ~query.crossed =>
              \A t \in hourly : FloorToHour(t) >= query.to - query.range => t \in hourly',
           recorded' \ outlived' \subseteq
              (recorded \ outlived) \cup {t \in Int : query.pc # "none" => t >= query.to - Late}
    PROVE  QueryInv'
  <1>1. query' = query /\ Hole' = Hole /\ \A t : Expected(t)' = Expected(t)
    BY DEF QueryQuiet, Expected, Hole
  <1>2. query.to \in Nat /\ query.range \in Int
    <2>1. query.to \in Nat /\ (query.range \in Ranges \/ query.range = 0)
      BY DEF Query
    <2>2. \A r \in Ranges : r \in Nat
      BY RetentionAssumption
    <2> QED BY <2>1, <2>2
  <1>3. \A t \in recorded' \ outlived' : Expected(t) => t \in recorded \ outlived \/ query.pc = "none"
    BY <1>2, RetentionAssumption DEF Expected
  <1>4. query.pc # "none" => query.to <= now'
    BY <1>2 DEF QueryInv, QueryQuiet
  <1>5. query.pc = "hourly" /\ ~query.crossed /\ query.range <= HourlyWindow =>
          \A t \in recorded' \ outlived' :
              Expected(t) => t \in query.raw \/ (t \in hourly' /\ t < query.to - RawWindow)
    BY <1>3 DEF QueryInv, Expected
  <1>6. HistoryComplete'
    BY <1>1, <1>3 DEF QueryInv, HistoryComplete, Expected
  <1>7. NeverTwice'
    BY <1>1 DEF QueryInv, NeverTwice
  <1> QED BY <1>1, <1>4, <1>5, <1>6, <1>7 DEF QueryInv, QueryQuiet

LEMMA NextQuery == IInv /\ BoundInv /\ QueryInv /\ [Next]_vars => QueryInv'
<1> SUFFICES ASSUME IInv, BoundInv, QueryInv, [Next]_vars PROVE QueryInv'
  OBVIOUS
<1>a. /\ query \in Query /\ TableTypes /\ HoursWhole
      /\ run \in [pc : PCs, at : Nat, timer : Nat, serving : BOOLEAN]
      /\ run.at \in Nat /\ now \in Nat /\ run.at <= now
  BY DEF IInv, TableTypes
<1>b. query.to \in Nat /\ query.range \in Nat
  <2>1. query.to \in Nat /\ (query.range \in Ranges \/ query.range = 0)
    BY <1>a DEF Query
  <2>2. \A r \in Ranges : r \in Nat
    BY RetentionAssumption
  <2> QED BY <2>1, <2>2
<1> USE RetentionAssumption
<1>1. CASE Tick
  <2>1. QueryQuiet
    BY <1>1, <1>a DEF Tick, QueryQuiet
  <2> QED BY <1>1, <1>a, <2>1, QuietQuery DEF Tick, tables
<1>2. CASE Die
  <2>1. /\ query'.pc = "none" /\ query'.crossed = FALSE
        /\ query'.raw = {} /\ query'.hourly = {} /\ query'.daily = {}
    BY <1>2 DEF Die, NoQuery
  <2>2. NeverTwice' /\ HistoryComplete'
    BY <2>1 DEF NeverTwice, HistoryComplete
  <2>3. /\ query'.pc = "none" => query'.raw = {}
        /\ query'.pc \in {"none", "hourly"} => query'.hourly = {}
        /\ query'.pc \in {"none", "hourly", "daily"} => query'.daily = {}
        /\ (\A t \in query'.raw : t >= query'.to - RawWindow)
        /\ (\A t \in query'.hourly : t >= query'.to - HourlyWindow)
    BY <2>1
  <2> QED BY <2>1, <2>2, <2>3 DEF QueryInv
<1>3. CASE Start
  <2>1. /\ run'.at = now /\ now' = now /\ query' = query /\ query.pc = "none"
        /\ UNCHANGED <<raw, hourly, daily, recorded, outlived>>
    BY <1>3 DEF Start, tables, QueryInv
  <2>2. NeverTwice' /\ HistoryComplete'
    BY <2>1 DEF QueryInv, NeverTwice, HistoryComplete, Hole
  <2> QED BY <1>a, <2>1, <2>2 DEF QueryInv
<1>4. ASSUME NEW u \in now - Late .. now, Record(u) PROVE QueryInv'
  <2>1. QueryQuiet
    BY <1>4, <1>a DEF Record, QueryQuiet
  <2>2. u \in Int /\ (query.pc # "none" => u >= query.to - Late)
    BY <1>a, <1>b DEF QueryInv
  <2>3. recorded' \ outlived' \subseteq
          (recorded \ outlived) \cup {t \in Int : query.pc # "none" => t >= query.to - Late}
    BY <1>4, <2>2 DEF Record
  <2> QED BY <1>4, <1>a, <2>1, <2>3, QuietQuery DEF Record
<1>5. CASE Begin
  <2>1. /\ UNCHANGED <<now, raw, hourly, daily, recorded, outlived>>
        /\ run'.pc # "down"
    BY <1>5, <1>a DEF Begin, tables
  <2>2. CASE query.pc \in {"hourly", "daily"}
    <3>1. /\ query' = [query EXCEPT !.crossed = TRUE]
          /\ query'.crossed = TRUE
      BY <1>5, <1>a, <2>2 DEF Begin, Query
    <3> QED BY <2>1, <3>1, <1>a DEF QueryInv, NeverTwice, HistoryComplete, Query
  <2>3. CASE query.pc \notin {"hourly", "daily"}
    <3>1. query' = query
      BY <1>5, <1>a, <2>3 DEF Begin, Query
    <3> QED BY <2>1, <2>3, <3>1 DEF QueryInv, NeverTwice, HistoryComplete, Hole
  <2> QED BY <2>2, <2>3
<1>6. CASE RollUpHours
  <2>1. QueryQuiet
    BY <1>6, <1>a DEF RollUpHours, QueryQuiet
  <2>2. hourly \subseteq hourly' /\ recorded' = recorded /\ outlived \subseteq outlived'
    BY <1>6, <1>a, RollUpHoursKeeps DEF RollUpHours
  <2> QED BY <1>a, <2>1, <2>2, QuietQuery
<1>7. CASE RollUpDays
  <2>1. QueryQuiet
    BY <1>7, <1>a DEF RollUpDays, QueryQuiet
  <2> QED BY <1>7, <1>a, <2>1, QuietQuery DEF RollUpDays
<1>8. CASE DropRaw
  <2>1. QueryQuiet
    BY <1>8, <1>a DEF DropRaw, QueryQuiet
  <2> QED BY <1>8, <1>a, <2>1, QuietQuery DEF DropRaw
<1>9. CASE DropHourly
  <2>1. QueryQuiet
    BY <1>9, <1>a DEF DropHourly, QueryQuiet
  <2>2. ASSUME query.pc = "hourly", query.range <= HourlyWindow, ~query.crossed,
               NEW t \in hourly, FloorToHour(t) >= query.to - query.range
        PROVE  t \in hourly'
    <3>1. FloorToHour(t) \in Int /\ run.at <= query.to
      BY <1>a, <2>2, Sides DEF TableTypes, QueryInv
    <3>2. FloorToHour(t) >= hourlyCutoff
      BY <1>a, <1>b, <2>2, <3>1, CutoffTypes
    <3> QED BY <1>9, <3>2 DEF DropHourly
  <2> QED BY <1>9, <1>a, <2>1, <2>2, QuietQuery DEF DropHourly
<1>10. ASSUME NEW range \in Ranges, Ask(range) PROVE QueryInv'
  <2>1. /\ query'.pc = IF range <= RawWindow THEN "answered" ELSE "hourly"
        /\ query'.to = now /\ query'.range = range /\ query'.crossed = FALSE
        /\ query'.raw = {t \in raw : t >= now - range /\ t >= now - RawWindow /\ t < now}
        /\ query'.hourly = {} /\ query'.daily = {}
    BY <1>10 DEF Ask, NoQuery
  <2>2. UNCHANGED <<now, run, raw, hourly, daily, recorded, outlived>> /\ range \in Nat
    BY <1>10 DEF Ask, tables
  <2>3. ASSUME NEW t \in recorded \ outlived, range <= HourlyWindow, Expected(t)'
        PROVE  t \in query'.raw \/ (t \in hourly' /\ t < query'.to - RawWindow /\ range > RawWindow)
    <3>1. /\ t \in Int /\ FloorToHour(t) \in Int /\ FloorToHour(t) <= t
          /\ FloorToHour(t) >= now - range /\ t < now - Late
          /\ t \notin FloorToHour(now - RawWindow - Lag) .. now - RawWindow - 1
      BY <2>1, <2>2, <2>3, Places, Cutoffs DEF Expected, Hole
    <3>2. t \in raw \cup hourly \cup daily
      BY DEF IInv, NothingLost
    <3>3. t \notin daily
      BY <1>a, <2>2, <2>3, <3>1, Places
    <3>4. CASE t >= now - RawWindow
      <4>1. t \notin hourly
        BY <1>a, <3>1, <3>4, Places
      <4> QED BY <1>a, <2>1, <2>2, <3>1, <3>2, <3>3, <3>4, <4>1
    <3>5. CASE t < now - RawWindow
      <4>1. now - RawWindow - Lag \in Int
        BY <1>a DEF Lag
      <4>2. FloorToHour(now - RawWindow - Lag) \in Int
        BY <4>1, Cutoffs
      <4>3. t < FloorToHour(now - RawWindow - Lag)
        BY <1>a, <3>1, <3>5, <4>2
      <4>4. run.serving
        BY <1>10 DEF Ask
      <4>5. t \notin raw
        BY <3>1, <4>2, <4>3, <4>4, Bounded DEF HistoryBounded
      <4>6. range > RawWindow
        BY <1>a, <2>2, <3>1, <3>5
      <4> QED BY <2>1, <2>2, <3>2, <3>3, <3>5, <4>5, <4>6
    <3> QED BY <1>a, <3>1, <3>4, <3>5
  <2>4. /\ query'.pc = "hourly" => range > RawWindow
        /\ run.pc # "down" /\ query'.pc # "daily"
    BY <1>10, <2>1, <2>2 DEF Ask, BoundInv
  <2>5. HistoryComplete'
    BY <2>1, <2>2, <2>3 DEF HistoryComplete, Expected
  <2> QED BY <1>a, <2>1, <2>2, <2>3, <2>4, <2>5 DEF QueryInv, NeverTwice
<1>11. CASE ReadHourly
  <2> DEFINE read == {t \in hourly : /\ FloorToHour(t) >= query.to - query.range
                                     /\ FloorToHour(t) >= query.to - HourlyWindow
                                     /\ FloorToHour(t) < query.to - RawWindow}
  <2>1. /\ query.pc = "hourly"
        /\ query'.pc = IF query.range <= HourlyWindow THEN "answered" ELSE "daily"
        /\ query'.to = query.to /\ query'.range = query.range
        /\ query'.raw = query.raw /\ query'.daily = query.daily
        /\ query'.crossed = query.crossed /\ query'.hourly = read
    BY <1>11, <1>a DEF ReadHourly, Query
  <2>2. UNCHANGED <<now, run, raw, hourly, daily, recorded, outlived>>
    BY <1>11 DEF ReadHourly, tables
  <2>3. \A t \in hourly : t \in Int /\ FloorToHour(t) \in Int /\ FloorToHour(t) <= t
    BY <1>a, Cutoffs, Places
  <2>4. \A t \in read : t >= query.to - HourlyWindow
    BY <1>b, <2>3
  <2>5. ~query.crossed => query.raw \cap read = {}
    <3> SUFFICES ASSUME ~query.crossed, NEW t \in query.raw, t \in read PROVE FALSE
      OBVIOUS
    <3>1. t >= query.to - RawWindow /\ run.at <= query.to
      BY <2>1 DEF QueryInv
    <3>2. t \in Int /\ t < run.at - RawWindow
      BY Places
    <3> QED BY <1>a, <1>b, <3>1, <3>2
  <2>6. query.range <= HourlyWindow /\ ~query.crossed =>
           \A t \in recorded \ outlived : Expected(t) => t \in query.raw \cup read
    <3> SUFFICES ASSUME query.range <= HourlyWindow, ~query.crossed,
                        NEW t \in recorded \ outlived, Expected(t), t \notin query.raw
                 PROVE  t \in read
      OBVIOUS
    <3>1. t \in hourly /\ t < query.to - RawWindow /\ FloorToHour(t) >= query.to - query.range
      BY <2>1 DEF QueryInv, Expected
    <3> QED BY <1>b, <2>3, <3>1
  <2> HIDE DEF read
  <2>7. NeverTwice'
    BY <2>1, <2>5 DEF NeverTwice, QueryInv
  <2>8. HistoryComplete'
    BY <2>1, <2>2, <2>6 DEF HistoryComplete, Expected, Hole
  <2> QED BY <1>b, <2>1, <2>2, <2>4, <2>7, <2>8 DEF QueryInv
<1>12. CASE ReadDaily
  <2> DEFINE read == {t \in daily : /\ FloorToDay(t) >= query.to - query.range
                                    /\ FloorToDay(t) < query.to - HourlyWindow}
  <2>1. /\ query.pc = "daily" /\ query'.pc = "answered"
        /\ query'.to = query.to /\ query'.range = query.range
        /\ query'.raw = query.raw /\ query'.hourly = query.hourly
        /\ query'.crossed = query.crossed /\ query'.daily = read
    BY <1>12, <1>a DEF ReadDaily, Query
  <2>2. /\ UNCHANGED <<now, run, raw, hourly, daily, recorded, outlived>>
        /\ query.range > HourlyWindow
    BY <1>12, <2>1 DEF ReadDaily, tables, QueryInv
  <2>3. ASSUME ~query.crossed, NEW t \in read
        PROVE  t \notin query.raw /\ t \notin query.hourly
    <3>1. t \in Int /\ t < run.at - HourlyWindow /\ run.at <= query.to
      BY <2>1, <2>3, Places DEF QueryInv
    <3>2. /\ t \in query.raw => t >= query.to - RawWindow
          /\ t \in query.hourly => t >= query.to - HourlyWindow
      BY <2>1 DEF QueryInv
    <3> QED BY <1>a, <1>b, <3>1, <3>2
  <2> HIDE DEF read
  <2>4. NeverTwice'
    BY <2>1, <2>3 DEF NeverTwice, QueryInv
  <2>5. HistoryComplete'
    BY <1>b, <2>1, <2>2 DEF HistoryComplete
  <2> QED BY <1>b, <2>1, <2>2, <2>4, <2>5 DEF QueryInv
<1> QED
  <2>1. CASE UNCHANGED vars
    BY <2>1 DEF vars, tables, QueryInv, NeverTwice, HistoryComplete, Expected, Hole
  <2> QED BY <2>1, <1>1, <1>2, <1>3, <1>4, <1>5, <1>6, <1>7, <1>8, <1>9, <1>10, <1>11, <1>12
          DEF Next

LEMMA Invariance == Spec => [](IInv /\ BoundInv /\ QueryInv)
  BY InitInv, NextInv, InitBound, NextBound, InitQuery, NextQuery, PTL DEF Spec

-----------------------------------------------------------------------------
\* The tables hold what they are for: rows of the roll-ups are of hours and days
\* that have left their window whole (the cutoffs of run(), lines 50-51).
THEOREM RetentionTypes == Spec => []RetentionTypeOK
  <1>1. IInv => RetentionTypeOK
    <2> SUFFICES ASSUME IInv PROVE RetentionTypeOK
      OBVIOUS
    <2>1. TableTypes /\ now \in Nat /\ run.at <= now
      BY DEF IInv, TableTypes
    <2> QED BY <2>1, LaterCutoffs DEF IInv, TableTypes, RetentionTypeOK
  <1> QED BY <1>1, Invariance, PTL

\* Whatever statement a run dies in, every sample stays in a table, those apart
\* that no run saw for a whole hourly window (run(), lines 44-108).
THEOREM NothingIsLost == Spec => []NothingLost
  <1>1. IInv => NothingLost
    BY DEF IInv
  <1> QED BY <1>1, Invariance, PTL

\* While requests are served no table has what is older than its window, one
\* interval and two runs, however long a run takes (start(), lines 33-36, and
\* run(), lines 96-107).
THEOREM HistoryIsBounded == Spec => []HistoryBounded
  BY Bounded, Invariance, PTL

\* No answer counts a sample twice, unless a run began while it was read
\* (findHistory, lines 95-166).
THEOREM NothingTwice == Spec => []NeverTwice
  <1>1. QueryInv => NeverTwice
    BY DEF QueryInv
  <1> QED BY <1>1, Invariance, PTL

\* Nor does it leave one out, but in the hole at the border of the raw rows
\* (findHistory, lines 95-135).
THEOREM HistoryIsComplete == Spec => []HistoryComplete
  <1>1. QueryInv => HistoryComplete
    BY DEF QueryInv
  <1> QED BY <1>1, Invariance, PTL
=============================================================================
