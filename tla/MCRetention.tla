----------------------------- MODULE MCRetention ----------------------------
EXTENDS Retention, FiniteSets

CONSTANTS Horizon, MaxSamples

\* Two moments an hour, two hours a day, raw for two hours, hourly for three
\* days; the history API's day, week and month, and a longer range.
MCRanges == {2, 8, 12, 14}

\* The bounds: the clock, the number of samples, and one query, whose answer
\* ends the behaviour.
MCNext ==
    /\ query.pc # "answered"
    /\ Next
    /\ now' <= RawWindow + HourlyWindow + Day + Horizon
    /\ Cardinality(recorded') <= MaxSamples

MCSpec == Init /\ [][MCNext]_vars
=============================================================================
