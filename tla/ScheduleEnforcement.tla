------------------------- MODULE ScheduleEnforcement ------------------------
(***************************************************************************)
(* application/policies/ScheduleEnforcementService.ts: every cycle reads   *)
(* the schedule and the clock once, then each device's policy, blocks or   *)
(* unblocks the device's element when the scheduled state changed, and     *)
(* applies the rule's or the policy's limit through limitDownload.         *)
(*                                                                         *)
(* One schedule with one rule; the device's target is its MAC.             *)
(***************************************************************************)
EXTENDS TrafficLimits

CONSTANTS RuleBlocked,  \* the rule blocks: TRUE, FALSE, or None for unset
          RuleLimit     \* the rule's rate, or None for unset

ASSUME RuleAssumption ==
    /\ RuleBlocked \in BOOLEAN \cup {None}
    /\ RuleLimit \in Rates \cup {None}
    /\ None \notin BOOLEAN

VARIABLES
    window,   \* the clock is in the rule's window
    states,   \* scheduledStates: what was enforced per device, or None
    cycle     \* the schedule cycle in flight

scheduleVars == <<window, states, cycle>>

besideSchedule == <<used, today, recon>>

Cycle == [pc : {"idle", "device", "element", "limits"}, active : BOOLEAN,
          todo : SUBSET Devices, dev : Devices \cup {None},
          limit : Rates \cup {None},       \* of the policy read
          blocked : BOOLEAN]               \* the element to enforce

NoCycle == [pc |-> "idle", active |-> FALSE, todo |-> {}, dev |-> None,
            limit |-> None, blocked |-> FALSE]

\* The cycle once device d is done: on to the next, or to its end.
Without(d) ==
    LET rest == cycle.todo \ {d} IN
    IF rest = {} THEN NoCycle
    ELSE [NoCycle EXCEPT !.pc = "device", !.active = cycle.active, !.todo = rest]

BeginCycle ==
    /\ cycle.pc = "idle" /\ At(Scheduler, "idle")
    /\ cycle' = [NoCycle EXCEPT !.pc = "device", !.active = window, !.todo = Devices]
    /\ UNCHANGED <<policy, shape, element, task, window, states, besideSchedule>>

\* The next device's policy. In the window the element is enforced when it is
\* not what the last cycle enforced; when the window has just ended, if it is
\* not what the policy says.
ReadDevice ==
    /\ cycle.pc = "device" /\ At(Scheduler, "idle")
    /\ \E d \in cycle.todo :
          LET row    == policy[d]
              due    == IF ~cycle.active \/ RuleBlocked = None THEN row.blocked
                        ELSE RuleBlocked
              known  == states[d] # None
              change == \/ cycle.active /\ (known => states[d] # due)
                        \/ ~cycle.active /\ known /\ states[d] # due
              seen   == [cycle EXCEPT !.dev = d, !.limit = row.limit,
                                      !.blocked = due]
          IN \/ /\ ~row.scheduled
                /\ cycle' = Without(d)
                /\ UNCHANGED states
             \/ /\ row.scheduled /\ change
                /\ cycle' = [seen EXCEPT !.pc = "element"]
                /\ UNCHANGED states
             \/ /\ row.scheduled /\ ~change
                /\ cycle' = [seen EXCEPT !.pc = "limits"]
                /\ states' = [states EXCEPT ![d] = IF cycle.active THEN due ELSE None]
    /\ UNCHANGED <<policy, shape, element, task, window, besideSchedule>>

EnforceTarget ==
    /\ cycle.pc = "element"
    /\ SetElement(cycle.dev, cycle.blocked)
    /\ states' = [states EXCEPT ![cycle.dev] =
                     IF cycle.active THEN cycle.blocked ELSE None]
    /\ cycle' = [cycle EXCEPT !.pc = "limits"]
    /\ UNCHANGED <<policy, shape, task, window, besideSchedule>>

\* The rule's limit or, without one, the limit read from the policy. The
\* branch that calls clearDownload cannot be reached.
ApplyLimit ==
    LET rate == IF cycle.active /\ RuleLimit # None THEN RuleLimit ELSE cycle.limit
    IN /\ cycle.pc = "limits"
       /\ cycle' = Without(cycle.dev)
       /\ \/ rate # None /\ LimitDownload(Scheduler, cycle.dev, rate)
          \/ rate = None /\ UNCHANGED <<policy, shape, element, task, used, today, recon>>
       /\ UNCHANGED <<window, states>>

ScheduleStep == BeginCycle \/ ReadDevice \/ EnforceTarget \/ ApplyLimit

ScheduleInit ==
    /\ window = FALSE
    /\ states = [d \in Devices |-> None]
    /\ cycle = NoCycle

ScheduleTypeOK ==
    /\ window \in BOOLEAN
    /\ states \in [Devices -> BOOLEAN \cup {None}]
    /\ cycle \in Cycle
=============================================================================
