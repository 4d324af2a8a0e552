---------------------------- MODULE MCDevicePolicy --------------------------
EXTENDS DevicePolicy, FiniteSets

CONSTANT MaxEvents

VARIABLE events   \* requests, faults and turns of the clock so far

mcVars == <<vars, events>>

\* A backend that has been set up: every device has a limit, a quota with an
\* action that acts on the kernel; tc is as the policy says, nothing is exhausted
\* and nothing in flight.
MCInit ==
    /\ policy \in [Devices ->
          [limit : Rates, quota : Amounts, action : {"throttle", "block"},
           enforced : {None}, blocked : {FALSE}, scheduled : {FALSE}]]
    /\ shape = [d \in Devices |-> Desired(policy[d])]
    /\ used = [d \in Devices |-> [day \in Days |-> None]]
    /\ element = [d \in Devices |-> FALSE]
    /\ today = 0
    /\ task = [p \in Procs |-> Idle]
    /\ recon = NoRecon
    /\ ScheduleInit
    /\ events = 0

\* The bound: how often the admin asks, something fails, the process restarts,
\* a day begins, or the schedule's window opens or closes, in any mixture.
MCNext ==
    \/ Service /\ UNCHANGED events
    \/ /\ events < MaxEvents /\ events' = events + 1
       /\ Ask \/ Fault \/ Time

MCFairness ==
    /\ \A p \in Procs : WF_mcVars(TaskStep(p) /\ UNCHANGED events)
    /\ \A d \in Devices :
          SF_mcVars(CollectorReads(d) /\ ~element[d] /\ UNCHANGED events)
    /\ WF_mcVars(ReconciliationStep /\ UNCHANGED events)
    /\ WF_mcVars(ScheduleStep /\ UNCHANGED events)

MCSpec == MCInit /\ [][MCNext]_mcVars /\ MCFairness
=============================================================================
