---------------------------- MODULE MCAccounting ----------------------------
(***************************************************************************)
(* Budgets for what the backend does not decide: bytes, minutes, failures, *)
(* recreated counters, deaths and shutdowns.                               *)
(***************************************************************************)
EXTENDS Accounting, FiniteSetsExt

CONSTANTS Bytes, Minutes, Failures, Recreations, Exits

VARIABLES failed, exited

mcvars == <<vars, failed, exited>>

MCInit == Init /\ failed = 0 /\ exited = 0

AllMoved == MapThenSumSet(LAMBDA d : moved[d], Devices)

MCNext ==
    \/ /\ \/ AllMoved < Bytes /\ \E d \in Devices : Transfer(d)
          \/ minute < Minutes /\ Tick
          \/ \E d \in Devices :
                Cardinality(recreated) < Recreations /\ counter[d] > 0 /\ CounterRecreated(d)
          \/ Stop
          \/ CollectorStep
          \/ StopperStep
       /\ UNCHANGED <<failed, exited>>
    \/ failed < Failures /\ Failure /\ failed' = failed + 1 /\ UNCHANGED exited
    \/ exited < Exits /\ Exit /\ exited' = exited + 1 /\ UNCHANGED failed

MCSpec ==
    /\ MCInit /\ [][MCNext]_mcvars
    /\ WF_mcvars(CollectorStep /\ UNCHANGED <<failed, exited>>)
    /\ WF_mcvars(StopperStep /\ UNCHANGED <<failed, exited>>)
=============================================================================
