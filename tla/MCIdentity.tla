----------------------------- MODULE MCIdentity -----------------------------
(***************************************************************************)
(* Budgets for what the backend does not decide, and for its failures.     *)
(***************************************************************************)
EXTENDS Identity

CONSTANTS MaxChanges, MaxDiscoveries, MaxAccepts, MaxFaults

VARIABLE used

Budget(kind, max) == used[kind] < max /\ used' = [used EXCEPT ![kind] = @ + 1]

MCInit ==
    /\ Init
    /\ \A a \in AccessPoints : neigh[a] = None
    /\ used = [change |-> 0, discovery |-> 0, accept |-> 0, fault |-> 0]

MCNext ==
    \/ NetworkStep /\ Budget("change", MaxChanges)
    \/ (OtherDiscovery \/ \E w \in Lists : Discover(w)) /\ Budget("discovery", MaxDiscoveries)
    \/ (\E m \in Macs : AcceptRead(m)) /\ Budget("accept", MaxAccepts)
    \/ (Restart \/ \E w \in Callers : CallerFails(w)) /\ Budget("fault", MaxFaults)
    \/ (Discover(Sync) \/ AcceptWrite \/ \E w \in Callers : Continues(w))
       /\ UNCHANGED used

MCVars == <<vars, used>>

MCSpec == MCInit /\ [][MCNext]_MCVars /\ Fairness
=============================================================================
