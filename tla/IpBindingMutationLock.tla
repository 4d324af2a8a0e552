----------------------- MODULE IpBindingMutationLock -----------------------
(***************************************************************************)
(* The lock that the two address reconcilers take: a chain of promises.    *)
(* A caller remembers the current tail and becomes the new tail at once;   *)
(* its operation starts when the remembered promise resolves, and its own  *)
(* promise resolves when the operation ends, normally or not.  The         *)
(* unresolved part of the chain is a FIFO queue whose head runs.           *)
(*                                                                         *)
(* FirewallService does not take this lock.                                *)
(***************************************************************************)
EXTENDS Sequences

Reconcilers == {"recon", "life"}

VARIABLE lockQueue

Enqueue(who) == lockQueue' = Append(lockQueue, who)

\* Faulty variant, for the mutation runs: whoever is queued may run.
HoldsWhenQueued(who) == \E i \in DOMAIN lockQueue : lockQueue[i] = who

Holds(who) == lockQueue # <<>> /\ Head(lockQueue) = who

Resolve(who) == Holds(who) /\ lockQueue' = Tail(lockQueue)

=============================================================================
