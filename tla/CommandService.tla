--------------------------- MODULE CommandService ---------------------------
(***************************************************************************)
(* What a caller of SystemCommandExecutor.execute may rely on, whatever    *)
(* happens to the socket, to the agent's queues and to the agent.          *)
(*                                                                         *)
(*   - "ok": the command was carried out, and will not be again;           *)
(*   - "failed": it may have been carried out, and will not be any more;   *)
(*   - "unknown" (the caller gave up waiting): it may still be carried out *)
(*     at any later time;                                                  *)
(*   - in no case is it carried out more often than it was tried.          *)
(***************************************************************************)
EXTENDS Naturals

CONSTANTS
    Calls,        \* calls of execute
    MaxAttempts   \* REMOTE_CONNECT_RETRIES

VARIABLES
    status,       \* [Calls -> Statuses]
    effects       \* [Calls -> Nat]: how often the command was carried out

svars == <<status, effects>>

Statuses == {"idle", "pending", "ok", "failed", "unknown"}

SInit ==
    /\ status = [c \in Calls |-> "idle"]
    /\ effects = [c \in Calls |-> 0]

\* A caller hands its command over.
Submit(c) ==
    /\ status[c] = "idle"
    /\ status' = [status EXCEPT ![c] = "pending"]
    /\ UNCHANGED effects

\* The command is carried out (again).
Perform(c) ==
    /\ status[c] \in {"pending", "unknown"}
    /\ effects[c] < MaxAttempts
    /\ effects' = [effects EXCEPT ![c] = @ + 1]
    /\ UNCHANGED status

\* The caller learns that the command was carried out.
Succeed(c) ==
    /\ status[c] = "pending"
    /\ effects[c] > 0
    /\ status' = [status EXCEPT ![c] = "ok"]
    /\ UNCHANGED effects

\* The caller gets an error; GiveUp: nothing but its own deadline.
Fail(c) ==
    /\ status[c] = "pending"
    /\ status' = [status EXCEPT ![c] = "failed"]
    /\ UNCHANGED effects

GiveUp(c) ==
    /\ status[c] = "pending"
    /\ status' = [status EXCEPT ![c] = "unknown"]
    /\ UNCHANGED effects

\* One step of one call.  When the agent dies, every caller that has no
\* attempt left fails in the same step.
FailAll(S) ==
    /\ \A c \in S : status[c] = "pending"
    /\ status' = [c \in Calls |-> IF c \in S THEN "failed" ELSE status[c]]
    /\ UNCHANGED effects

SNext ==
    \/ \E c \in Calls : Submit(c) \/ Perform(c) \/ Succeed(c) \/ Fail(c) \/ GiveUp(c)
    \/ \E S \in SUBSET Calls : FailAll(S)

SSpec == SInit /\ [][SNext]_svars
=============================================================================
