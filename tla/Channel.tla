------------------------------- MODULE Channel ------------------------------
(***************************************************************************)
(* The way of a privileged command: LinuxSystemCommandExecutor in the      *)
(* backend, with its retries and its deadline, a Unix socket, and          *)
(* EnforcementAgent.ts with its two queues and its one worker.             *)
(*                                                                         *)
(* The agent may die at any moment and is started again by systemd: its    *)
(* queues and the running command are gone, its sockets are closed.        *)
(***************************************************************************)
EXTENDS Naturals, Sequences, FiniteSets

CONSTANTS
    Calls,          \* calls of execute
    Mutations,      \* the calls that are no background read
    Rejected,       \* the calls that the agent's allow list (valid) refuses
    MaxAttempts,    \* REMOTE_CONNECT_RETRIES
    MaxBackground,  \* maxBackgroundQueue
    Nobody          \* no call

ASSUME ChannelAssumption ==
    /\ MaxAttempts \in Nat \ {0}
    /\ MaxBackground \in Nat
    /\ Nobody \notin Calls
    /\ Mutations \subseteq Calls

VARIABLES
    pc,          \* what a caller is doing
    attempt,     \* how many attempts it has begun
    agentUp,     \* the agent listens
    priority,    \* the agent's queue of mutations
    background,  \* its queue of reads
    running,     \* the call whose command it executes, or Nobody
    outcome,     \* of the running command: "none" while it executes
    effects      \* how often each command was carried out

callers == <<pc, attempt>>
agent == <<agentUp, priority, background, running, outcome>>
vars == <<callers, agent, effects>>

\* "gaveUp": settled by the deadline, "failed": by an error.
PCs == {"idle", "connect", "delay", "wait", "ok", "failed", "gaveUp"}
Returned(c) == pc[c] \in {"ok", "failed", "gaveUp"}

Init ==
    /\ pc = [c \in Calls |-> "idle"]
    /\ attempt = [c \in Calls |-> 0]
    /\ agentUp = TRUE
    /\ priority = <<>>
    /\ background = <<>>
    /\ running = Nobody
    /\ outcome = "none"
    /\ effects = [c \in Calls |-> 0]

-----------------------------------------------------------------------------
\* The caller.

\* execute, executeRemote: the loop of attempts begins.
Execute(c) ==
    /\ pc[c] = "idle"
    /\ pc' = [pc EXCEPT ![c] = "connect"]
    /\ attempt' = [attempt EXCEPT ![c] = 1]
    /\ UNCHANGED <<agent, effects>>

\* Where a transient error of the socket leaves a caller.
AfterTransient(c) == IF attempt[c] = MaxAttempts THEN "failed" ELSE "delay"

\* The socket is missing or refuses the connection.
ConnectRefused(c) ==
    /\ pc[c] = "connect"
    /\ ~agentUp
    /\ pc' = [pc EXCEPT ![c] = AfterTransient(c)]
    /\ UNCHANGED <<attempt, agent, effects>>

\* The attempts are not counted.
FaultyRetry(c) ==
    /\ pc[c] = "delay"
    /\ pc' = [pc EXCEPT ![c] = "connect"]
    /\ UNCHANGED <<attempt, agent, effects>>

\* The delay between two attempts is over.
Retry(c) ==
    /\ pc[c] = "delay"
    /\ pc' = [pc EXCEPT ![c] = "connect"]
    /\ attempt' = [attempt EXCEPT ![c] = @ + 1]
    /\ UNCHANGED <<agent, effects>>

\* The deadline taken for a transient error: the command is tried again while
\* the agent still has it.
FaultyDeadline(c) ==
    /\ pc[c] \in {"connect", "wait"}
    /\ pc' = [pc EXCEPT ![c] = AfterTransient(c)]
    /\ UNCHANGED <<attempt, agent, effects>>

\* The deadline of one attempt.  It is no transient error, so the caller does
\* not try again; a job of its request stays where it is.
Deadline(c) ==
    /\ pc[c] \in {"connect", "wait"}
    /\ pc' = [pc EXCEPT ![c] = "gaveUp"]
    /\ UNCHANGED <<attempt, agent, effects>>

-----------------------------------------------------------------------------
\* The agent.

\* The bound on the queue of reads is forgotten.
FaultyRefused(c) == c \in Rejected

\* The server's handler of a line: the allow list, then the queue of the
\* command's kind; the queue of reads is bounded.
Refused(c) ==
    \/ c \in Rejected
    \/ c \notin Mutations /\ Len(background) >= MaxBackground

Request(c) ==
    /\ pc[c] = "connect"
    /\ agentUp
    /\ ~Refused(c)
    /\ IF c \in Mutations
       THEN priority' = Append(priority, c) /\ UNCHANGED background
       ELSE background' = Append(background, c) /\ UNCHANGED priority
    /\ pc' = [pc EXCEPT ![c] = "wait"]
    /\ UNCHANGED <<attempt, agentUp, running, outcome, effects>>

RequestRefused(c) ==
    /\ pc[c] = "connect"
    /\ agentUp
    /\ Refused(c)
    /\ pc' = [pc EXCEPT ![c] = "failed"]
    /\ UNCHANGED <<attempt, agent, effects>>

\* drain: one job at a time, mutations first.
Drain ==
    /\ agentUp
    /\ running = Nobody
    /\ \/ /\ priority # <<>>
          /\ running' = Head(priority)
          /\ priority' = Tail(priority)
          /\ UNCHANGED background
       \/ /\ priority = <<>> /\ background # <<>>
          /\ running' = Head(background)
          /\ background' = Tail(background)
          /\ UNCHANGED priority
    /\ UNCHANGED <<callers, agentUp, outcome, effects>>

\* The command does its work ...
Carry ==
    /\ running # Nobody
    /\ outcome = "none"
    /\ effects' = [effects EXCEPT ![running] = @ + 1]
    /\ \E o \in {"done", "error"} : outcome' = o  \* "error": killed, its work done
    /\ UNCHANGED <<callers, agentUp, priority, background, running>>

\* ... or fails, or is killed at its timeout, without having done it.
CommandFails ==
    /\ running # Nobody
    /\ outcome = "none"
    /\ outcome' = "error"
    /\ UNCHANGED <<callers, agentUp, priority, background, running, effects>>

\* executeRequest answers.  A caller that gave up has destroyed its socket.
Answer ==
    /\ running # Nobody
    /\ outcome # "none"
    /\ pc' = IF pc[running] = "wait"
             THEN [pc EXCEPT ![running] = IF outcome = "done" THEN "ok" ELSE "failed"]
             ELSE pc
    /\ running' = Nobody
    /\ outcome' = "none"
    /\ UNCHANGED <<attempt, agentUp, priority, background, effects>>

\* The agent dies; every caller that waits sees its socket close.
AgentDies ==
    /\ agentUp
    /\ agentUp' = FALSE
    /\ priority' = <<>>
    /\ background' = <<>>
    /\ running' = Nobody
    /\ outcome' = "none"
    /\ pc' = [c \in Calls |-> IF pc[c] = "wait" THEN AfterTransient(c) ELSE pc[c]]
    /\ UNCHANGED <<attempt, effects>>

AgentStarts ==
    /\ ~agentUp
    /\ agentUp' = TRUE
    /\ UNCHANGED <<callers, priority, background, running, outcome, effects>>

-----------------------------------------------------------------------------
CallerStep(c) == ConnectRefused(c) \/ Retry(c) \/ Request(c) \/ RequestRefused(c)

WorkerStep == Drain \/ Carry \/ CommandFails \/ Answer

Next ==
    \/ \E c \in Calls : Execute(c) \/ CallerStep(c) \/ Deadline(c)
    \/ WorkerStep
    \/ AgentDies
    \/ AgentStarts

\* Timers fire, the event loops run and every command has a timeout.  Nothing
\* makes the agent die or come back.
Fairness ==
    /\ \A c \in Calls : WF_vars(CallerStep(c)) /\ WF_vars(Deadline(c))
    /\ WF_vars(WorkerStep)

Spec == Init /\ [][Next]_vars /\ Fairness

-----------------------------------------------------------------------------
Pending(c) == pc[c] \in {"connect", "delay", "wait"}

\* The types; and the agent never holds more reads than its bound, whatever
\* the callers do.
ChannelTypeOK ==
    /\ pc \in [Calls -> PCs]
    /\ attempt \in [Calls -> 0 .. MaxAttempts]
    /\ agentUp \in BOOLEAN
    /\ priority \in Seq(Mutations)
    /\ background \in Seq(Calls \ Mutations) /\ Len(background) <= MaxBackground
    /\ running \in Calls \cup {Nobody}
    /\ outcome \in {"none", "done", "error"}
    /\ effects \in [Calls -> Nat]

\* What the answers mean (CommandService): an ok says that the command was
\* carried out and will not be again, an error that it will not be any more,
\* and only a caller that gave up at its deadline may see its command carried
\* out later.  Retries make a command happen twice, never more often than tried.
StatusOf(c) ==
    CASE Pending(c) -> "pending"
      [] pc[c] = "gaveUp" -> "unknown"
      [] OTHER -> pc[c]

Service == INSTANCE CommandService WITH status <- [c \in Calls |-> StatusOf(c)]
ImplementsService == Service!SSpec

\* Every call returns, even if the agent never comes back: at most MaxAttempts
\* attempts, each of which ends by an answer, an error or its deadline.
EveryCallReturns == \A c \in Calls : Pending(c) ~> Returned(c)
=============================================================================
