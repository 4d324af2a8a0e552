---------------------------- MODULE ChannelProofs ---------------------------
(***************************************************************************)
(* For any calls, any number of attempts and any bound on the reads: the   *)
(* types of Channel, and that Channel implements CommandService.           *)
(***************************************************************************)
EXTENDS Channel, TLAPS

USE DEF callers, agent, vars, PCs

\* The callers of the queued jobs still wait or have given up, and an attempt
\* of theirs has not been carried out; a call has at most one job at the agent.
Owed(c) == pc[c] \in {"wait", "gaveUp"} /\ effects[c] < attempt[c]

Distinct(q) == \A i, j \in 1 .. Len(q) : i # j => q[i] # q[j]

QueueInv(q) ==
    /\ \A i \in 1 .. Len(q) : Owed(q[i]) /\ q[i] # running
    /\ Distinct(q)

RunningInv ==
    /\ running # Nobody => pc[running] \in {"wait", "gaveUp"}
    /\ running # Nobody /\ outcome = "none" => effects[running] < attempt[running]
    /\ running # Nobody /\ outcome = "done" => effects[running] > 0
    /\ running = Nobody => outcome = "none"

\* How far the attempts go, and how often a command was carried out.
AttemptInv ==
    \A c \in Calls :
        /\ effects[c] <= attempt[c]
        /\ pc[c] = "connect" => effects[c] < attempt[c]
        /\ pc[c] = "delay" => attempt[c] < MaxAttempts
        /\ pc[c] = "idle" => attempt[c] = 0

AgentInv == ~agentUp => priority = <<>> /\ background = <<>> /\ running = Nobody

IInv ==
    /\ ChannelTypeOK
    /\ QueueInv(priority)
    /\ QueueInv(background)
    /\ RunningInv
    /\ AttemptInv
    /\ AgentInv

-----------------------------------------------------------------------------
\* Appending to a queue, and taking its head, say what their elements are.
LEMMA AppendElements ==
    ASSUME NEW S, NEW q \in Seq(S), NEW c \in S
    PROVE  /\ Append(q, c) \in Seq(S)
           /\ Len(Append(q, c)) = Len(q) + 1
           /\ \A i \in 1 .. Len(q) : Append(q, c)[i] = q[i]
           /\ Append(q, c)[Len(q) + 1] = c
  OBVIOUS

LEMMA TailElements ==
    ASSUME NEW S, NEW q \in Seq(S), q # <<>>
    PROVE  /\ Len(q) \in Nat \ {0}
           /\ Head(q) \in S /\ Head(q) = q[1]
           /\ Tail(q) \in Seq(S)
           /\ Len(Tail(q)) = Len(q) - 1
           /\ \A i \in 1 .. Len(Tail(q)) : Tail(q)[i] = q[i + 1]
  OBVIOUS

\* Neither makes an element appear twice.
LEMMA AppendDistinct ==
    ASSUME NEW S, NEW q \in Seq(S), NEW c \in S,
           Distinct(q), \A i \in 1 .. Len(q) : q[i] # c
    PROVE  Distinct(Append(q, c))
<1>1. ASSUME NEW i \in 1 .. Len(q) + 1, NEW j \in 1 .. Len(q) + 1, i # j
      PROVE Append(q, c)[i] # Append(q, c)[j]
  <2>1. (i \in 1 .. Len(q) \/ i = Len(q) + 1) /\ (j \in 1 .. Len(q) \/ j = Len(q) + 1)
    OBVIOUS
  <2> QED
    BY <1>1, <2>1, AppendElements DEF Distinct
<1> QED
  BY <1>1, AppendElements DEF Distinct

LEMMA TailDistinct ==
    ASSUME NEW S, NEW q \in Seq(S), q # <<>>, Distinct(q)
    PROVE  Distinct(Tail(q)) /\ \A i \in 1 .. Len(Tail(q)) : Tail(q)[i] # Head(q)
<1>1. \A i \in 1 .. Len(Tail(q)) : i + 1 \in 1 .. Len(q) /\ i + 1 # 1
  BY TailElements
<1>2. Distinct(Tail(q))
  BY <1>1, TailElements DEF Distinct
<1>3. 1 \in 1 .. Len(q)
  BY TailElements
<1> QED
  BY <1>1, <1>2, <1>3, TailElements DEF Distinct

LEMMA InitInv == Init => IInv
  BY ChannelAssumption
  DEF Init, IInv, ChannelTypeOK, QueueInv, Distinct, RunningInv, AttemptInv, AgentInv, Owed

\* Every action keeps the invariant.  The actions of a caller that leave the
\* queues alone need only its own part of AttemptInv; Request adds a job that
\* is owed, and the worker takes, performs and answers one.
LEMMA NextInv == IInv /\ [Next]_vars => IInv'
<1> SUFFICES ASSUME IInv, [Next]_vars PROVE IInv'
  OBVIOUS
<1> USE ChannelAssumption
<1> /\ \A i \in 1 .. Len(priority) : priority[i] \in Calls
    /\ \A i \in 1 .. Len(background) : background[i] \in Calls
  <2>1. priority \in Seq(Mutations) /\ background \in Seq(Calls \ Mutations)
    BY DEF IInv, ChannelTypeOK
  <2> QED
    BY <2>1
<1> Len(priority) \in Nat /\ Len(background) \in Nat
  BY DEF IInv, ChannelTypeOK
<1>1. ASSUME NEW c \in Calls, Execute(c) PROVE IInv'
  <2>1. ChannelTypeOK'
    BY <1>1 DEF Execute, IInv, ChannelTypeOK
  <2>2. QueueInv(priority)'
    BY <1>1 DEF Execute, IInv, ChannelTypeOK, QueueInv, Owed, RunningInv
  <2>3. QueueInv(background)'
    BY <1>1 DEF Execute, IInv, ChannelTypeOK, QueueInv, Owed, RunningInv
  <2>4. (RunningInv /\ AgentInv)'
    BY <1>1 DEF Execute, IInv, ChannelTypeOK, RunningInv, AgentInv, QueueInv, Owed
  <2>5. AttemptInv'
    BY <1>1 DEF Execute, IInv, ChannelTypeOK, AttemptInv, RunningInv
  <2> QED
    BY <2>1, <2>2, <2>3, <2>4, <2>5 DEF IInv
<1>2. ASSUME NEW c \in Calls, ConnectRefused(c) PROVE IInv'
  BY <1>2 DEF ConnectRefused, AfterTransient, IInv, ChannelTypeOK, QueueInv, RunningInv,
              AttemptInv, AgentInv, Owed
<1>3. ASSUME NEW c \in Calls, Retry(c) PROVE IInv'
  <2>1. ChannelTypeOK'
    BY <1>3 DEF Retry, IInv, ChannelTypeOK, AttemptInv
  <2>2. QueueInv(priority)'
    BY <1>3 DEF Retry, IInv, ChannelTypeOK, QueueInv, Owed, RunningInv
  <2>3. QueueInv(background)'
    BY <1>3 DEF Retry, IInv, ChannelTypeOK, QueueInv, Owed, RunningInv
  <2>4. (RunningInv /\ AgentInv)'
    BY <1>3 DEF Retry, IInv, ChannelTypeOK, RunningInv, AgentInv, QueueInv, Owed
  <2>5. AttemptInv'
    BY <1>3 DEF Retry, IInv, ChannelTypeOK, AttemptInv, RunningInv
  <2> QED
    BY <2>1, <2>2, <2>3, <2>4, <2>5 DEF IInv
<1>4. ASSUME NEW c \in Calls, Deadline(c) PROVE IInv'
  <2>1. ChannelTypeOK'
    BY <1>4 DEF Deadline, IInv, ChannelTypeOK
  <2>2. QueueInv(priority)'
    BY <1>4 DEF Deadline, IInv, ChannelTypeOK, QueueInv, Owed
  <2>3. QueueInv(background)'
    BY <1>4 DEF Deadline, IInv, ChannelTypeOK, QueueInv, Owed
  <2>4. (RunningInv /\ AgentInv)'
    BY <1>4 DEF Deadline, IInv, ChannelTypeOK, RunningInv, AgentInv
  <2>5. AttemptInv'
    BY <1>4 DEF Deadline, IInv, ChannelTypeOK, AttemptInv
  <2> QED
    BY <2>1, <2>2, <2>3, <2>4, <2>5 DEF IInv
<1>5. ASSUME NEW c \in Calls, RequestRefused(c) PROVE IInv'
  <2>1. ChannelTypeOK'
    BY <1>5 DEF RequestRefused, IInv, ChannelTypeOK
  <2>2. QueueInv(priority)'
    BY <1>5 DEF RequestRefused, IInv, ChannelTypeOK, QueueInv, Owed
  <2>3. QueueInv(background)'
    BY <1>5 DEF RequestRefused, IInv, ChannelTypeOK, QueueInv, Owed
  <2>4. (RunningInv /\ AgentInv)'
    BY <1>5 DEF RequestRefused, IInv, ChannelTypeOK, RunningInv, AgentInv
  <2>5. AttemptInv'
    BY <1>5 DEF RequestRefused, IInv, ChannelTypeOK, AttemptInv
  <2> QED
    BY <2>1, <2>2, <2>3, <2>4, <2>5 DEF IInv
<1>6. ASSUME NEW c \in Calls, Request(c) PROVE IInv'
  <2>1. /\ pc' = [pc EXCEPT ![c] = "wait"] /\ pc[c] = "connect" /\ effects[c] < attempt[c]
        /\ UNCHANGED <<attempt, agentUp, running, outcome, effects>>
    BY <1>6 DEF Request, IInv, AttemptInv
  <2>2. /\ \A i \in 1 .. Len(priority) : priority[i] # c
        /\ \A i \in 1 .. Len(background) : background[i] # c
        /\ running # c
    BY <2>1 DEF IInv, QueueInv, RunningInv, Owed
  <2>3. CASE c \in Mutations
    <3>1. priority' = Append(priority, c) /\ background' = background
      BY <1>6, <2>3 DEF Request
    <3>2. /\ priority' \in Seq(Mutations) /\ Len(priority') = Len(priority) + 1
          /\ \A i \in 1 .. Len(priority) : priority'[i] = priority[i]
          /\ priority'[Len(priority) + 1] = c
      BY <3>1, <2>3, AppendElements DEF IInv, ChannelTypeOK
    <3>3. QueueInv(priority)'
      <4>1. Distinct(priority')
        BY <2>2, <2>3, <3>1, AppendDistinct DEF IInv, ChannelTypeOK, QueueInv
      <4>2. ASSUME NEW i \in 1 .. Len(priority) PROVE Owed(priority[i])' /\ priority'[i] # running'
        <5>1. Owed(priority[i]) /\ priority[i] # running
          BY DEF IInv, QueueInv
        <5>2. priority[i] # c
          BY <2>2
        <5> QED
          BY <2>1, <3>2, <5>1, <5>2 DEF IInv, ChannelTypeOK, Owed
      <4>3. Owed(c)' /\ c # running'
        BY <2>1, <2>2 DEF IInv, ChannelTypeOK, Owed
      <4>4. \A i \in 1 .. Len(priority') : i \in 1 .. Len(priority) \/ i = Len(priority) + 1
        BY <3>2
      <4> QED
        BY <3>2, <4>1, <4>2, <4>3, <4>4 DEF QueueInv, Distinct, Owed
    <3>4. QueueInv(background)'
      BY <2>1, <2>2, <3>1 DEF IInv, ChannelTypeOK, QueueInv, Owed
    <3>5. ChannelTypeOK'
      BY <2>1, <3>1, <3>2 DEF IInv, ChannelTypeOK
    <3>6. (RunningInv /\ AgentInv)'
      BY <1>6, <2>1, <2>2 DEF Request, IInv, ChannelTypeOK, RunningInv, AgentInv
    <3>7. AttemptInv'
      BY <2>1 DEF IInv, ChannelTypeOK, AttemptInv
    <3> QED
      BY <3>3, <3>4, <3>5, <3>6, <3>7 DEF IInv
  <2>4. CASE c \notin Mutations
    <3>1. background' = Append(background, c) /\ priority' = priority /\ Len(background) < MaxBackground
      BY <1>6, <2>4 DEF Request, Refused, IInv, ChannelTypeOK
    <3>2. /\ background' \in Seq(Calls \ Mutations) /\ Len(background') = Len(background) + 1
          /\ \A i \in 1 .. Len(background) : background'[i] = background[i]
          /\ background'[Len(background) + 1] = c
      BY <3>1, <2>4, AppendElements DEF IInv, ChannelTypeOK
    <3>3. QueueInv(background)'
      <4>0. background \in Seq(Calls \ Mutations) /\ c \in Calls \ Mutations /\ Distinct(background)
        BY <2>4 DEF IInv, ChannelTypeOK, QueueInv
      <4>1. Distinct(background')
        BY <2>2, <3>1, <4>0, AppendDistinct
      <4>2. ASSUME NEW i \in 1 .. Len(background) PROVE Owed(background[i])' /\ background'[i] # running'
        <5>1. Owed(background[i]) /\ background[i] # running
          BY DEF IInv, QueueInv
        <5>2. background[i] # c
          BY <2>2
        <5> QED
          BY <2>1, <3>2, <5>1, <5>2 DEF IInv, ChannelTypeOK, Owed
      <4>3. Owed(c)' /\ c # running'
        BY <2>1, <2>2 DEF IInv, ChannelTypeOK, Owed
      <4>4. \A i \in 1 .. Len(background') : i \in 1 .. Len(background) \/ i = Len(background) + 1
        BY <3>2
      <4> QED
        BY <3>2, <4>1, <4>2, <4>3, <4>4 DEF QueueInv, Distinct, Owed
    <3>4. QueueInv(priority)'
      BY <2>1, <2>2, <3>1 DEF IInv, ChannelTypeOK, QueueInv, Owed
    <3>5. ChannelTypeOK'
      BY <2>1, <3>1, <3>2 DEF IInv, ChannelTypeOK
    <3>6. (RunningInv /\ AgentInv)'
      BY <1>6, <2>1, <2>2 DEF Request, IInv, ChannelTypeOK, RunningInv, AgentInv
    <3>7. AttemptInv'
      BY <2>1 DEF IInv, ChannelTypeOK, AttemptInv
    <3> QED
      BY <3>3, <3>4, <3>5, <3>6, <3>7 DEF IInv
  <2> QED
    BY <2>3, <2>4
<1>7. CASE Drain
  <2>1. CASE priority # <<>> /\ running' = Head(priority) /\ priority' = Tail(priority)
             /\ UNCHANGED background
    <3>1. /\ Len(priority) \in Nat \ {0} /\ running' \in Mutations /\ running' = priority[1]
          /\ priority' \in Seq(Mutations) /\ Len(priority') = Len(priority) - 1
          /\ \A i \in 1 .. Len(priority') : priority'[i] = priority[i + 1]
      BY <2>1, TailElements DEF IInv, ChannelTypeOK
    <3>2. Owed(running') /\ running' # Nobody
      BY <3>1 DEF IInv, QueueInv
    <3>3. ASSUME NEW i \in 1 .. Len(background) PROVE background[i] # running'
      <4>1. background \in Seq(Calls \ Mutations)
        BY DEF IInv, ChannelTypeOK
      <4>2. background[i] \in Calls \ Mutations
        BY <3>3, <4>1
      <4> QED BY <3>1, <4>2
    <3>4. ChannelTypeOK'
      BY <1>7, <2>1, <3>1 DEF Drain, IInv, ChannelTypeOK
    <3>5. QueueInv(priority)'
      <4>1. Distinct(priority') /\ \A i \in 1 .. Len(priority') : priority'[i] # running'
        BY <2>1, TailDistinct DEF IInv, ChannelTypeOK, QueueInv
      <4>2. \A i \in 1 .. Len(priority') : i + 1 \in 1 .. Len(priority)
        BY <3>1
      <4>3. ASSUME NEW i \in 1 .. Len(priority') PROVE Owed(priority[i])'
        <5>1. Owed(priority[i + 1])
          BY <4>2 DEF IInv, QueueInv
        <5>2. priority'[i] = priority[i + 1]
          BY <3>1
        <5>3. UNCHANGED <<pc, attempt, effects>>
          BY <1>7 DEF Drain
        <5> QED
          BY <5>1, <5>2, <5>3 DEF Owed
      <4>4. Distinct(priority)'
        BY <4>1 DEF Distinct
      <4> QED
        BY <4>1, <4>3, <4>4 DEF QueueInv
    <3>6. QueueInv(background)'
      BY <1>7, <2>1, <3>3 DEF Drain, IInv, QueueInv, Owed
    <3>7. (RunningInv /\ AgentInv)'
      BY <1>7, <3>2 DEF Drain, IInv, RunningInv, AgentInv, Owed
    <3>8. AttemptInv'
      BY <1>7 DEF Drain, IInv, AttemptInv
    <3> QED
      BY <3>4, <3>5, <3>6, <3>7, <3>8 DEF IInv
  <2>2. CASE priority = <<>> /\ background # <<>> /\ running' = Head(background)
             /\ background' = Tail(background) /\ UNCHANGED priority
    <3>1. /\ Len(background) \in Nat \ {0} /\ running' \in Calls /\ running' = background[1]
          /\ background' \in Seq(Calls \ Mutations) /\ Len(background') = Len(background) - 1
          /\ \A i \in 1 .. Len(background') : background'[i] = background[i + 1]
      BY <2>2, TailElements DEF IInv, ChannelTypeOK
    <3>2. Owed(running') /\ running' # Nobody
      BY <3>1 DEF IInv, QueueInv
    <3>3. Len(background') <= MaxBackground /\ Len(background') \in Nat
      BY <3>1 DEF IInv, ChannelTypeOK
    <3>4. ChannelTypeOK'
      BY <1>7, <2>2, <3>1, <3>3 DEF Drain, IInv, ChannelTypeOK
    <3>5. QueueInv(background)'
      <4>1. Distinct(background') /\ \A i \in 1 .. Len(background') : background'[i] # running'
        BY <2>2, TailDistinct DEF IInv, ChannelTypeOK, QueueInv
      <4>2. \A i \in 1 .. Len(background') : i + 1 \in 1 .. Len(background)
        BY <3>1
      <4>3. ASSUME NEW i \in 1 .. Len(background') PROVE Owed(background[i])'
        <5>1. Owed(background[i + 1])
          BY <4>2 DEF IInv, QueueInv
        <5>2. background'[i] = background[i + 1]
          BY <3>1
        <5>3. UNCHANGED <<pc, attempt, effects>>
          BY <1>7 DEF Drain
        <5> QED
          BY <5>1, <5>2, <5>3 DEF Owed
      <4>4. Distinct(background)'
        BY <4>1 DEF Distinct
      <4> QED
        BY <4>1, <4>3, <4>4 DEF QueueInv
    <3>6. QueueInv(priority)'
      <4>1. Len(priority') = 0
        BY <2>2
      <4> QED
        BY <4>1 DEF QueueInv, Distinct
    <3>7. (RunningInv /\ AgentInv)'
      BY <1>7, <3>2 DEF Drain, IInv, RunningInv, AgentInv, Owed
    <3>8. AttemptInv'
      BY <1>7 DEF Drain, IInv, AttemptInv
    <3> QED
      BY <3>4, <3>5, <3>6, <3>7, <3>8 DEF IInv
  <2> QED
    BY <1>7, <2>1, <2>2 DEF Drain
<1>8. CASE Carry
  <2>1. /\ running \in Calls /\ running # Nobody /\ outcome = "none"
        /\ effects' = [effects EXCEPT ![running] = @ + 1] /\ outcome' \in {"done", "error"}
        /\ UNCHANGED <<callers, agentUp, priority, background, running>>
    BY <1>8 DEF Carry, IInv, ChannelTypeOK
  <2>2. effects[running] < attempt[running] /\ pc[running] \in {"wait", "gaveUp"}
    BY <2>1 DEF IInv, RunningInv
  <2>3. ChannelTypeOK'
    BY <2>1, <2>2 DEF IInv, ChannelTypeOK
  <2>4. QueueInv(priority)'
    BY <2>1, <2>2 DEF IInv, ChannelTypeOK, QueueInv, Owed, RunningInv
  <2>5. QueueInv(background)'
    BY <2>1, <2>2 DEF IInv, ChannelTypeOK, QueueInv, Owed, RunningInv
  <2>6. (RunningInv /\ AgentInv)'
    BY <2>1, <2>2 DEF IInv, ChannelTypeOK, RunningInv, AgentInv, QueueInv, Owed
  <2>7. AttemptInv'
    BY <2>1, <2>2 DEF IInv, ChannelTypeOK, AttemptInv, RunningInv
  <2> QED
    BY <2>3, <2>4, <2>5, <2>6, <2>7 DEF IInv
<1>9. CASE CommandFails
  BY <1>9 DEF CommandFails, IInv, ChannelTypeOK, QueueInv, RunningInv, AttemptInv, AgentInv, Owed
<1>10. CASE Answer
  <2>1. /\ \A c \in Calls : c # running => pc'[c] = pc[c]
        /\ pc' \in [Calls -> PCs] /\ running \in Calls
        /\ pc'[running] \in {"gaveUp", "ok", "failed"}
    BY <1>10 DEF Answer, IInv, ChannelTypeOK, RunningInv
  <2>3. ChannelTypeOK'
    BY <1>10, <2>1 DEF Answer, IInv, ChannelTypeOK
  <2>2. running' = Nobody /\ UNCHANGED <<attempt, priority, background, effects>>
    BY <1>10 DEF Answer
  <2>4. QueueInv(priority)'
    <3>1. ASSUME NEW i \in 1 .. Len(priority) PROVE Owed(priority[i])' /\ priority[i] # Nobody
      BY <2>1, <2>2 DEF IInv, QueueInv, Owed
    <3> QED
      BY <2>2, <3>1 DEF IInv, QueueInv, Distinct
  <2>5. QueueInv(background)'
    <3>1. ASSUME NEW i \in 1 .. Len(background) PROVE Owed(background[i])' /\ background[i] # Nobody
      BY <2>1, <2>2 DEF IInv, QueueInv, Owed
    <3> QED
      BY <2>2, <3>1 DEF IInv, QueueInv, Distinct
  <2>6. (RunningInv /\ AgentInv)'
    BY <1>10, <2>1 DEF Answer, IInv, ChannelTypeOK, RunningInv, AgentInv, QueueInv, Owed
  <2>7. AttemptInv'
    BY <1>10, <2>1 DEF Answer, IInv, ChannelTypeOK, AttemptInv, RunningInv
  <2> QED
    BY <2>3, <2>4, <2>5, <2>6, <2>7 DEF IInv
<1>11. CASE AgentDies
  <2>1. Len(priority') = 0 /\ Len(background') = 0
    BY <1>11 DEF AgentDies
  <2>2. \A c \in Calls : pc'[c] = IF pc[c] = "wait" THEN AfterTransient(c) ELSE pc[c]
    BY <1>11 DEF AgentDies
  <2>3. ChannelTypeOK'
    <3>1. pc' \in [Calls -> PCs]
      BY <1>11 DEF AgentDies, AfterTransient, IInv, ChannelTypeOK
    <3>2. priority' \in Seq(Mutations) /\ background' \in Seq(Calls \ Mutations)
      BY <1>11 DEF AgentDies
    <3> QED
      BY <1>11, <2>1, <3>1, <3>2, Len(background') <= MaxBackground DEF AgentDies, IInv, ChannelTypeOK
  <2>4. QueueInv(priority)' /\ QueueInv(background)'
    BY <2>1 DEF QueueInv, Distinct
  <2>5. (RunningInv /\ AgentInv)'
    BY <1>11 DEF AgentDies, RunningInv, AgentInv
  <2>6. AttemptInv'
    BY <1>11, <2>2 DEF AgentDies, AfterTransient, IInv, ChannelTypeOK, AttemptInv
  <2> QED
    BY <2>3, <2>4, <2>5, <2>6 DEF IInv
<1>12. CASE AgentStarts
  BY <1>12 DEF AgentStarts, IInv, ChannelTypeOK, QueueInv, RunningInv, AttemptInv, AgentInv, Owed
<1>13. CASE UNCHANGED vars
  BY <1>13 DEF IInv, ChannelTypeOK, QueueInv, RunningInv, AttemptInv, AgentInv, Owed
<1> QED
  BY <1>1, <1>2, <1>3, <1>4, <1>5, <1>6, <1>7, <1>8, <1>9, <1>10, <1>11, <1>12, <1>13
  DEF Next, CallerStep, WorkerStep

LEMMA Invariance == Spec => []IInv
<1>1. Init => IInv
  BY InitInv
<1>2. IInv /\ [Next]_vars => IInv'
  BY NextInv
<1> QED
  BY <1>1, <1>2, PTL DEF Spec

\* The agent's queues hold what they may hold, and never more reads than their
\* bound (ChannelTypeOK).
THEOREM ChannelTypes == Spec => []ChannelTypeOK
<1>1. IInv => ChannelTypeOK
  BY DEF IInv
<1> QED
  BY <1>1, Invariance, PTL

-----------------------------------------------------------------------------
\* Every step is a step of CommandService or changes nothing it speaks of.
LEMMA StepRefines == IInv /\ [Next]_vars => [Service!SNext]_(Service!svars)
<1> SUFFICES ASSUME IInv, [Next]_vars PROVE [Service!SNext]_(Service!svars)
  OBVIOUS
<1> USE ChannelAssumption DEF Service!svars, Service!SNext, StatusOf, Pending
<1> DEFINE st == [c \in Calls |-> StatusOf(c)]
<1>0. pc \in [Calls -> PCs] /\ effects \in [Calls -> Nat]
  BY DEF IInv, ChannelTypeOK
<1>1. ASSUME NEW c \in Calls, Execute(c) PROVE Service!Submit(c)
  BY <1>0, <1>1 DEF Execute, Service!Submit
<1>2. ASSUME NEW c \in Calls, ConnectRefused(c) PROVE Service!Fail(c) \/ UNCHANGED <<st, effects>>
  BY <1>0, <1>2 DEF ConnectRefused, AfterTransient, Service!Fail
<1>3. ASSUME NEW c \in Calls, Retry(c) \/ Request(c) PROVE UNCHANGED <<st, effects>>
  BY <1>0, <1>3 DEF Retry, Request
<1>4. ASSUME NEW c \in Calls, Deadline(c) PROVE Service!GiveUp(c)
  BY <1>0, <1>4 DEF Deadline, Service!GiveUp
<1>5. ASSUME NEW c \in Calls, RequestRefused(c) PROVE Service!Fail(c)
  BY <1>0, <1>5 DEF RequestRefused, Service!Fail
<1>6. CASE Drain \/ CommandFails \/ AgentStarts
  <2>1. pc' = pc /\ effects' = effects
    BY <1>6 DEF Drain, CommandFails, AgentStarts
  <2> QED
    BY <2>1
<1>7. ASSUME Carry PROVE \E c \in Calls : Service!Perform(c)
  <2>1. /\ running \in Calls /\ pc[running] \in {"wait", "gaveUp"}
        /\ effects[running] < attempt[running] /\ attempt[running] \in 0 .. MaxAttempts
        /\ pc' = pc /\ effects' = [effects EXCEPT ![running] = @ + 1]
    BY <1>7 DEF Carry, IInv, ChannelTypeOK, RunningInv
  <2>2. PICK c \in Calls : c = running
    BY <2>1
  <2>3. Service!Perform(c)
    BY <1>0, <2>1, <2>2 DEF Service!Perform
  <2> QED
    BY <2>3
<1>8. ASSUME Answer
      PROVE \/ \E c \in Calls : Service!Succeed(c) \/ Service!Fail(c)
            \/ UNCHANGED <<st, effects>>
  <2>1. running \in Calls /\ (outcome = "done" => effects[running] > 0) /\ effects' = effects
    BY <1>8 DEF Answer, IInv, ChannelTypeOK, RunningInv
  <2>2. PICK c \in Calls : c = running
    BY <2>1
  <2>3. CASE pc[c] = "wait" /\ outcome = "done"
    <3>1. Service!Succeed(c)
      BY <1>0, <1>8, <2>1, <2>2, <2>3 DEF Answer, Service!Succeed
    <3> QED
      BY <3>1
  <2>4. CASE pc[c] = "wait" /\ outcome # "done"
    <3>1. Service!Fail(c)
      BY <1>0, <1>8, <2>1, <2>2, <2>4 DEF Answer, Service!Fail
    <3> QED
      BY <3>1
  <2>5. CASE pc[c] # "wait"
    BY <1>8, <2>1, <2>2, <2>5 DEF Answer
  <2> QED
    BY <2>3, <2>4, <2>5
<1>9. ASSUME AgentDies PROVE \E S \in SUBSET Calls : Service!FailAll(S)
  <2>1. PICK S \in SUBSET Calls : S = {c \in Calls : pc[c] = "wait" /\ attempt[c] = MaxAttempts}
    OBVIOUS
  <2>2. Service!FailAll(S)
    BY <1>0, <1>9, <2>1 DEF AgentDies, AfterTransient, Service!FailAll
  <2> QED
    BY <2>2
<1>10. CASE UNCHANGED vars
  BY <1>10
<1>11. ASSUME NEW c \in Calls, Execute(c) \/ CallerStep(c) \/ Deadline(c)
       PROVE [Service!SNext]_(Service!svars)
  BY <1>1, <1>2, <1>3, <1>4, <1>5, <1>11 DEF CallerStep
<1>12. ASSUME WorkerStep PROVE [Service!SNext]_(Service!svars)
  BY <1>6, <1>7, <1>8, <1>12 DEF WorkerStep
<1>13. ASSUME AgentDies PROVE [Service!SNext]_(Service!svars)
  BY <1>9, <1>13
<1> QED
  BY <1>6, <1>10, <1>11, <1>12, <1>13 DEF Next

\* The channel implements the service (ImplementsService): whatever the agent,
\* its queues and the retries do, the answers keep their meaning.
THEOREM ChannelImplements == Spec => ImplementsService
<1>1. Init => Service!SInit
  BY DEF Init, Service!SInit, StatusOf, Pending
<1>2. IInv /\ [Next]_vars => [Service!SNext]_(Service!svars)
  BY StepRefines
<1> QED
  BY <1>1, <1>2, Invariance, PTL DEF Spec, ImplementsService, Service!SSpec
=============================================================================
