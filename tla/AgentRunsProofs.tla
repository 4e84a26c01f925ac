-------------------------- MODULE AgentRunsProofs --------------------------
(***************************************************************************)
(* What AgentService keeps true of an Agent and its Runs, for any number   *)
(* of messages, calls, store failures and restarts.                        *)
(***************************************************************************)
EXTENDS AgentRuns, SequenceTheorems, TLAPS

-----------------------------------------------------------------------------
(* The inductive invariant *)

\* An execution that has not settled.
Executing == {"launching", "setup", "inside", "closed", "completing", "ending"}
\* How an execution is over that recorded its end, or a message that started none.
Recorded == {"ended", "refused"}

\* Each call is at a step of its own kind, and one that waits to be made has no kind yet.
CallProgress ==
  /\ \A s \in Sends : pc[s] \in SendProgress \cup Over
  /\ \A c \in Controls : /\ pc[c] \in ControlProgress \cup Returned
                         /\ pc[c] = "idle" => kind[c] = "none"

\* What a Run is while its call is at a step.
RunFollowsCall ==
  \A s \in Sends :
    /\ pc[s] \in {"idle", "reserving", "reserved", "refused"} => run[s] = "none"
    /\ pc[s] \in Executing => run[s] \in {"queued", "running", "removed"}
    /\ pc[s] = "ended" => run[s] \in Terminal \cup {"removed"}
    /\ pc[s] = "ending" => outcome[s] \in {"failed", "cancelled"}
    /\ pc[s] = "closed" => outcome[s] # "none"

\* A reservation keeps its place at the head of the queue until it is persisted, so
\* that the status it looked at is still the status.
ReservedIsHead ==
  \A s \in Sends : pc[s] = "reserved" => AtHead(s) /\ status \in {"ready", "error"}

\* A deleted Agent has no Runs.
DeletedIsEmpty ==
  status = "deleted" => /\ "delete" \in Kinds
                        /\ \A s \in Sends : run[s] \in {"none", "removed"}

\* activeExecutions holds an execution that has not settled.
ExecutionIsLive == execution # None => pc[execution] \in Executing

\* The execution that a call found to cancel is over when the call goes on.
FoundIsSettled ==
  \A c \in Controls : \A s \in Sends : found[c] = s =>
    /\ pc[c] \notin {"idle", "signing", "closing"}
    /\ pc[c] \in {"cancelling", "awaiting"} => pc[s] \notin {"idle", "lost"}
    /\ pc[c] \in {"removing", "draining"} => pc[s] \in Over \ {"lost"}
    /\ pc[c] \in {"retiring", "setting", "done"} => pc[s] \in Recorded

NeverStopped == \A c \in Controls : kind[c] \notin {"stop", "delete"}

\* Until a stop or a delete: an open Run keeps its Agent busy and its Mandate current,
\* and an execution that has not settled is the one that activeExecutions holds.
Serial ==
  NeverStopped =>
    /\ status \notin {"stopped", "deleted"}
    /\ OneActiveRun
    /\ \A s \in Sends : run[s] # "removed"
    /\ \A s \in OpenRuns : status = "busy" /\ runMandate[s] = mandate
    /\ \A s \in Sends : pc[s] \in Executing => execution = s
    /\ ThreadOfCurrentMandate

IInv == /\ TypeOK /\ CallProgress /\ RunFollowsCall /\ ReservedIsHead /\ DeletedIsEmpty
        /\ ExecutionIsLive /\ FoundIsSettled /\ Serial /\ BusyHasOpenRun

-----------------------------------------------------------------------------
(* The queue, and the progress of calls *)

Progress == SendProgress \cup ControlProgress \cup Over \cup Returned

\* What TypeOK says of everything but the queue and the progress of the calls.
DataType ==
  /\ status \in {"ready", "busy", "stopped", "error", "deleted"}
  /\ mandate \in Nat
  /\ thread \in Sends \cup {None}
  /\ run \in [Sends -> {"none", "queued", "running", "removed"} \cup Terminal]
  /\ runMandate \in [Sends -> Nat]
  /\ session \in BOOLEAN
  /\ execution \in Sends \cup {None}
  /\ aborted \in [Sends -> BOOLEAN]
  /\ active \in Sends \cup {None}
  /\ killed \in [Sends -> BOOLEAN]
  /\ outcome \in [Sends -> {"none", "ok", "failed", "cancelled"}]
  /\ kind \in [Controls -> Kinds \cup {"none"}]
  /\ found \in [Controls -> Sends \cup {None}]
  /\ child \in [Controls -> Sends \cup {None}]
  /\ expected \in [Controls -> Nat]
  /\ cancelFailed \in [Controls -> BOOLEAN]
  /\ failures \in Nat /\ restarts \in Nat

\* The queue stays, or gets a new tail, or changes at the hands of the call at its head.
QueueStep(d) == \/ queue' = queue
                \/ Enqueue(d)
                \/ AtHead(d) /\ (Leave \/ LeaveAndEnqueue(d))

LEMMA TypeParts ==
  TypeOK <=> DataType /\ queue \in Seq(Calls) /\ pc \in [Calls -> Progress]
BY DEF TypeOK, DataType, Progress

LEMMA QueueTyped ==
  ASSUME NEW d \in Calls, queue \in Seq(Calls), QueueStep(d)
  PROVE  queue' \in Seq(Calls)
<1>1. CASE queue' = queue \/ Enqueue(d)
  BY <1>1 DEF Enqueue
<1>2. CASE AtHead(d) /\ (Leave \/ LeaveAndEnqueue(d))
  <2>1. Tail(queue) \in Seq(Calls)
    BY <1>2 DEF AtHead
  <2> QED BY <1>2, <2>1 DEF Leave, LeaveAndEnqueue
<1> QED BY <1>1, <1>2 DEF QueueStep

\* Whoever is at the head stays there while others join or leave.
LEMMA HeadKept ==
  ASSUME NEW d \in Calls, NEW s \in Calls, s # d,
         queue \in Seq(Calls), QueueStep(d), AtHead(s)
  PROVE  AtHead(s)' /\ ~AtHead(d)
<1>1. ~AtHead(d)
  BY DEF AtHead
<1>2. queue' = queue \/ queue' = Append(queue, d)
  BY <1>1 DEF QueueStep, Enqueue
<1>3. Append(queue, d) # <<>> /\ Head(Append(queue, d)) = Head(queue)
  BY DEF AtHead
<1> QED BY <1>1, <1>2, <1>3 DEF AtHead

\* One call goes on.
LEMMA OneGoes ==
  ASSUME NEW d \in Calls, NEW step \in Progress, Go(d, step), pc \in [Calls -> Progress]
  PROVE  /\ pc' \in [Calls -> Progress] /\ pc'[d] = step
         /\ \A e \in Calls : e # d => pc'[e] = pc[e]
BY DEF Go

\* The progress of a message is not that of another call.
LEMMA ProgressFacts ==
  /\ SendProgress \subseteq Progress /\ ControlProgress \subseteq Progress
  /\ Over \subseteq Progress /\ Returned \subseteq Progress
  /\ \A s \in Sends : s \in Calls
  /\ \A c \in Controls : c \in Calls /\ c \notin Sends
  /\ \A s \in Sends : s \notin Controls /\ s # None
BY AgentAssumption DEF Progress, Calls

-----------------------------------------------------------------------------
(* What the steps of a message do *)

\* The steps of a message that leave the Agent and the Runs alone.
SendMoves(s) ==
  /\ UNCHANGED <<status, mandate, thread, run, runMandate, kind, found>>
  /\ QueueStep(s)
  /\ \E step \in Progress : Go(s, step)
  /\ \A t \in Sends : t # s => outcome'[t] = outcome[t]
  /\ \/ /\ pc[s] \in {"idle", "reserving", "reserved"}
        /\ pc'[s] \in {"reserving", "reserved", "refused"}
        /\ execution' = execution
     \/ /\ pc[s] \in Executing /\ pc'[s] \in Executing
        /\ execution' = execution
     \/ /\ pc[s] \in Executing /\ pc'[s] = "broken"
        /\ execution' = IF execution = s THEN None ELSE execution
  /\ pc'[s] = "reserved" => AtHead(s)' /\ status \in {"ready", "error"}
  /\ pc'[s] = "ending" => outcome'[s] \in {"failed", "cancelled"}
  /\ pc'[s] = "closed" => outcome'[s] # "none"

LEMMA ReservationMoves ==
  ASSUME IInv, NEW s \in Sends, Send(s) \/ Reserve(s) \/ RefuseSend(s) \/ ReserveFails(s)
  PROVE  SendMoves(s) /\ DataType'
<1> USE ProgressFacts DEF agentVars, runVars, runtimeVars, callVars, bounds
<1>1. DataType /\ pc \in [Calls -> Progress] /\ queue \in Seq(Calls) /\ s \in Calls
      /\ ReservedIsHead
  BY TypeParts DEF IInv
<1>2. CASE Send(s)
  <2>1. pc'[s] = "reserving" /\ \E step \in Progress : Go(s, step)
    BY <1>1, <1>2 DEF Send, Go, SendProgress
  <2> QED BY <1>1, <1>2, <2>1 DEF Send, SendMoves, QueueStep, DataType
<1>3. CASE Reserve(s)
  <2>1. pc'[s] = "reserved" /\ \E step \in Progress : Go(s, step)
    BY <1>1, <1>3 DEF Reserve, Go, SendProgress
  <2>2. AtHead(s)' /\ status \in {"ready", "error"}
    BY <1>3 DEF Reserve, Admissible, AtHead
  <2> QED BY <1>1, <1>3, <2>1, <2>2 DEF Reserve, SendMoves, QueueStep, DataType
<1>4. CASE RefuseSend(s)
  <2>1. pc'[s] = "refused" /\ \E step \in Progress : Go(s, step)
    BY <1>1, <1>4 DEF RefuseSend, Go, Over
  <2> QED BY <1>1, <1>4, <2>1 DEF RefuseSend, SendMoves, QueueStep, DataType
<1>5. CASE ReserveFails(s)
  <2>1. pc'[s] = "refused" /\ \E step \in Progress : Go(s, step)
    BY <1>1, <1>5 DEF ReserveFails, Go, Over
  <2>2. AtHead(s)
    BY <1>1, <1>5 DEF ReserveFails, ReservedIsHead
  <2>3. DataType'
    BY <1>1, <1>5 DEF ReserveFails, StoreFails, DataType
  <2> QED BY <1>1, <1>5, <2>1, <2>2, <2>3 DEF ReserveFails, SendMoves, QueueStep
<1> QED BY <1>2, <1>3, <1>4, <1>5

LEMMA ContainerMoves ==
  ASSUME IInv, NEW s \in Sends,
         SpawnContainer(s) \/ SetupEnds(s) \/ ContainerCloses(s) \/ CleanUp(s) \/ CleanUpFails(s)
  PROVE  SendMoves(s) /\ DataType'
<1> USE ProgressFacts DEF agentVars, runVars, runtimeVars, callVars, bounds
<1>1. /\ DataType /\ pc \in [Calls -> Progress] /\ s \in Calls
      /\ pc[s] = "closed" => outcome[s] # "none"
      /\ outcome[s] \in {"none", "ok", "failed", "cancelled"}
  BY TypeParts DEF IInv, RunFollowsCall, DataType
<1>2. CASE SpawnContainer(s)
  <2>1. /\ \E step \in Progress : Go(s, step)
        /\ \/ pc'[s] = "inside" /\ outcome' = outcome
           \/ pc'[s] = "closed" /\ outcome' = [outcome EXCEPT ![s] = "failed"]
    BY <1>1, <1>2 DEF SpawnContainer, Go, SendProgress
  <2>2. DataType'
    BY <1>1, <1>2, <2>1 DEF SpawnContainer, DataType
  <2> QED BY <1>1, <1>2, <2>1, <2>2 DEF SpawnContainer, SendMoves, QueueStep, Executing, DataType
<1>3. CASE SetupEnds(s)
  <2>1. /\ pc'[s] = "ending" /\ \E step \in Progress : Go(s, step)
        /\ \E how \in {"failed", "cancelled"} : outcome' = [outcome EXCEPT ![s] = how]
    BY <1>1, <1>3 DEF SetupEnds, EndAs, Go, SendProgress
  <2>2. DataType'
    BY <1>1, <1>3, <2>1 DEF SetupEnds, DataType
  <2> QED BY <1>1, <1>3, <2>1, <2>2 DEF SetupEnds, SendMoves, QueueStep, Executing, DataType
<1>4. CASE ContainerCloses(s)
  <2>1. /\ pc'[s] = "closed" /\ \E step \in Progress : Go(s, step)
        /\ \E how \in {"ok", "failed", "cancelled"} : outcome' = [outcome EXCEPT ![s] = how]
    BY <1>1, <1>4 DEF ContainerCloses, Go, SendProgress
  <2>2. DataType'
    BY <1>1, <1>4, <2>1 DEF ContainerCloses, DataType
  <2> QED BY <1>1, <1>4, <2>1, <2>2
          DEF ContainerCloses, SendMoves, QueueStep, Executing, DataType
<1>5. CASE CleanUp(s)
  <2>1. /\ \E step \in Progress : Go(s, step)
        /\ \/ pc'[s] = "completing" /\ outcome' = outcome
           \/ /\ pc'[s] = "ending"
              /\ \E how \in {"failed", "cancelled"} : outcome' = [outcome EXCEPT ![s] = how]
    BY <1>1, <1>5 DEF CleanUp, EndAs, Go, SendProgress
  <2>2. DataType'
    BY <1>1, <1>5, <2>1 DEF CleanUp, DataType
  <2> QED BY <1>1, <1>5, <2>1, <2>2 DEF CleanUp, SendMoves, QueueStep, Executing, DataType
<1>6. CASE CleanUpFails(s)
  <2>1. /\ pc'[s] = "ending" /\ \E step \in Progress : Go(s, step)
        /\ outcome' = [outcome EXCEPT ![s] = "failed"]
    BY <1>1, <1>6 DEF CleanUpFails, EndAs, Go, SendProgress
  <2>2. DataType'
    BY <1>1, <1>6, <2>1 DEF CleanUpFails, DataType
  <2> QED BY <1>1, <1>6, <2>1, <2>2 DEF CleanUpFails, SendMoves, QueueStep, Executing, DataType
<1> QED BY <1>2, <1>3, <1>4, <1>5, <1>6

LEMMA FailureMoves ==
  ASSUME IInv, NEW s \in Sends, BeginFails(s) \/ CompleteFails(s) \/ EndFails(s)
  PROVE  SendMoves(s) /\ DataType'
<1> USE ProgressFacts DEF agentVars, runVars, runtimeVars, callVars, bounds
<1>1. DataType /\ pc \in [Calls -> Progress] /\ s \in Calls
  BY TypeParts DEF IInv
<1>2. CASE BeginFails(s) \/ EndFails(s)
  <2>1. /\ pc'[s] = "broken" /\ \E step \in Progress : Go(s, step)
        /\ execution' = IF execution = s THEN None ELSE execution
        /\ AtHead(s) /\ Leave /\ pc[s] \in Executing
    BY <1>1, <1>2 DEF BeginFails, EndFails, Settle, Go, Over, Executing
  <2>2. DataType'
    BY <1>1, <1>2, <2>1 DEF BeginFails, EndFails, StoreFails, DataType
  <2>3. UNCHANGED <<status, mandate, thread, run, runMandate, kind, found, outcome>>
    BY <1>2 DEF BeginFails, EndFails
  <2> QED BY <2>1, <2>2, <2>3 DEF SendMoves, QueueStep
<1>3. CASE CompleteFails(s)
  <2>1. /\ pc'[s] = "ending" /\ \E step \in Progress : Go(s, step)
        /\ outcome' = [outcome EXCEPT ![s] = "failed"]
    BY <1>1, <1>3 DEF CompleteFails, EndAs, Go, SendProgress
  <2>2. DataType'
    BY <1>1, <1>3, <2>1 DEF CompleteFails, StoreFails, DataType
  <2> QED BY <1>1, <1>3, <2>1, <2>2 DEF CompleteFails, SendMoves, QueueStep, Executing, DataType
<1> QED BY <1>2, <1>3

\* Such a step keeps the invariant.
LEMMA SendMovesKeeps ==
  ASSUME IInv, NEW s \in Sends, SendMoves(s), DataType'
  PROVE  IInv'
<1> USE ProgressFacts
<1>1. /\ s \in Calls /\ queue \in Seq(Calls) /\ pc \in [Calls -> Progress] /\ DataType
  BY TypeParts DEF IInv
<1>2. pc' \in [Calls -> Progress] /\ \A e \in Calls : e # s => pc'[e] = pc[e]
  BY <1>1, OneGoes DEF SendMoves
<1>3. TypeOK'
  <2>1. queue' \in Seq(Calls)
    BY <1>1, QueueTyped DEF SendMoves
  <2>2. (TypeOK <=> DataType /\ queue \in Seq(Calls) /\ pc \in [Calls -> Progress])'
    BY TypeParts, PTL
  <2> QED BY <1>2, <2>1, <2>2
<1>4. UNCHANGED <<status, mandate, thread, run, runMandate, kind, found>>
  BY DEF SendMoves
<1>5. /\ pc[s] \in {"idle", "reserving", "reserved"} \cup Executing
      /\ pc'[s] \in {"reserving", "reserved", "refused", "broken"} \cup Executing
  BY DEF SendMoves
<1>6. CallProgress'
  BY <1>2, <1>4, <1>5 DEF IInv, CallProgress, SendProgress, Over, Executing
<1>7. RunFollowsCall'
  <2> SUFFICES ASSUME NEW t \in Sends
               PROVE  /\ pc'[t] \in {"idle", "reserving", "reserved", "refused"} => run[t] = "none"
                      /\ pc'[t] \in Executing => run[t] \in {"queued", "running", "removed"}
                      /\ pc'[t] = "ended" => run[t] \in Terminal \cup {"removed"}
                      /\ pc'[t] = "ending" => outcome'[t] \in {"failed", "cancelled"}
                      /\ pc'[t] = "closed" => outcome'[t] # "none"
    BY <1>4 DEF RunFollowsCall
  <2>1. CASE t # s
    BY <1>2, <2>1 DEF SendMoves, IInv, RunFollowsCall
  <2>2. CASE t = s
    BY <2>2 DEF SendMoves, IInv, RunFollowsCall, Executing
  <2> QED BY <2>1, <2>2
<1>8. ReservedIsHead'
  <2> SUFFICES ASSUME NEW t \in Sends, pc'[t] = "reserved"
               PROVE  AtHead(t)' /\ status' \in {"ready", "error"}
    BY DEF ReservedIsHead
  <2>1. CASE t = s
    BY <1>4, <2>1 DEF SendMoves
  <2>2. CASE t # s
    BY <1>1, <1>2, <1>4, <2>2, HeadKept DEF SendMoves, IInv, ReservedIsHead
  <2> QED BY <2>1, <2>2
<1>9. DeletedIsEmpty'
  BY <1>4 DEF IInv, DeletedIsEmpty
<1>10. ExecutionIsLive'
  <2> SUFFICES ASSUME execution' # None PROVE pc'[execution'] \in Executing
    BY DEF ExecutionIsLive, Executing
  <2>1. execution' = execution /\ execution \in Sends /\ pc[execution] \in Executing
    BY DEF SendMoves, IInv, ExecutionIsLive, TypeOK
  <2>2. CASE execution = s
    BY <2>1, <2>2 DEF SendMoves, Executing
  <2>3. CASE execution # s
    BY <1>2, <2>1, <2>3
  <2> QED BY <2>1, <2>2, <2>3
<1>11. FoundIsSettled'
  <2> SUFFICES ASSUME NEW c \in Controls, NEW t \in Sends, found[c] = t
               PROVE  /\ pc[c] \notin {"idle", "signing", "closing"}
                      /\ pc[c] \in {"cancelling", "awaiting"} => pc'[t] \notin {"idle", "lost"}
                      /\ pc[c] \in {"removing", "draining"} => pc'[t] \in Over \ {"lost"}
                      /\ pc[c] \in {"retiring", "setting", "done"} => pc'[t] \in Recorded
    BY <1>2, <1>4 DEF FoundIsSettled, Over, Recorded
  <2>1. CASE t # s
    BY <1>2, <2>1 DEF IInv, FoundIsSettled
  <2>2. CASE t = s
    BY <1>5, <2>2 DEF IInv, FoundIsSettled, Executing, Over, Recorded
  <2> QED BY <2>1, <2>2
<1>12. OpenRuns' = OpenRuns
  BY <1>4 DEF OpenRuns
<1>13. Serial'
  <2> SUFFICES ASSUME NeverStopped, NEW t \in Sends, pc'[t] \in Executing PROVE execution' = t
    BY <1>4, <1>12 DEF IInv, Serial, NeverStopped, OneActiveRun, ThreadOfCurrentMandate, Executing
  <2>1. pc[t] \in Executing
    BY <1>2 DEF SendMoves, Executing
  <2>2. execution = t
    BY <2>1 DEF IInv, Serial
  <2> QED BY <2>2 DEF SendMoves, Executing
<1>14. BusyHasOpenRun'
  BY <1>4, <1>12 DEF IInv, BusyHasOpenRun
<1> QED BY <1>3, <1>6, <1>7, <1>8, <1>9, <1>10, <1>11, <1>13, <1>14 DEF IInv

-----------------------------------------------------------------------------
(* What the other calls do *)

\* The steps of a call that leave the Agent and the Runs alone.
ControlMoves(c) ==
  /\ UNCHANGED <<status, mandate, thread, run, runMandate, execution, outcome>>
  /\ QueueStep(c)
  /\ \E step \in (ControlProgress \cup Returned) \ {"idle"} : Go(c, step)
  /\ \A d \in Controls : d # c => kind'[d] = kind[d] /\ found'[d] = found[d]
  /\ pc[c] # "idle" => kind'[c] = kind[c]
  /\ \A s \in Sends : found'[c] = s =>
       /\ pc'[c] \notin {"signing", "closing"}
       /\ pc'[c] \in {"cancelling", "awaiting"} => pc[s] \notin {"idle", "lost"}
       /\ pc'[c] \in {"removing", "draining"} => pc[s] \in Over \ {"lost"}
       /\ pc'[c] \in {"retiring", "setting", "done"} => pc[s] \in Recorded

LEMMA RequestMoves ==
  ASSUME IInv, NEW c \in Controls,
         CallStart(c) \/ CallIdle(c) \/ CallRehearse(c) \/ CallShutdown(c)
  PROVE  ControlMoves(c) /\ DataType'
<1> USE ProgressFacts DEF agentVars, runVars, runtimeVars, callVars, bounds
<1>1. /\ DataType /\ pc \in [Calls -> Progress] /\ c \in Calls
      /\ pc[c] = "idle" => found[c] \notin Sends
  BY TypeParts DEF IInv, FoundIsSettled
<1>2. /\ pc[c] = "idle" /\ UNCHANGED found
      /\ UNCHANGED <<status, mandate, thread, run, runMandate, execution, outcome>>
      /\ \E k \in Kinds : kind' = [kind EXCEPT ![c] = k]
  BY DEF CallStart, CallIdle, CallRehearse, CallShutdown
<1>3. \E step \in (ControlProgress \cup Returned) \ {"idle"} : Go(c, step)
  BY DEF CallStart, CallIdle, CallRehearse, CallShutdown, EndSession, ControlProgress
<1>4. QueueStep(c)
  BY DEF CallStart, CallIdle, CallRehearse, CallShutdown, EndSession, QueueStep
<1>5. DataType'
  <2>1. kind' \in [Controls -> Kinds \cup {"none"}]
    BY <1>1, <1>2 DEF DataType
  <2>2. /\ session' = session \/ session' = FALSE
        /\ expected' = expected \/ expected' = [expected EXCEPT ![c] = mandate]
        /\ UNCHANGED <<aborted, active, killed, child, cancelFailed, failures, restarts>>
    <3>1. CASE CallStart(c) \/ CallShutdown(c)
      BY <3>1 DEF CallStart, CallShutdown
    <3>2. CASE CallIdle(c)
      BY <3>2 DEF CallIdle, EndSession
    <3>3. CASE CallRehearse(c)
      BY <3>3 DEF CallRehearse
    <3> QED BY <3>1, <3>2, <3>3
  <2>3. session' \in BOOLEAN
    BY <1>1, <2>2, Zenon DEF DataType
  <2>4. expected' \in [Controls -> Nat]
    BY <1>1, <2>2 DEF DataType
  <2> QED BY <1>1, <1>2, <2>1, <2>2, <2>3, <2>4 DEF DataType
<1>6. \A d \in Controls : d # c => kind'[d] = kind[d] /\ found'[d] = found[d]
  BY <1>1, <1>2 DEF DataType
<1> QED BY <1>1, <1>2, <1>3, <1>4, <1>5, <1>6 DEF ControlMoves

LEMMA CancelMoves ==
  ASSUME IInv, NEW c \in Controls, CancelExecution(c),
         kind' = kind \/ (pc[c] = "idle" /\ \E k \in Kinds : kind' = [kind EXCEPT ![c] = k])
  PROVE  ControlMoves(c) /\ DataType'
<1> USE ProgressFacts DEF agentVars, runVars, runtimeVars, callVars, bounds
<1>1. DataType /\ pc \in [Calls -> Progress] /\ c \in Calls /\ ExecutionIsLive
  BY TypeParts DEF IInv
<1>2. pc'[c] = "cancelling" /\ \E step \in (ControlProgress \cup Returned) \ {"idle"} : Go(c, step)
  BY <1>1 DEF CancelExecution, Go, ControlProgress
<1>3. /\ kind' \in [Controls -> Kinds \cup {"none"}]
      /\ \A d \in Controls : d # c => kind'[d] = kind[d]
      /\ pc[c] # "idle" => kind'[c] = kind[c]
  BY <1>1 DEF DataType
<1>4. /\ found' \in [Controls -> Sends \cup {None}] /\ found'[c] = execution
      /\ \A d \in Controls : d # c => found'[d] = found[d]
  BY <1>1 DEF CancelExecution, DataType
<1>5. DataType'
  BY <1>1, <1>3, <1>4 DEF CancelExecution, DataType
<1>6. \A s \in Sends : found'[c] = s => pc[s] \notin {"idle", "lost"}
  BY <1>1, <1>4 DEF ExecutionIsLive, Executing
<1> QED BY <1>2, <1>3, <1>4, <1>5, <1>6 DEF CancelExecution, ControlMoves, QueueStep

LEMMA AnswerMoves ==
  ASSUME IInv, NEW c \in Controls,
         \/ Cancelled(c) \/ CancelThrows(c) \/ Cancel(c) \/ Authorized(c) \/ NotAuthorized(c)
         \/ Refuse(c) \/ SettingFails(c) \/ AllSettled(c)
  PROVE  ControlMoves(c) /\ DataType'
<1> USE ProgressFacts DEF agentVars, runVars, runtimeVars, callVars, bounds
<1>1. /\ DataType /\ pc \in [Calls -> Progress] /\ c \in Calls
      /\ FoundIsSettled
  BY TypeParts DEF IInv
<1>2. /\ UNCHANGED <<status, mandate, thread, run, runMandate, execution, outcome, kind, found>>
      /\ UNCHANGED <<aborted, active, killed, child, expected, restarts>>
  BY DEF Cancelled, CancelThrows, Cancel, Authorized, NotAuthorized, Refuse, SettingFails,
         AllSettled, EndSession, StoreFails
<1>3. DataType'
  <2>1. /\ cancelFailed' = cancelFailed \/ cancelFailed' = [cancelFailed EXCEPT ![c] = TRUE]
        /\ session' = session \/ session' = FALSE
        /\ failures' = failures \/ failures' = failures + 1
    <3>1. CASE Cancelled(c) \/ Cancel(c) \/ SettingFails(c)
      BY <3>1 DEF Cancelled, Cancel, EndSession, SettingFails, StoreFails
    <3>2. CASE CancelThrows(c) \/ Authorized(c) \/ NotAuthorized(c) \/ Refuse(c) \/ AllSettled(c)
      BY <3>2 DEF CancelThrows, Authorized, NotAuthorized, Refuse, AllSettled
    <3> QED BY <3>1, <3>2
  <2>2. session' \in BOOLEAN
    BY <1>1, <2>1, Zenon DEF DataType
  <2>3. [cancelFailed EXCEPT ![c] = TRUE] \in [Controls -> BOOLEAN]
    BY <1>1, Zenon DEF DataType
  <2>4. cancelFailed' \in [Controls -> BOOLEAN]
    BY <1>1, <2>1, <2>3, Zenon DEF DataType
  <2>5. failures' \in Nat
    BY <1>1, <2>1 DEF DataType
  <2> QED BY <1>1, <1>2, <2>2, <2>4, <2>5 DEF DataType
<1>4. \E step \in (ControlProgress \cup Returned) \ {"idle"} : Go(c, step)
  BY DEF Cancelled, CancelThrows, Cancel, Authorized, NotAuthorized, Refuse, SettingFails,
         AllSettled, EndSession, ControlProgress, Returned
<1>5. QueueStep(c)
  BY DEF Cancelled, CancelThrows, Cancel, Authorized, NotAuthorized, Refuse, SettingFails,
         AllSettled, EndSession, QueueStep
<1>6. ASSUME NEW s \in Sends, found[c] = s
      PROVE  /\ pc'[c] \notin {"signing", "closing"}
             /\ pc'[c] \in {"cancelling", "awaiting"} => pc[s] \notin {"idle", "lost"}
             /\ pc'[c] \in {"removing", "draining"} => pc[s] \in Over \ {"lost"}
             /\ pc'[c] \in {"retiring", "setting", "done"} => pc[s] \in Recorded
  <2>1. CASE Cancelled(c)
    BY <1>1, <1>6, <2>1 DEF Cancelled, Go, FoundIsSettled
  <2>2. CASE CancelThrows(c) \/ NotAuthorized(c) \/ Refuse(c) \/ SettingFails(c)
    BY <1>1, <2>2 DEF CancelThrows, NotAuthorized, Refuse, SettingFails, Go
  <2>3. CASE Cancel(c)
    <3>1. pc[s] \in Recorded
      BY <1>1, <1>6, <2>3 DEF Cancel, FoundIsOver, FoundIsSettled, Over, Recorded
    <3>2. pc'[c] \in {"retiring", "setting"}
      BY <1>1, <2>3 DEF Cancel, EndSession, Go
    <3> QED BY <3>1, <3>2
  <2>4. CASE Authorized(c)
    BY <1>1, <1>6, <2>4 DEF Authorized, Go, FoundIsSettled
  <2>5. CASE AllSettled(c)
    BY <1>1, <1>6, <2>5 DEF AllSettled, Go, FoundIsOver, FoundIsSettled, Over
  <2> QED BY <2>1, <2>2, <2>3, <2>4, <2>5
<1> QED BY <1>2, <1>3, <1>4, <1>5, <1>6 DEF ControlMoves

LEMMA ShutdownMoves ==
  ASSUME IInv, NEW c \in Controls, CancelAll(c) \/ RemoveAll(c) \/ Drained(c)
  PROVE  ControlMoves(c) /\ DataType'
<1> USE ProgressFacts DEF agentVars, runVars, runtimeVars, callVars, bounds
<1>1. DataType /\ pc \in [Calls -> Progress] /\ c \in Calls /\ FoundIsSettled
  BY TypeParts DEF IInv
<1>2. CASE CancelAll(c) /\ execution # None
  BY <1>2, CancelMoves DEF CancelAll
<1>3. CASE CancelAll(c) /\ execution = None
  <2>1. /\ pc'[c] = "removing"
        /\ \E step \in (ControlProgress \cup Returned) \ {"idle"} : Go(c, step)
    BY <1>1, <1>3 DEF CancelAll, Go, ControlProgress
  <2>2. found[c] \notin Sends
    BY <1>1, <1>3 DEF CancelAll, FoundIsSettled
  <2>3. DataType'
    BY <1>1, <1>3 DEF CancelAll, DataType
  <2> QED BY <1>3, <2>1, <2>2, <2>3 DEF CancelAll, ControlMoves, QueueStep
<1>4. CASE RemoveAll(c)
  <2>1. /\ pc[c] = "removing" /\ pc'[c] = "draining"
        /\ \E step \in (ControlProgress \cup Returned) \ {"idle"} : Go(c, step)
    BY <1>1, <1>4 DEF RemoveAll, Go, ControlProgress
  <2>2. DataType'
    BY <1>1, <1>4 DEF RemoveAll, DataType
  <2>3. \A s \in Sends : found[c] = s => pc[s] \in Over \ {"lost"}
    BY <1>1, <2>1 DEF FoundIsSettled
  <2> QED BY <1>4, <2>1, <2>2, <2>3 DEF RemoveAll, ControlMoves, QueueStep
<1>5. CASE Drained(c)
  <2>1. /\ pc[c] = "draining" /\ pc'[c] \in {"done", "failed"}
        /\ \E step \in (ControlProgress \cup Returned) \ {"idle"} : Go(c, step)
        /\ \A s \in Sends : pc'[c] = "done" /\ found[c] = s => pc[s] # "broken"
    BY <1>1, <1>5 DEF Drained, Go, Returned
  <2>2. DataType'
    BY <1>1, <1>5 DEF Drained, DataType
  <2>3. \A s \in Sends : found[c] = s => pc[s] \in Over \ {"lost"}
    BY <1>1, <2>1 DEF FoundIsSettled
  <2>4. \A s \in Sends : pc'[c] = "done" /\ found[c] = s => pc[s] \in Recorded
    BY <2>1, <2>3 DEF Over, Recorded
  <2> QED BY <1>5, <2>1, <2>2, <2>4 DEF Drained, ControlMoves, QueueStep
<1> QED BY <1>2, <1>3, <1>4, <1>5

\* Such a step keeps the invariant.
LEMMA ControlMovesKeeps ==
  ASSUME IInv, NEW c \in Controls, ControlMoves(c), DataType'
  PROVE  IInv'
<1> USE ProgressFacts
<1>1. /\ c \in Calls /\ queue \in Seq(Calls) /\ pc \in [Calls -> Progress] /\ DataType
  BY TypeParts DEF IInv
<1>2. /\ pc' \in [Calls -> Progress] /\ \A e \in Calls : e # c => pc'[e] = pc[e]
      /\ pc'[c] \in (ControlProgress \cup Returned) \ {"idle"}
  <2> PICK step \in (ControlProgress \cup Returned) \ {"idle"} : Go(c, step)
    BY DEF ControlMoves
  <2>1. step \in Progress
    BY DEF Progress
  <2> QED BY <1>1, <2>1, OneGoes
<1>3. TypeOK'
  <2>1. queue' \in Seq(Calls)
    BY <1>1, QueueTyped DEF ControlMoves
  <2>2. (TypeOK <=> DataType /\ queue \in Seq(Calls) /\ pc \in [Calls -> Progress])'
    BY TypeParts, PTL
  <2> QED BY <1>2, <2>1, <2>2
<1>4. UNCHANGED <<status, mandate, thread, run, runMandate, execution, outcome>>
  BY DEF ControlMoves
<1>5. \A s \in Sends : pc'[s] = pc[s]
  BY <1>2
<1>6. /\ \A d \in Controls : d # c => pc'[d] = pc[d] /\ kind'[d] = kind[d] /\ found'[d] = found[d]
      /\ pc[c] # "idle" => kind'[c] = kind[c]
  BY <1>2 DEF ControlMoves
<1>7. CallProgress'
  BY <1>2, <1>5, <1>6 DEF IInv, CallProgress
<1>8. RunFollowsCall'
  BY <1>4, <1>5 DEF IInv, RunFollowsCall, Executing
<1>9. ReservedIsHead'
  <2> SUFFICES ASSUME NEW t \in Sends, pc'[t] = "reserved"
               PROVE  AtHead(t)' /\ status' \in {"ready", "error"}
    BY DEF ReservedIsHead
  <2>1. AtHead(t) /\ status \in {"ready", "error"}
    BY <1>5 DEF IInv, ReservedIsHead
  <2>2. QueueStep(c) /\ t # c
    BY DEF ControlMoves
  <2> QED BY <1>1, <1>4, <2>1, <2>2, HeadKept
<1>10. DeletedIsEmpty'
  BY <1>4 DEF IInv, DeletedIsEmpty
<1>11. ExecutionIsLive'
  BY <1>3, <1>4, <1>5 DEF IInv, ExecutionIsLive, Executing, TypeOK
<1>12. FoundIsSettled'
  <2> SUFFICES ASSUME NEW d \in Controls, NEW t \in Sends, found'[d] = t
               PROVE  /\ pc'[d] \notin {"idle", "signing", "closing"}
                      /\ pc'[d] \in {"cancelling", "awaiting"} => pc'[t] \notin {"idle", "lost"}
                      /\ pc'[d] \in {"removing", "draining"} => pc'[t] \in Over \ {"lost"}
                      /\ pc'[d] \in {"retiring", "setting", "done"} => pc'[t] \in Recorded
    BY DEF FoundIsSettled, Over, Recorded
  <2>1. CASE d # c
    BY <1>5, <1>6, <2>1 DEF IInv, FoundIsSettled
  <2>2. CASE d = c
    BY <1>2, <1>5, <2>2 DEF ControlMoves
  <2> QED BY <2>1, <2>2
<1>13. OpenRuns' = OpenRuns
  BY <1>4 DEF OpenRuns
<1>14. Serial'
  <2> SUFFICES ASSUME NeverStopped' PROVE Serial'
    BY DEF Serial
  <2>1. NeverStopped
    BY <1>6 DEF NeverStopped, IInv, CallProgress
  <2> QED BY <1>4, <1>5, <1>13, <2>1
          DEF IInv, Serial, OneActiveRun, ThreadOfCurrentMandate, Executing
<1>15. BusyHasOpenRun'
  BY <1>4, <1>13 DEF IInv, BusyHasOpenRun
<1> QED BY <1>3, <1>7, <1>8, <1>9, <1>10, <1>11, <1>12, <1>14, <1>15 DEF IInv

-----------------------------------------------------------------------------
(* The mutations that change the Agent or its Runs *)

\* Its Agent's removal apart, a Run that has ended stays as it ended, and an execution
\* that has recorded its end does nothing more.
EndedStays ==
  \A s \in Sends :
    /\ pc[s] \in Recorded => pc'[s] = pc[s]
    /\ run[s] \in Terminal \/ pc[s] \in Recorded => run'[s] \in {run[s], "removed"}

\* No reservation waits while another call is at the head of the queue.
LEMMA HeadAlone ==
  ASSUME IInv, NEW d \in Calls, AtHead(d), pc'[d] # "reserved",
         \A e \in Calls : e # d => pc'[e] = pc[e]
  PROVE  ReservedIsHead'
BY ProgressFacts DEF IInv, ReservedIsHead, AtHead

\* What a mutation of an execution does to the queue and to the progress of the calls.
LEMMA SendPlaces ==
  ASSUME IInv, NEW s \in Sends, NEW step \in Executing \cup {"ended"},
         pc[s] \in Executing \cup {"reserved"}, AtHead(s), Leave \/ LeaveAndEnqueue(s),
         Go(s, step), UNCHANGED <<kind, found>>, DataType'
  PROVE  /\ TypeOK' /\ CallProgress' /\ ReservedIsHead' /\ FoundIsSettled'
         /\ pc'[s] = step /\ \A t \in Sends : t # s => pc'[t] = pc[t]
<1> USE ProgressFacts
<1>1. s \in Calls /\ queue \in Seq(Calls) /\ pc \in [Calls -> Progress] /\ step \in Progress
  BY TypeParts DEF IInv, Executing, SendProgress, Over
<1>2. pc' \in [Calls -> Progress] /\ pc'[s] = step /\ \A e \in Calls : e # s => pc'[e] = pc[e]
  BY <1>1, OneGoes
<1>3. TypeOK'
  <2>1. queue' \in Seq(Calls)
    BY <1>1, QueueTyped DEF QueueStep
  <2>2. (TypeOK <=> DataType /\ queue \in Seq(Calls) /\ pc \in [Calls -> Progress])'
    BY TypeParts, PTL
  <2> QED BY <1>2, <2>1, <2>2
<1>4. CallProgress'
  BY <1>2 DEF IInv, CallProgress, SendProgress, Over, Executing
<1>5. ReservedIsHead'
  BY <1>1, <1>2, HeadAlone DEF Executing
<1>6. FoundIsSettled'
  <2> SUFFICES ASSUME NEW c \in Controls, NEW t \in Sends, found[c] = t
               PROVE  /\ pc[c] \notin {"idle", "signing", "closing"}
                      /\ pc[c] \in {"cancelling", "awaiting"} => pc'[t] \notin {"idle", "lost"}
                      /\ pc[c] \in {"removing", "draining"} => pc'[t] \in Over \ {"lost"}
                      /\ pc[c] \in {"retiring", "setting", "done"} => pc'[t] \in Recorded
    BY <1>2 DEF FoundIsSettled, Over, Recorded
  <2>1. CASE t # s
    BY <1>2, <2>1 DEF IInv, FoundIsSettled
  <2>2. CASE t = s
    BY <1>2, <2>2 DEF IInv, FoundIsSettled, Executing, Over, Recorded
  <2> QED BY <2>1, <2>2
<1> QED BY <1>2, <1>3, <1>4, <1>5, <1>6

\* And what that of another call does.
LEMMA ControlPlaces ==
  ASSUME IInv, NEW c \in Controls, pc[c] = "setting", AtHead(c), Leave, Go(c, "done"),
         UNCHANGED <<kind, found>>, DataType'
  PROVE  /\ TypeOK' /\ CallProgress' /\ ReservedIsHead' /\ FoundIsSettled'
         /\ \A s \in Sends : pc'[s] = pc[s]
<1> USE ProgressFacts
<1>1. c \in Calls /\ queue \in Seq(Calls) /\ pc \in [Calls -> Progress] /\ "done" \in Progress
  BY TypeParts DEF IInv, Returned, Progress
<1>2. /\ pc' \in [Calls -> Progress] /\ pc'[c] = "done"
      /\ \A e \in Calls : e # c => pc'[e] = pc[e]
  BY <1>1, OneGoes
<1>3. TypeOK'
  <2>1. queue' \in Seq(Calls)
    BY <1>1, QueueTyped DEF QueueStep
  <2>2. (TypeOK <=> DataType /\ queue \in Seq(Calls) /\ pc \in [Calls -> Progress])'
    BY TypeParts, PTL
  <2> QED BY <1>2, <2>1, <2>2
<1>4. CallProgress'
  BY <1>2 DEF IInv, CallProgress, Returned
<1>5. ReservedIsHead'
  BY <1>1, <1>2, HeadAlone
<1>6. FoundIsSettled'
  BY <1>2 DEF IInv, FoundIsSettled, Over, Recorded
<1> QED BY <1>2, <1>3, <1>4, <1>5, <1>6

LEMMA LaunchKeeps ==
  ASSUME IInv, NEW s \in Sends, Launch(s)
  PROVE  IInv' /\ EndedStays
<1> USE ProgressFacts DEF agentVars, runVars, runtimeVars, callVars, bounds
<1>1. /\ DataType /\ RunFollowsCall /\ pc[s] = "reserved"
      /\ run[s] = "none" /\ AtHead(s) /\ status \in {"ready", "error"}
  BY TypeParts DEF IInv, Launch, RunFollowsCall, ReservedIsHead
<1>2. /\ status' = "busy" /\ execution' = s
      /\ UNCHANGED <<mandate, thread, outcome, kind, found>>
      /\ run'[s] = "queued" /\ \A t \in Sends : t # s => run'[t] = run[t]
      /\ runMandate'[s] = mandate /\ \A t \in Sends : t # s => runMandate'[t] = runMandate[t]
  BY <1>1 DEF Launch, DataType
<1>3. DataType'
  BY <1>1 DEF Launch, DataType
<1>4. /\ TypeOK' /\ CallProgress' /\ ReservedIsHead' /\ FoundIsSettled'
      /\ pc'[s] = "launching" /\ \A t \in Sends : t # s => pc'[t] = pc[t]
  BY <1>1, <1>3, SendPlaces DEF Launch, Executing
<1>5. RunFollowsCall'
  BY <1>1, <1>2, <1>4 DEF RunFollowsCall, Executing
<1>6. DeletedIsEmpty'
  BY <1>2 DEF DeletedIsEmpty
<1>7. ExecutionIsLive'
  BY <1>2, <1>4 DEF ExecutionIsLive, Executing
<1>8. Serial'
  <2> SUFFICES ASSUME NeverStopped PROVE Serial'
    BY <1>2 DEF Serial, NeverStopped
  <2>1. /\ \A t \in Sends : run[t] \notin {"queued", "running", "removed"}
        /\ ThreadOfCurrentMandate
    BY <1>1 DEF IInv, Serial, OpenRuns
  <2>2. \A t \in Sends : pc[t] \notin Executing
    BY <1>1, <2>1 DEF RunFollowsCall
  <2>3. \A t \in Sends : t \in OpenRuns' => t = s
    BY <1>2, <2>1 DEF OpenRuns
  <2>4. OneActiveRun'
    BY <2>3 DEF OneActiveRun, OpenRuns
  <2>5. ThreadOfCurrentMandate'
    BY <1>1, <1>2, <2>1 DEF ThreadOfCurrentMandate, DataType
  <2>6. \A t \in Sends : run'[t] # "removed" /\ (pc'[t] \in Executing => execution' = t)
    BY <1>2, <1>4, <2>1, <2>2
  <2>7. \A t \in OpenRuns' : status' = "busy" /\ runMandate'[t] = mandate'
    BY <1>2, <2>3 DEF OpenRuns
  <2> QED BY <1>2, <2>4, <2>5, <2>6, <2>7 DEF Serial, Executing
<1>9. BusyHasOpenRun'
  BY <1>2 DEF BusyHasOpenRun, OpenRuns
<1>10. EndedStays
  BY <1>1, <1>2, <1>4 DEF EndedStays, Recorded, Terminal
<1> QED BY <1>4, <1>5, <1>6, <1>7, <1>8, <1>9, <1>10 DEF IInv

LEMMA BeginKeeps ==
  ASSUME IInv, NEW s \in Sends, Begin(s)
  PROVE  IInv' /\ EndedStays
<1> USE ProgressFacts DEF agentVars, runVars, runtimeVars, callVars, bounds
<1>1. /\ DataType /\ RunFollowsCall /\ pc[s] = "launching" /\ AtHead(s)
      /\ run[s] \in {"queued", "running", "removed"}
  BY TypeParts DEF IInv, Begin, RunFollowsCall, Executing
<1>2. /\ UNCHANGED <<status, mandate, thread, runMandate, execution, kind, found>>
      /\ UNCHANGED <<session, aborted, active, killed, child, expected, cancelFailed>>
      /\ UNCHANGED <<failures, restarts>>
      /\ run' = [run EXCEPT ![s] = IF Present(s) THEN "running" ELSE @]
      /\ Leave \/ LeaveAndEnqueue(s)
  BY DEF Begin, CancelBeforeBegin
<1>3. \E step \in {"ending", "setup"} :
        /\ Go(s, step)
        /\ \/ step = "setup" /\ outcome' = outcome
           \/ \E how \in {"failed", "cancelled"} : outcome' = [outcome EXCEPT ![s] = how]
  BY DEF Begin, CancelBeforeBegin, EndAs
<1>4. /\ \A t \in Sends : t # s => run'[t] = run[t] /\ outcome'[t] = outcome[t]
      /\ run[s] = "removed" => run'[s] = "removed"
      /\ run[s] # "removed" => run'[s] = "running"
      /\ DataType'
  BY <1>1, <1>2, <1>3 DEF DataType, Present
<1>5. /\ TypeOK' /\ CallProgress' /\ ReservedIsHead' /\ FoundIsSettled'
      /\ pc'[s] \in {"ending", "setup"} /\ \A t \in Sends : t # s => pc'[t] = pc[t]
      /\ pc'[s] = "ending" => outcome'[s] \in {"failed", "cancelled"}
  <2> PICK step \in {"ending", "setup"} :
             /\ Go(s, step)
             /\ \/ step = "setup" /\ outcome' = outcome
                \/ \E how \in {"failed", "cancelled"} : outcome' = [outcome EXCEPT ![s] = how]
    BY <1>3
  <2>1. step \in Executing \cup {"ended"} /\ pc[s] \in Executing \cup {"reserved"}
    BY <1>1 DEF Executing
  <2>2. /\ TypeOK' /\ CallProgress' /\ ReservedIsHead' /\ FoundIsSettled'
        /\ pc'[s] = step /\ \A t \in Sends : t # s => pc'[t] = pc[t]
    BY <1>1, <1>2, <1>4, <2>1, SendPlaces
  <2> QED BY <1>1, <2>2 DEF DataType
<1>6. RunFollowsCall'
  BY <1>1, <1>4, <1>5 DEF RunFollowsCall, Executing
<1>7. DeletedIsEmpty'
  <2> SUFFICES ASSUME status = "deleted" PROVE DeletedIsEmpty'
    BY <1>2 DEF DeletedIsEmpty
  <2>1. "delete" \in Kinds /\ \A t \in Sends : run[t] \in {"none", "removed"}
    BY DEF IInv, DeletedIsEmpty
  <2> QED BY <1>1, <1>4, <2>1 DEF DeletedIsEmpty
<1>8. ExecutionIsLive'
  <2>1. execution \in Sends \cup {None} /\ execution' = execution
    BY <1>1, <1>2 DEF DataType
  <2>2. execution # None => pc[execution] \in Executing
    BY DEF IInv, ExecutionIsLive
  <2> QED BY <1>5, <2>1, <2>2 DEF ExecutionIsLive, Executing
<1>9. OpenRuns' = OpenRuns
  BY <1>1, <1>4 DEF OpenRuns
<1>10. Serial'
  <2> SUFFICES ASSUME NeverStopped PROVE Serial'
    BY <1>2 DEF Serial, NeverStopped
  <2>1. \A t \in Sends : run'[t] # "removed"
    BY <1>4 DEF IInv, Serial
  <2>2. \A t \in Sends : pc'[t] \in Executing => execution' = t
    BY <1>1, <1>2, <1>5 DEF IInv, Serial, Executing
  <2> QED BY <1>2, <1>9, <2>1, <2>2
          DEF IInv, Serial, OneActiveRun, ThreadOfCurrentMandate, Executing
<1>11. BusyHasOpenRun'
  BY <1>2, <1>9 DEF IInv, BusyHasOpenRun
<1>12. EndedStays
  BY <1>1, <1>4, <1>5 DEF EndedStays, Recorded, Terminal
<1> QED BY <1>5, <1>6, <1>7, <1>8, <1>10, <1>11, <1>12 DEF IInv

LEMMA CompleteKeeps ==
  ASSUME IInv, NEW s \in Sends, Complete(s)
  PROVE  IInv' /\ EndedStays
<1> USE ProgressFacts DEF agentVars, runVars, runtimeVars, callVars, bounds
<1>1. /\ DataType /\ RunFollowsCall /\ pc[s] = "completing" /\ AtHead(s)
      /\ run[s] \in {"queued", "running", "removed"}
      /\ execution # None => pc[execution] \in Executing
  BY TypeParts DEF IInv, Complete, RunFollowsCall, ExecutionIsLive, Executing
<1>2. /\ UNCHANGED <<mandate, runMandate, outcome, kind, found>>
      /\ UNCHANGED <<session, aborted, active, killed, child, expected, cancelFailed>>
      /\ UNCHANGED <<failures, restarts>>
      /\ execution' = IF execution = s THEN None ELSE execution
      /\ Go(s, "ended") /\ Leave
  BY DEF Complete, Settle
<1>3. \A t \in Sends : t # s => run'[t] = run[t]
  BY <1>1 DEF Complete, DataType
<1>4. \/ /\ run[s] \in {"queued", "running"} /\ run'[s] = "completed"
         /\ status # "deleted" /\ status' = "ready" /\ thread' = s
      \/ /\ run[s] = "removed" /\ UNCHANGED <<run, status, thread>>
  BY <1>1 DEF Complete, Present, DataType, IInv, DeletedIsEmpty
<1>5. DataType'
  <2>1. run' = run \/ run' = [run EXCEPT ![s] = "completed"]
    BY DEF Complete
  <2>2. run' \in [Sends -> {"none", "queued", "running", "removed"} \cup Terminal]
    BY <1>1, <2>1 DEF DataType, Terminal
  <2> QED BY <1>1, <1>2, <1>4, <2>2 DEF DataType
<1>6. /\ TypeOK' /\ CallProgress' /\ ReservedIsHead' /\ FoundIsSettled'
      /\ pc'[s] = "ended" /\ \A t \in Sends : t # s => pc'[t] = pc[t]
  BY <1>1, <1>2, <1>5, SendPlaces DEF Executing
<1>7. RunFollowsCall'
  BY <1>1, <1>2, <1>3, <1>4, <1>6 DEF RunFollowsCall, Executing, Terminal
<1>8. DeletedIsEmpty'
  BY <1>4 DEF IInv, DeletedIsEmpty
<1>9. ExecutionIsLive'
  BY <1>1, <1>2, <1>6 DEF ExecutionIsLive, DataType, Executing
<1>10. Serial'
  <2> SUFFICES ASSUME NeverStopped PROVE Serial'
    BY <1>2 DEF Serial, NeverStopped
  <2>1. /\ run[s] # "removed" /\ status \notin {"stopped", "deleted"}
        /\ \A t \in Sends : run[t] # "removed"
    BY DEF IInv, Serial
  <2>2. run'[s] = "completed" /\ status' = "ready" /\ thread' = s
    BY <1>4, <2>1
  <2>3. s \in OpenRuns /\ \A t \in OpenRuns : t = s
    BY <1>4, <2>1 DEF IInv, Serial, OneActiveRun, OpenRuns
  <2>4. \A t \in Sends : t \notin OpenRuns'
    BY <1>3, <2>2, <2>3 DEF OpenRuns
  <2>5. OneActiveRun'
    BY <2>4 DEF OneActiveRun, OpenRuns
  <2>6. \A t \in Sends : pc'[t] \notin Executing
    BY <1>1, <1>6 DEF IInv, Serial, Executing
  <2>7. ThreadOfCurrentMandate'
    BY <1>2, <2>2, <2>3 DEF IInv, Serial, ThreadOfCurrentMandate
  <2>8. \A t \in Sends : run'[t] # "removed"
    BY <1>3, <2>1, <2>2
  <2> QED BY <2>2, <2>4, <2>5, <2>6, <2>7, <2>8 DEF Serial, Executing, OpenRuns
<1>11. BusyHasOpenRun'
  <2>1. CASE status' = "ready"
    BY <2>1 DEF BusyHasOpenRun
  <2>2. CASE UNCHANGED <<run, status>>
    BY <2>2 DEF IInv, BusyHasOpenRun, OpenRuns
  <2> QED BY <1>4, <2>1, <2>2
<1>12. EndedStays
  BY <1>1, <1>3, <1>6 DEF EndedStays, Recorded, Terminal
<1> QED BY <1>6, <1>7, <1>8, <1>9, <1>10, <1>11, <1>12 DEF IInv

LEMMA EndKeeps ==
  ASSUME IInv, NEW s \in Sends, End(s)
  PROVE  IInv' /\ EndedStays
<1> USE ProgressFacts DEF agentVars, runVars, runtimeVars, callVars, bounds
<1>1. /\ DataType /\ RunFollowsCall /\ pc[s] = "ending" /\ AtHead(s)
      /\ run[s] \in {"queued", "running", "removed"}
      /\ outcome[s] \in {"failed", "cancelled"}
      /\ execution # None => pc[execution] \in Executing
  BY TypeParts DEF IInv, End, RunFollowsCall, ExecutionIsLive, Executing
<1>2. /\ UNCHANGED <<mandate, thread, runMandate, outcome, kind, found>>
      /\ UNCHANGED <<session, aborted, active, killed, child, expected, cancelFailed>>
      /\ UNCHANGED <<failures, restarts>>
      /\ execution' = IF execution = s THEN None ELSE execution
      /\ Go(s, "ended") /\ Leave
      /\ run' = [run EXCEPT ![s] = IF Present(s) THEN outcome[s] ELSE @]
  BY DEF End, Settle
<1>3. /\ \A t \in Sends : t # s => run'[t] = run[t]
      /\ run[s] = "removed" => run'[s] = "removed"
      /\ run[s] # "removed" => run'[s] \in {"failed", "cancelled"}
  BY <1>1, <1>2 DEF Present, DataType
<1>4. \/ status \in {"stopped", "deleted"} /\ status' = status
      \/ status \notin {"stopped", "deleted"} /\ status' \in {"ready", "error"}
  BY DEF End, StatusAfter
<1>5. DataType'
  <2>1. run' \in [Sends -> {"none", "queued", "running", "removed"} \cup Terminal]
    BY <1>1, <1>2 DEF DataType, Terminal, Present
  <2> QED BY <1>1, <1>2, <1>4, <2>1 DEF DataType
<1>6. /\ TypeOK' /\ CallProgress' /\ ReservedIsHead' /\ FoundIsSettled'
      /\ pc'[s] = "ended" /\ \A t \in Sends : t # s => pc'[t] = pc[t]
  BY <1>1, <1>2, <1>5, SendPlaces DEF Executing
<1>7. RunFollowsCall'
  BY <1>1, <1>2, <1>3, <1>6 DEF RunFollowsCall, Executing, Terminal
<1>8. DeletedIsEmpty'
  <2> SUFFICES ASSUME status' = "deleted" PROVE DeletedIsEmpty'
    BY DEF DeletedIsEmpty
  <2>1. status = "deleted"
    BY <1>4
  <2>2. "delete" \in Kinds /\ \A t \in Sends : run[t] \in {"none", "removed"}
    BY <2>1 DEF IInv, DeletedIsEmpty
  <2> QED BY <1>1, <1>3, <2>2 DEF DeletedIsEmpty
<1>9. ExecutionIsLive'
  BY <1>1, <1>2, <1>6 DEF ExecutionIsLive, DataType, Executing
<1>10. Serial'
  <2> SUFFICES ASSUME NeverStopped PROVE Serial'
    BY <1>2 DEF Serial, NeverStopped
  <2>1. /\ status \notin {"stopped", "deleted"}
        /\ \A t \in Sends : run[t] # "removed"
    BY DEF IInv, Serial
  <2>2. \A t \in OpenRuns : t = s
    BY <1>1, <2>1 DEF IInv, Serial, OneActiveRun, OpenRuns
  <2>3. \A t \in Sends : t \notin OpenRuns'
    BY <1>3, <2>1, <2>2 DEF OpenRuns
  <2>4. OneActiveRun'
    BY <2>3 DEF OneActiveRun, OpenRuns
  <2>5. \A t \in Sends : pc'[t] \notin Executing
    BY <1>1, <1>6 DEF IInv, Serial, Executing
  <2>6. ThreadOfCurrentMandate'
    BY <1>2 DEF IInv, Serial, ThreadOfCurrentMandate
  <2>7. \A t \in Sends : run'[t] # "removed"
    BY <1>3, <2>1
  <2> QED BY <1>4, <2>1, <2>3, <2>4, <2>5, <2>6, <2>7 DEF Serial, Executing, OpenRuns
<1>11. BusyHasOpenRun'
  BY <1>4 DEF BusyHasOpenRun
<1>12. EndedStays
  BY <1>1, <1>3, <1>6 DEF EndedStays, Recorded, Terminal
<1> QED BY <1>6, <1>7, <1>8, <1>9, <1>10, <1>11, <1>12 DEF IInv

LEMMA SetStatusKeeps ==
  ASSUME IInv, NEW c \in Controls, SetStatus(c)
  PROVE  IInv' /\ EndedStays
<1> USE ProgressFacts DEF agentVars, runVars, runtimeVars, callVars, bounds
<1>1. /\ UNCHANGED <<mandate, thread, run, runMandate, session, execution, aborted, active>>
      /\ UNCHANGED <<killed, outcome, kind, found, child, expected, cancelFailed>>
      /\ UNCHANGED <<failures, restarts>>
      /\ pc[c] = "setting" /\ AtHead(c) /\ Leave /\ Go(c, "done")
  BY DEF SetStatus
<1>2. \/ kind[c] = "start" /\ status \notin {"busy", "deleted"} /\ status' = "ready"
      \/ kind[c] = "stop" /\ status' = "stopped"
  BY DEF SetStatus, Allowed
<1>3. DataType'
  BY <1>1, <1>2, TypeParts DEF IInv, DataType
<1>4. /\ TypeOK' /\ CallProgress' /\ ReservedIsHead' /\ FoundIsSettled'
      /\ \A s \in Sends : pc'[s] = pc[s]
  BY <1>1, <1>3, ControlPlaces
<1>5. RunFollowsCall' /\ ExecutionIsLive'
  BY <1>1, <1>4 DEF IInv, RunFollowsCall, ExecutionIsLive, TypeOK, Executing
<1>6. DeletedIsEmpty' /\ BusyHasOpenRun'
  BY <1>2 DEF DeletedIsEmpty, BusyHasOpenRun
<1>7. Serial'
  <2> SUFFICES ASSUME NeverStopped PROVE Serial'
    BY <1>1 DEF Serial, NeverStopped
  <2>1. status # "busy" /\ status' = "ready"
    BY <1>2 DEF NeverStopped
  <2>2. \A s \in Sends : s \notin OpenRuns
    BY <2>1 DEF IInv, Serial
  <2>3. OpenRuns' = OpenRuns
    BY <1>1 DEF OpenRuns
  <2> QED BY <1>1, <1>4, <2>1, <2>2, <2>3
          DEF IInv, Serial, OneActiveRun, ThreadOfCurrentMandate, Executing
<1>8. EndedStays
  BY <1>1, <1>4 DEF EndedStays
<1> QED BY <1>4, <1>5, <1>6, <1>7, <1>8 DEF IInv

LEMMA RemoveKeeps ==
  ASSUME IInv, NEW c \in Controls, Remove(c)
  PROVE  IInv' /\ EndedStays
<1> USE ProgressFacts DEF agentVars, runVars, runtimeVars, callVars, bounds
<1>1. /\ UNCHANGED <<mandate, runMandate, session, execution, aborted, active>>
      /\ UNCHANGED <<killed, outcome, kind, found, child, expected, cancelFailed>>
      /\ UNCHANGED <<failures, restarts>>
      /\ pc[c] = "setting" /\ AtHead(c) /\ Leave /\ Go(c, "done")
      /\ kind[c] = "delete" /\ status' = "deleted" /\ thread' = None
  BY DEF Remove
<1>2. \A s \in Sends : run'[s] = IF run[s] = "none" THEN "none" ELSE "removed"
  BY DEF Remove
<1>3. DataType'
  <2>1. run' \in [Sends -> {"none", "queued", "running", "removed"} \cup Terminal]
    BY DEF Remove
  <2> QED BY <1>1, <2>1, TypeParts DEF IInv, DataType
<1>4. /\ TypeOK' /\ CallProgress' /\ ReservedIsHead' /\ FoundIsSettled'
      /\ \A s \in Sends : pc'[s] = pc[s]
  BY <1>1, <1>3, ControlPlaces
<1>5. RunFollowsCall'
  BY <1>1, <1>2, <1>4 DEF IInv, RunFollowsCall, Executing, Terminal
<1>6. ExecutionIsLive'
  BY <1>1, <1>4 DEF IInv, ExecutionIsLive, TypeOK, Executing
<1>7. DeletedIsEmpty'
  <2>1. "delete" \in Kinds
    BY <1>1 DEF IInv, TypeOK
  <2> QED BY <1>2, <2>1 DEF DeletedIsEmpty
<1>8. BusyHasOpenRun' /\ Serial'
  BY <1>1 DEF BusyHasOpenRun, Serial, NeverStopped
<1>9. EndedStays
  BY <1>2, <1>4 DEF IInv, RunFollowsCall, EndedStays, Recorded, Terminal
<1> QED BY <1>4, <1>5, <1>6, <1>7, <1>8, <1>9 DEF IInv

LEMMA RehearseKeeps ==
  ASSUME IInv, NEW c \in Controls, Rehearse(c)
  PROVE  IInv' /\ EndedStays
<1> USE ProgressFacts DEF agentVars, runVars, runtimeVars, callVars, bounds
<1>1. /\ UNCHANGED <<run, runMandate, session, execution, aborted, active>>
      /\ UNCHANGED <<killed, outcome, kind, found, child, expected, cancelFailed>>
      /\ UNCHANGED <<failures, restarts>>
      /\ pc[c] = "setting" /\ AtHead(c) /\ Leave /\ Go(c, "done")
      /\ status # "busy" /\ mandate' = mandate + 1 /\ status' = "ready" /\ thread' = None
  BY DEF Rehearse, Allowed
<1>2. DataType'
  BY <1>1, TypeParts DEF IInv, DataType
<1>3. /\ TypeOK' /\ CallProgress' /\ ReservedIsHead' /\ FoundIsSettled'
      /\ \A s \in Sends : pc'[s] = pc[s]
  BY <1>1, <1>2, ControlPlaces
<1>4. RunFollowsCall' /\ ExecutionIsLive'
  BY <1>1, <1>3 DEF IInv, RunFollowsCall, ExecutionIsLive, TypeOK, Executing
<1>5. DeletedIsEmpty' /\ BusyHasOpenRun'
  BY <1>1 DEF DeletedIsEmpty, BusyHasOpenRun
<1>6. Serial'
  <2> SUFFICES ASSUME NeverStopped PROVE Serial'
    BY <1>1 DEF Serial, NeverStopped
  <2>1. \A s \in Sends : s \notin OpenRuns
    BY <1>1 DEF IInv, Serial
  <2>2. OpenRuns' = OpenRuns
    BY <1>1 DEF OpenRuns
  <2> QED BY <1>1, <1>3, <2>1, <2>2
          DEF IInv, Serial, OneActiveRun, ThreadOfCurrentMandate, Executing
<1>7. EndedStays
  BY <1>1, <1>3 DEF EndedStays
<1> QED BY <1>3, <1>4, <1>5, <1>6, <1>7 DEF IInv

LEMMA RestartKeeps ==
  ASSUME IInv, Restart
  PROVE  IInv' /\ EndedStays
<1> USE ProgressFacts DEF agentVars, runVars, runtimeVars, callVars, bounds
<1>1. DataType /\ CallProgress /\ RunFollowsCall
  BY TypeParts DEF IInv
<1>2. /\ UNCHANGED <<mandate, thread, runMandate, outcome, kind, found>>
      /\ execution' = None /\ queue' = <<>>
      /\ status' = IF status = "busy" THEN "ready" ELSE status
      /\ \A s \in Sends : run'[s] = Recovered(run[s])
  BY DEF Restart
<1>3. /\ \A s \in Sends : pc'[s] = IF pc[s] \in {"idle"} \cup Over THEN pc[s] ELSE "lost"
      /\ \A c \in Controls : /\ pc'[c] \in {"idle"} \cup Returned
                             /\ pc'[c] \in {"idle", "done"} => pc[c] = pc'[c]
  BY <1>1 DEF Restart, CallProgress, SendProgress, ControlProgress, Over, Returned
<1>4. TypeOK'
  <2>1. run' \in [Sends -> {"none", "queued", "running", "removed"} \cup Terminal]
    BY <1>1 DEF Restart, Recovered, DataType, Terminal
  <2>2. pc' \in [Calls -> Progress]
    BY <1>1, TypeParts DEF Restart, IInv, Progress, Over, Returned
  <2>3. DataType'
    <3>1. /\ session' = FALSE /\ active' = None /\ restarts' \in Nat
          /\ aborted' \in [Sends -> BOOLEAN] /\ killed' \in [Sends -> BOOLEAN]
      BY <1>1 DEF Restart, DataType
    <3>2. UNCHANGED <<child, expected, cancelFailed, failures>>
      BY DEF Restart
    <3>3. status' \in {"ready", "busy", "stopped", "error", "deleted"}
      BY <1>1, <1>2 DEF DataType
    <3> QED BY <1>1, <1>2, <2>1, <3>1, <3>2, <3>3 DEF DataType
  <2>4. queue' \in Seq(Calls)
    BY <1>2
  <2>5. (TypeOK <=> DataType /\ queue \in Seq(Calls) /\ pc \in [Calls -> Progress])'
    BY TypeParts, PTL
  <2> QED BY <2>2, <2>3, <2>4, <2>5
<1>5. CallProgress'
  BY <1>1, <1>2, <1>3 DEF CallProgress, SendProgress, Over, Returned
<1>6. RunFollowsCall'
  BY <1>1, <1>2, <1>3 DEF RunFollowsCall, Recovered, Executing, Over, Terminal
<1>7. ReservedIsHead' /\ ExecutionIsLive'
  BY <1>2, <1>3 DEF ReservedIsHead, ExecutionIsLive, Over
<1>8. DeletedIsEmpty'
  BY <1>2 DEF IInv, DeletedIsEmpty, Recovered
<1>9. FoundIsSettled'
  BY <1>2, <1>3 DEF IInv, FoundIsSettled, Returned, Recorded, Over
<1>10. \A s \in Sends : s \notin OpenRuns'
  BY <1>2 DEF OpenRuns, Recovered
<1>11. Serial'
  <2> SUFFICES ASSUME NeverStopped PROVE Serial'
    BY <1>2 DEF Serial, NeverStopped
  <2>1. status' \notin {"stopped", "deleted"} /\ \A s \in Sends : run'[s] # "removed"
    BY <1>2 DEF IInv, Serial, Recovered
  <2>2. \A s \in Sends : pc'[s] \notin Executing
    BY <1>3 DEF Executing, Over
  <2>3. OneActiveRun' /\ ThreadOfCurrentMandate'
    BY <1>2, <1>10 DEF IInv, Serial, OneActiveRun, OpenRuns, ThreadOfCurrentMandate
  <2> QED BY <1>10, <2>1, <2>2, <2>3 DEF Serial, OpenRuns, Executing
<1>12. BusyHasOpenRun'
  BY <1>2 DEF BusyHasOpenRun
<1>13. EndedStays
  BY <1>1, <1>2, <1>3 DEF RunFollowsCall, EndedStays, Recovered, Recorded, Terminal, Over
<1> QED BY <1>4, <1>5, <1>6, <1>7, <1>8, <1>9, <1>11, <1>12, <1>13 DEF IInv

-----------------------------------------------------------------------------
(* The invariant is inductive *)

LEMMA InitInv == Init => IInv
<1> SUFFICES ASSUME Init PROVE IInv
  OBVIOUS
<1> USE ProgressFacts
<1>1. TypeOK
  <2>1. DataType
    BY DEF Init, DataType
  <2>2. queue \in Seq(Calls) /\ pc \in [Calls -> Progress]
    BY DEF Init, SendProgress
  <2> QED BY <2>1, <2>2, TypeParts
<1>2. CallProgress
  BY DEF Init, CallProgress, SendProgress, ControlProgress
<1>3. RunFollowsCall /\ ReservedIsHead /\ DeletedIsEmpty /\ ExecutionIsLive
  BY DEF Init, RunFollowsCall, ReservedIsHead, DeletedIsEmpty, ExecutionIsLive, Executing
<1>4. FoundIsSettled
  BY DEF Init, FoundIsSettled
<1>5. OpenRuns = {}
  BY DEF Init, OpenRuns
<1>6. Serial /\ BusyHasOpenRun
  BY <1>5 DEF Init, Serial, BusyHasOpenRun, OneActiveRun, ThreadOfCurrentMandate, Executing
<1> QED BY <1>1, <1>2, <1>3, <1>4, <1>6 DEF IInv

LEMMA MovesKeepEnded ==
  ASSUME IInv,
         \/ \E s \in Sends : SendMoves(s)
         \/ \E c \in Controls : ControlMoves(c)
  PROVE  EndedStays
<1>1. pc \in [Calls -> Progress]
  BY TypeParts DEF IInv
<1>2. CASE \E s \in Sends : SendMoves(s)
  <2> PICK s \in Sends : SendMoves(s)
    BY <1>2
  <2>1. run' = run /\ pc[s] \notin Recorded
    BY DEF SendMoves, Executing, Recorded
  <2>2. \A t \in Sends : t # s => pc'[t] = pc[t]
    BY <1>1, ProgressFacts, OneGoes DEF SendMoves
  <2> QED BY <2>1, <2>2 DEF EndedStays
<1>3. CASE \E c \in Controls : ControlMoves(c)
  <2> PICK c \in Controls : ControlMoves(c)
    BY <1>3
  <2>1. PICK step \in (ControlProgress \cup Returned) \ {"idle"} : Go(c, step)
    BY DEF ControlMoves
  <2>2. step \in Progress
    BY DEF Progress
  <2>3. \A s \in Sends : pc'[s] = pc[s]
    BY <1>1, <2>1, <2>2, ProgressFacts, OneGoes
  <2> QED BY <2>3 DEF ControlMoves, EndedStays
<1> QED BY <1>2, <1>3

LEMMA StepInv ==
  ASSUME IInv, [Next]_vars
  PROVE  IInv' /\ EndedStays
<1>1. ASSUME NEW s \in Sends, Send(s) \/ SendStep(s)
      PROVE  IInv' /\ EndedStays
  <2>1. CASE Send(s) \/ Reserve(s) \/ RefuseSend(s) \/ ReserveFails(s)
    BY <2>1, ReservationMoves, SendMovesKeeps, MovesKeepEnded
  <2>2. CASE \/ SpawnContainer(s) \/ SetupEnds(s) \/ ContainerCloses(s)
             \/ CleanUp(s) \/ CleanUpFails(s)
    BY <2>2, ContainerMoves, SendMovesKeeps, MovesKeepEnded
  <2>3. CASE BeginFails(s) \/ CompleteFails(s) \/ EndFails(s)
    BY <2>3, FailureMoves, SendMovesKeeps, MovesKeepEnded
  <2>4. CASE Launch(s)
    BY <2>4, LaunchKeeps
  <2>5. CASE Begin(s)
    BY <2>5, BeginKeeps
  <2>6. CASE Complete(s)
    BY <2>6, CompleteKeeps
  <2>7. CASE End(s)
    BY <2>7, EndKeeps
  <2> QED BY <1>1, <2>1, <2>2, <2>3, <2>4, <2>5, <2>6, <2>7 DEF SendStep
<1>2. ASSUME NEW c \in Controls,
             \/ CallStart(c) \/ CallCancel(c) \/ CallIdle(c) \/ CallRehearse(c)
             \/ CallShutdown(c) \/ ControlStep(c)
      PROVE  IInv' /\ EndedStays
  <2>1. CASE CallStart(c) \/ CallIdle(c) \/ CallRehearse(c) \/ CallShutdown(c)
    BY <2>1, RequestMoves, ControlMovesKeeps, MovesKeepEnded
  <2>2. CASE CallCancel(c)
    <3>1. ControlMoves(c) /\ DataType'
      BY <2>2, CancelMoves DEF CallCancel
    <3> QED BY <3>1, ControlMovesKeeps, MovesKeepEnded
  <2>3. CASE \/ Cancelled(c) \/ CancelThrows(c) \/ Cancel(c) \/ Authorized(c)
             \/ NotAuthorized(c) \/ Refuse(c) \/ SettingFails(c) \/ AllSettled(c)
    BY <2>3, AnswerMoves, ControlMovesKeeps, MovesKeepEnded
  <2>4. CASE CancelAll(c) \/ RemoveAll(c) \/ Drained(c)
    BY <2>4, ShutdownMoves, ControlMovesKeeps, MovesKeepEnded
  <2>5. CASE SetStatus(c)
    BY <2>5, SetStatusKeeps
  <2>6. CASE Remove(c)
    BY <2>6, RemoveKeeps
  <2>7. CASE Rehearse(c)
    BY <2>7, RehearseKeeps
  <2> QED BY <1>2, <2>1, <2>2, <2>3, <2>4, <2>5, <2>6, <2>7 DEF ControlStep
<1>3. CASE UNCHANGED vars
  <2> USE <1>3 DEF vars, agentVars, runVars, runtimeVars, callVars, bounds
  <2>1. TypeOK' /\ CallProgress' /\ RunFollowsCall' /\ ReservedIsHead' /\ DeletedIsEmpty'
    BY DEF IInv, TypeOK, CallProgress, RunFollowsCall, ReservedIsHead, DeletedIsEmpty, AtHead,
           Executing
  <2>2. OpenRuns' = OpenRuns
    BY DEF OpenRuns
  <2>3. ExecutionIsLive' /\ FoundIsSettled' /\ BusyHasOpenRun' /\ Serial'
    BY <2>2 DEF IInv, ExecutionIsLive, FoundIsSettled, BusyHasOpenRun, Serial, NeverStopped,
                OneActiveRun, ThreadOfCurrentMandate, Executing, Recorded, Over
  <2> QED BY <2>1, <2>3 DEF IInv, EndedStays
<1> QED BY <1>1, <1>2, <1>3, RestartKeeps DEF Next

\* What every reachable state satisfies, and every step keeps of what is over.
THEOREM AgentRunsInvariant == Spec => []IInv
BY InitInv, StepInv, PTL DEF Spec

LEMMA EndedRunsStay == Spec => [][EndedStays]_vars
BY AgentRunsInvariant, StepInv, PTL DEF Spec

-----------------------------------------------------------------------------
(* What follows from it *)

\* Every variable keeps its type, for any number of messages, calls, store failures and
\* restarts.
THEOREM AgentRunsTypeCorrect == Spec => []TypeOK
BY AgentRunsInvariant, PTL DEF IInv

\* An Agent is busy only while one of its Runs is queued or running: whatever way
\* executeRun ends, and whatever stopAgent, deleteAgent or a restart does meanwhile, no
\* ended Run leaves it busy.
THEOREM BusyHasOpenRunHolds == Spec => []BusyHasOpenRun
BY AgentRunsInvariant, PTL DEF IInv

\* As long as neither stopAgent nor deleteAgent was called, at most one Run of the Agent
\* is open, the Agent is busy with it, and activeExecutions holds every execution that
\* has not settled.
THEOREM SerialUntilStopHolds == Spec => []SerialUntilStop
<1>1. IInv => SerialUntilStop
  BY DEF IInv, Serial, SerialUntilStop, NeverStopped, OpenRunIsTracked, Executing
<1> QED BY <1>1, AgentRunsInvariant, PTL

\* And the Codex thread it resumes was made under its current Mandate: a rehearsal clears
\* the thread, and no Run of the predecessor can set it afterwards.
THEOREM ThreadIsCurrentUntilStopHolds == Spec => []ThreadIsCurrentUntilStop
<1>1. IInv => ThreadIsCurrentUntilStop
  BY DEF IInv, Serial, ThreadIsCurrentUntilStop, NeverStopped
<1> QED BY <1>1, AgentRunsInvariant, PTL

\* A Run that has ended is never ended again or reopened by executeRun, by a call on the
\* Agent or by the recovery of a restart.
THEOREM RunsEndOnceHolds == Spec => RunsEndOnce
<1>1. [EndedStays]_vars =>
        [\A s \in Sends : run[s] \in Terminal /\ run'[s] # run[s] => run'[s] = "removed"]_vars
  BY DEF EndedStays
<1> QED BY <1>1, EndedRunsStay, PTL DEF RunsEndOnce

\* Once stopAgent or deleteAgent has returned, the execution that it found to cancel does
\* nothing more: it has left its catch branch or its last mutation behind.
THEOREM StopIsFinalHolds == Spec => StopIsFinal
<1> DEFINE Final == \A c \in Controls, s \in Sends :
                      pc[c] = "done" /\ found[c] = s =>
                        /\ run'[s] # run[s] => run'[s] = "removed"
                        /\ pc'[s] = pc[s]
<1>1. IInv /\ [EndedStays]_vars => [Final]_vars
  BY DEF IInv, FoundIsSettled, EndedStays
<1>2. Spec => [][Final]_vars
  <2> HIDE DEF Final
  <2> QED BY <1>1, AgentRunsInvariant, EndedRunsStay, PTL
<1> QED BY <1>2 DEF StopIsFinal

-----------------------------------------------------------------------------
(* The shutdown of the server *)

NeverReopened == \A c \in Controls : kind[c] \notin {"start", "rehearse"}

\* Without a start or a rehearsal, too, at most one execution has not settled: an Agent
\* that was stopped meanwhile takes no message.
SerialToo ==
  NeverReopened =>
    \A s \in Sends : pc[s] \in Executing => execution = s /\ status \notin {"ready", "error"}

\* Only a mutation that cannot be persisted leaves a Run open whose execution is over.
OpenIsExecuting ==
  \A s \in Sends : /\ pc[s] = "broken" => failures # 0
                   /\ pc[s] = "lost" => run[s] \notin {"queued", "running"}

\* The calls with a mutation in the queue; each is in it, once.
InQueue == {"reserving", "reserved", "launching", "completing", "ending", "setting"}
QueueIsWaited ==
  /\ \A i \in 1 .. Len(queue) : pc[queue[i]] \in InQueue
  /\ \A i, j \in 1 .. Len(queue) : queue[i] = queue[j] => i = j
  /\ \A d \in Calls : pc[d] \in InQueue => \E i \in 1 .. Len(queue) : queue[i] = d

\* What a shutdown has found when app.close has returned stays so, and what it has
\* awaited in the end was the last execution.
Closing == {"closing", "cancelling", "awaiting", "removing", "draining", "done", "failed"}
ShutdownKnows ==
  \A c \in Controls : kind[c] = "shutdown" =>
    /\ pc[c] \in Closing \cup {"lost"}
    /\ pc[c] \in Closing \ {"closing"} => Answered(c)
    /\ pc[c] \in {"done", "failed"} => execution = None

\* The server is shut down once in its life.
ShutdownIsOne ==
  /\ \A c \in Controls : pc[c] = "closing" => kind[c] = "shutdown"
  /\ \A c, d \in Controls : /\ kind[c] = "shutdown" /\ pc[c] # "lost"
                            /\ kind[d] = "shutdown" /\ pc[d] # "lost"
                            => c = d

SInv == /\ IInv /\ SerialToo /\ OpenIsExecuting
        /\ QueueIsWaited /\ ShutdownKnows /\ ShutdownIsOne

\* Call d does something to the queue and is in it afterwards just when it waits.
Queues(d) ==
  \/ queue' = queue /\ (pc[d] \in InQueue <=> pc'[d] \in InQueue)
  \/ Enqueue(d) /\ pc[d] \notin InQueue /\ pc'[d] \in InQueue
  \/ AtHead(d) /\ Leave /\ pc'[d] \notin InQueue
  \/ AtHead(d) /\ LeaveAndEnqueue(d) /\ pc'[d] \in InQueue

LEMMA QueuesKeeps ==
  ASSUME QueueIsWaited, queue \in Seq(Calls), NEW d \in Calls, Queues(d),
         \A e \in Calls : e # d => pc'[e] = pc[e]
  PROVE  QueueIsWaited'
<1>0. /\ Len(queue) \in Nat /\ \A i \in 1 .. Len(queue) : queue[i] \in Calls
      /\ \A i \in 1 .. Len(queue) : pc[queue[i]] \in InQueue
      /\ \A i, j \in 1 .. Len(queue) : queue[i] = queue[j] => i = j
      /\ \A e \in Calls : pc[e] \in InQueue => \E i \in 1 .. Len(queue) : queue[i] = e
  BY DEF QueueIsWaited
<1>1. CASE queue' = queue /\ (pc[d] \in InQueue <=> pc'[d] \in InQueue)
  <2>1. \A i \in 1 .. Len(queue) : pc'[queue[i]] \in InQueue
    BY <1>0, <1>1
  <2>2. \A e \in Calls : pc'[e] \in InQueue => pc[e] \in InQueue
    BY <1>1
  <2> QED BY <1>0, <1>1, <2>1, <2>2 DEF QueueIsWaited
<1>2. CASE Enqueue(d) /\ pc[d] \notin InQueue /\ pc'[d] \in InQueue
  <2>1. /\ Len(queue') = Len(queue) + 1 /\ queue'[Len(queue) + 1] = d
        /\ \A i \in 1 .. Len(queue) : queue'[i] = queue[i] /\ queue[i] # d
    BY <1>0, <1>2 DEF Enqueue
  <2>2. \A i \in 1 .. Len(queue') : i \in 1 .. Len(queue) \/ i = Len(queue) + 1
    BY <1>0, <2>1
  <2>3. \A i \in 1 .. Len(queue') : pc'[queue'[i]] \in InQueue
    BY <1>0, <1>2, <2>1, <2>2
  <2>4. \A i, j \in 1 .. Len(queue') : queue'[i] = queue'[j] => i = j
    BY <1>0, <2>1, <2>2
  <2>5. \A i \in 1 .. Len(queue) \cup {Len(queue) + 1} : i \in 1 .. Len(queue')
    BY <1>0, <2>1
  <2>6. ASSUME NEW e \in Calls, pc'[e] \in InQueue
        PROVE  \E i \in 1 .. Len(queue') : queue'[i] = e
    BY <1>0, <2>1, <2>5, <2>6
  <2> QED BY <2>3, <2>4, <2>6 DEF QueueIsWaited
<1>3. CASE AtHead(d) /\ \/ Leave /\ pc'[d] \notin InQueue
                        \/ LeaveAndEnqueue(d) /\ pc'[d] \in InQueue
  <2> DEFINE rest == Tail(queue)
  <2>1. queue # <<>> /\ d = queue[1] /\ Len(queue) # 0
    BY <1>3, EmptySeq DEF AtHead
  <2>2. /\ rest \in Seq(Calls) /\ Len(rest) = Len(queue) - 1
        /\ \A i \in 1 .. Len(rest) : rest[i] = queue[i + 1]
    BY <2>1, HeadTailProperties
  <2> HIDE DEF rest
  <2>3. \A i \in 1 .. Len(rest) : i + 1 \in 1 .. Len(queue) /\ i + 1 # 1
    BY <1>0, <2>2
  <2>4. \A i \in 1 .. Len(rest) : rest[i] \in Calls /\ rest[i] # d /\ pc[rest[i]] \in InQueue
    BY <1>0, <2>1, <2>2, <2>3
  <2>5. \A i, j \in 1 .. Len(rest) : rest[i] = rest[j] => i = j
    <3> SUFFICES ASSUME NEW i \in 1 .. Len(rest), NEW j \in 1 .. Len(rest), rest[i] = rest[j]
                 PROVE  i = j
      OBVIOUS
    <3>1. i + 1 = j + 1
      BY <1>0, <2>2, <2>3
    <3> QED BY <3>1
  <2>6. Len(rest) \in Nat
    BY <2>2
  <2>9. ASSUME NEW e \in Calls, e # d, pc[e] \in InQueue
        PROVE  \E i \in 1 .. Len(rest) : rest[i] = e
    <3>1. PICK j \in 1 .. Len(queue) : queue[j] = e
      BY <1>0, <2>9
    <3>2. j # 1
      BY <2>1, <2>9, <3>1
    <3>3. j - 1 \in 1 .. Len(rest) /\ (j - 1) + 1 = j
      BY <1>0, <2>2, <3>1, <3>2
    <3> QED BY <2>2, <3>1, <3>3
  <2>7. CASE Leave /\ pc'[d] \notin InQueue
    <3>1. queue' = rest
      BY <2>7 DEF Leave, rest
    <3>2. \A e \in Calls : pc'[e] \in InQueue => e # d /\ pc[e] \in InQueue
      BY <2>7
    <3>3. \A i \in 1 .. Len(rest) : pc'[rest[i]] \in InQueue
      BY <2>4
    <3> QED BY <2>5, <2>9, <3>1, <3>2, <3>3 DEF QueueIsWaited
  <2>8. CASE LeaveAndEnqueue(d) /\ pc'[d] \in InQueue
    <3>1. queue' = Append(rest, d)
      BY <2>8 DEF LeaveAndEnqueue, rest
    <3>2. /\ Len(queue') = Len(rest) + 1 /\ queue'[Len(rest) + 1] = d
          /\ \A i \in 1 .. Len(rest) : queue'[i] = rest[i]
      BY <2>2, <3>1
    <3>3. \A i \in 1 .. Len(queue') : i \in 1 .. Len(rest) \/ i = Len(rest) + 1
      BY <2>6, <3>2
    <3>4. \A i \in 1 .. Len(queue') : pc'[queue'[i]] \in InQueue
      BY <2>4, <2>8, <3>2, <3>3
    <3>5. \A i, j \in 1 .. Len(queue') : queue'[i] = queue'[j] => i = j
      BY <2>4, <2>5, <3>2, <3>3
    <3>6. \A i \in 1 .. Len(rest) \cup {Len(rest) + 1} : i \in 1 .. Len(queue')
      BY <2>6, <3>2
    <3>7. ASSUME NEW e \in Calls, pc'[e] \in InQueue
          PROVE  \E i \in 1 .. Len(queue') : queue'[i] = e
      BY <2>9, <3>2, <3>6, <3>7
    <3> QED BY <3>4, <3>5, <3>7 DEF QueueIsWaited
  <2> QED BY <1>3, <2>7, <2>8
<1> QED
  BY <1>1, <1>2, <1>3 DEF Queues

\* What a step of a message or of its execution is to a shutdown.
SendEffect(s) ==
  /\ Queues(s) /\ kind' = kind
  /\ failures' \in {failures, failures + 1}
  /\ \A e \in Calls : e # s => pc'[e] = pc[e]
  /\ \A t \in Sends : t # s => run'[t] = run[t]
  /\ \/ /\ pc[s] = "idle" /\ pc'[s] = "reserving" /\ ~Stopping
        /\ execution' = execution /\ status' = status
     \/ /\ pc[s] \in {"reserving", "reserved"} /\ pc'[s] \in {"reserved", "refused"}
        /\ execution' = execution /\ status' = status
     \/ /\ pc[s] = "reserved" /\ pc'[s] = "launching"
        /\ execution' = s /\ status' = "busy"
     \/ /\ pc[s] \in Executing /\ pc'[s] \in Executing
        /\ execution' = execution /\ status' = status
     \/ /\ pc[s] \in Executing /\ pc'[s] \in {"ended", "broken"}
        /\ execution' = IF execution = s THEN None ELSE execution
        /\ pc'[s] = "broken" => failures' = failures + 1

LEMMA SendHasEffect ==
  ASSUME IInv, NEW s \in Sends, Send(s) \/ SendStep(s)
  PROVE  SendEffect(s)
<1> USE DEF agentVars, runVars, runtimeVars, callVars, bounds
<1>0. /\ s \in Calls /\ pc \in [Calls -> Progress] /\ queue \in Seq(Calls)
      /\ DOMAIN run = Sends
  BY TypeParts, ProgressFacts DEF IInv, DataType
<1>1. ASSUME NEW step, Go(s, step)
      PROVE  pc'[s] = step /\ \A e \in Calls : e # s => pc'[e] = pc[e]
  BY <1>0, <1>1 DEF Go
<1>2. CASE Send(s)
  <2>1. /\ pc[s] = "idle" /\ pc'[s] = "reserving" /\ ~Stopping
        /\ \A e \in Calls : e # s => pc'[e] = pc[e]
    BY <1>1, <1>2 DEF Send
  <2>2. Queues(s)
    BY <1>2, <2>1 DEF Send, Queues, InQueue
  <2> QED BY <1>2, <2>1, <2>2 DEF Send, SendEffect
<1>3. CASE Reserve(s) \/ RefuseSend(s) \/ ReserveFails(s)
  <2>1. /\ pc[s] \in {"reserving", "reserved"}
        /\ \/ pc'[s] = "reserved" /\ queue' = queue
           \/ pc'[s] = "refused" /\ Leave
        /\ \A e \in Calls : e # s => pc'[e] = pc[e]
    BY <1>1, <1>3 DEF Reserve, RefuseSend, ReserveFails
  <2>2. AtHead(s)
    BY <1>3 DEF Reserve, RefuseSend, ReserveFails, IInv, ReservedIsHead
  <2>3. Queues(s)
    BY <2>1, <2>2 DEF Queues, InQueue
  <2>4. /\ UNCHANGED <<kind, run, execution, status>>
        /\ failures' \in {failures, failures + 1}
    BY <1>3 DEF Reserve, RefuseSend, ReserveFails, StoreFails
  <2> QED BY <2>1, <2>3, <2>4 DEF SendEffect
<1>4. CASE Launch(s)
  <2>1. /\ pc[s] = "reserved" /\ pc'[s] = "launching" /\ AtHead(s)
        /\ \A e \in Calls : e # s => pc'[e] = pc[e]
    BY <1>1, <1>4 DEF Launch, IInv, ReservedIsHead
  <2>2. Queues(s)
    BY <1>4, <2>1 DEF Launch, Queues, InQueue
  <2>3. /\ UNCHANGED <<kind, failures>> /\ execution' = s /\ status' = "busy"
        /\ \A t \in Sends : t # s => run'[t] = run[t]
    BY <1>0, <1>4 DEF Launch
  <2> QED BY <2>1, <2>2, <2>3 DEF SendEffect
<1>5. CASE Begin(s)
  <2>1. /\ pc[s] = "launching" /\ AtHead(s)
        /\ \/ pc'[s] = "setup" /\ Leave
           \/ pc'[s] = "ending" /\ LeaveAndEnqueue(s)
        /\ \A e \in Calls : e # s => pc'[e] = pc[e]
        /\ execution' = execution
    BY <1>1, <1>5 DEF Begin, CancelBeforeBegin, EndAs
  <2>2. Queues(s)
    BY <2>1 DEF Queues, InQueue
  <2>3. /\ UNCHANGED <<kind, failures, status>>
        /\ \A t \in Sends : t # s => run'[t] = run[t]
    BY <1>0, <1>5 DEF Begin
  <2> QED BY <2>1, <2>2, <2>3 DEF SendEffect, Executing
<1>6. CASE \/ SpawnContainer(s) \/ SetupEnds(s) \/ ContainerCloses(s) \/ CleanUp(s)
           \/ CleanUpFails(s)
  <2>1. /\ pc[s] \in {"setup", "inside", "closed"}
        /\ \/ pc'[s] \in {"inside", "closed"} /\ queue' = queue
           \/ pc'[s] \in {"completing", "ending"} /\ Enqueue(s)
        /\ \A e \in Calls : e # s => pc'[e] = pc[e]
    BY <1>1, <1>6
    DEF SpawnContainer, SetupEnds, ContainerCloses, CleanUp, CleanUpFails, EndAs
  <2>2. Queues(s)
    BY <2>1 DEF Queues, InQueue
  <2>3. UNCHANGED <<kind, failures, run, execution, status>>
    BY <1>6 DEF SpawnContainer, SetupEnds, ContainerCloses, CleanUp, CleanUpFails
  <2> QED BY <2>1, <2>2, <2>3 DEF SendEffect, Executing
<1>7. CASE CompleteFails(s)
  <2>1. /\ pc[s] = "completing" /\ pc'[s] = "ending" /\ AtHead(s) /\ LeaveAndEnqueue(s)
        /\ \A e \in Calls : e # s => pc'[e] = pc[e]
    BY <1>1, <1>7 DEF CompleteFails, EndAs
  <2>2. Queues(s)
    BY <2>1 DEF Queues, InQueue
  <2>3. UNCHANGED <<kind, run, execution, status>> /\ failures' = failures + 1
    BY <1>7 DEF CompleteFails, StoreFails
  <2> QED BY <2>1, <2>2, <2>3 DEF SendEffect, Executing
<1>8. CASE BeginFails(s) \/ EndFails(s)
  <2>1. /\ pc[s] \in {"launching", "ending"} /\ pc'[s] = "broken" /\ AtHead(s) /\ Leave
        /\ \A e \in Calls : e # s => pc'[e] = pc[e]
        /\ execution' = IF execution = s THEN None ELSE execution
    BY <1>1, <1>8 DEF BeginFails, EndFails, Settle
  <2>2. Queues(s)
    BY <2>1 DEF Queues, InQueue
  <2>3. UNCHANGED <<kind, run, status>> /\ failures' = failures + 1
    BY <1>8 DEF BeginFails, EndFails, StoreFails
  <2> QED BY <2>1, <2>2, <2>3 DEF SendEffect, Executing
<1>9. CASE Complete(s) \/ End(s)
  <2>1. /\ pc[s] \in {"completing", "ending"} /\ pc'[s] = "ended" /\ AtHead(s) /\ Leave
        /\ \A e \in Calls : e # s => pc'[e] = pc[e]
        /\ execution' = IF execution = s THEN None ELSE execution
    BY <1>1, <1>9 DEF Complete, End, Settle
  <2>2. Queues(s)
    BY <2>1 DEF Queues, InQueue
  <2>3. /\ UNCHANGED <<kind, failures>>
        /\ \A t \in Sends : t # s => run'[t] = run[t]
    BY <1>0, <1>9 DEF Complete, End
  <2> QED BY <2>1, <2>2, <2>3 DEF SendEffect, Executing
<1> QED BY <1>2, <1>3, <1>4, <1>5, <1>6, <1>7, <1>8, <1>9 DEF SendStep

\* And what a step of another call is.
ControlEffect(c) ==
  /\ Queues(c) /\ execution' = execution /\ pc[c] \notin Returned
  /\ failures' \in {failures, failures + 1}
  /\ \A e \in Calls : e # c => pc'[e] = pc[e]
  /\ \A s \in Sends : run'[s] \in {run[s], "removed"}
  /\ \/ status' = status
     \/ status' \in {"stopped", "deleted"}
     \/ kind[c] \in {"start", "rehearse"}
  /\ \/ /\ pc[c] = "idle" /\ ~Stopping
        /\ \A d \in Controls : d # c => kind'[d] = kind[d]
        /\ kind'[c] # "none"
        /\ kind'[c] = "shutdown" <=> pc'[c] = "closing"
     \/ pc[c] # "idle" /\ kind' = kind /\ pc'[c] # "closing"
  /\ kind[c] = "shutdown" =>
       /\ pc[c] \in Closing => pc'[c] \in Closing
       /\ pc[c] = "closing" => Answered(c)
       /\ pc[c] # "closing" => pc'[c] # "closing"
       /\ pc'[c] \in {"done", "failed"} => execution = None

LEMMA ControlHasEffect ==
  ASSUME SInv, NEW c \in Controls,
         \/ CallStart(c) \/ CallCancel(c) \/ CallIdle(c) \/ CallRehearse(c)
         \/ CallShutdown(c) \/ ControlStep(c)
  PROVE  ControlEffect(c)
<1> USE DEF agentVars, runVars, runtimeVars, callVars, bounds
<1>0. /\ IInv /\ c \in Calls /\ c \notin Sends /\ pc \in [Calls -> Progress]
      /\ queue \in Seq(Calls) /\ run = [s \in Sends |-> run[s]]
      /\ kind \in [Controls -> Kinds \cup {"none"}]
      /\ pc[c] = "idle" => kind[c] = "none"
      /\ kind[c] = "shutdown" => pc[c] \in Closing \cup {"lost"}
  BY TypeParts, ProgressFacts DEF SInv, IInv, DataType, CallProgress, ShutdownKnows
<1>1. ASSUME NEW step, Go(c, step)
      PROVE  pc'[c] = step /\ \A e \in Calls : e # c => pc'[e] = pc[e]
  BY <1>0, <1>1 DEF Go
<1>2. ASSUME NEW k, kind' = [kind EXCEPT ![c] = k]
      PROVE  kind'[c] = k /\ \A d \in Controls : d # c => kind'[d] = kind[d]
  BY <1>0, <1>2
<1>3. CASE CallStart(c) \/ CallIdle(c) \/ CallRehearse(c) \/ CallShutdown(c) \/ CallCancel(c)
  <2>1. /\ pc[c] = "idle" /\ ~Stopping
        /\ \/ pc'[c] = "setting" /\ Enqueue(c)
           \/ pc'[c] \in {"retiring", "signing", "closing", "cancelling"} /\ queue' = queue
        /\ \A e \in Calls : e # c => pc'[e] = pc[e]
    BY <1>1, <1>3
    DEF CallStart, CallIdle, CallRehearse, CallShutdown, CallCancel, EndSession, CancelExecution
  <2>2. Queues(c)
    BY <2>1 DEF Queues, InQueue
  <2>3. UNCHANGED <<run, execution, status, failures>>
    BY <1>3 DEF CallStart, CallIdle, CallRehearse, CallShutdown, CallCancel, CancelExecution
  <2>4. /\ \A d \in Controls : d # c => kind'[d] = kind[d]
        /\ kind'[c] # "none"
        /\ kind'[c] = "shutdown" <=> pc'[c] = "closing"
    <3>1. CASE CallStart(c)
      BY <1>1, <1>2, <3>1 DEF CallStart
    <3>2. CASE CallIdle(c) \/ CallCancel(c)
      <4>1. PICK k \in {"stop", "delete"} : kind' = [kind EXCEPT ![c] = k]
        BY <3>2 DEF CallIdle, CallCancel
      <4>2. pc'[c] # "closing"
        BY <1>1, <3>2 DEF CallIdle, CallCancel, EndSession, CancelExecution
      <4> QED BY <1>2, <4>1, <4>2
    <3>3. CASE CallRehearse(c)
      BY <1>1, <1>2, <3>3 DEF CallRehearse
    <3>4. CASE CallShutdown(c)
      BY <1>1, <1>2, <3>4 DEF CallShutdown
    <3> QED BY <1>3, <3>1, <3>2, <3>3, <3>4
  <2> QED BY <1>0, <2>1, <2>2, <2>3, <2>4 DEF ControlEffect, Returned
<1>4. CASE \/ Cancelled(c) \/ CancelThrows(c) \/ Cancel(c) \/ Authorized(c) \/ NotAuthorized(c)
  <2>1. /\ pc[c] \in {"cancelling", "awaiting", "retiring", "signing"}
        /\ pc[c] = "awaiting" => kind[c] # "shutdown"
        /\ pc[c] = "cancelling" => pc'[c] = "awaiting"
        /\ \/ pc'[c] = "setting" /\ Enqueue(c)
           \/ pc'[c] \in {"retiring", "awaiting", "failed"} /\ queue' = queue
        /\ \A e \in Calls : e # c => pc'[e] = pc[e]
    BY <1>1, <1>4 DEF Cancelled, CancelThrows, Cancel, Authorized, NotAuthorized, EndSession
  <2>2. Queues(c)
    BY <2>1 DEF Queues, InQueue
  <2>3. UNCHANGED <<kind, run, execution, status, failures>>
    BY <1>4 DEF Cancelled, CancelThrows, Cancel, Authorized, NotAuthorized
  <2> QED BY <1>0, <2>1, <2>2, <2>3 DEF ControlEffect, Closing, Returned
<1>5. CASE SetStatus(c) \/ Remove(c) \/ Rehearse(c) \/ Refuse(c) \/ SettingFails(c)
  <2>1. /\ pc[c] = "setting" /\ AtHead(c) /\ Leave /\ kind[c] # "shutdown"
        /\ pc'[c] \in Returned
        /\ \A e \in Calls : e # c => pc'[e] = pc[e]
    BY <1>0, <1>1, <1>5 DEF SetStatus, Remove, Rehearse, Refuse, SettingFails, Closing, Returned
  <2>2. Queues(c)
    BY <2>1 DEF Queues, InQueue, Returned
  <2>3. /\ UNCHANGED <<kind, execution>> /\ failures' \in {failures, failures + 1}
        /\ \/ status' = status
           \/ status' \in {"stopped", "deleted"}
           \/ kind[c] \in {"start", "rehearse"}
    BY <1>5 DEF SetStatus, Remove, Rehearse, Refuse, SettingFails, StoreFails
  <2>4. \A s \in Sends : run'[s] \in {run[s], "removed"}
    BY <1>5 DEF SetStatus, Remove, Rehearse, Refuse, SettingFails
  <2> QED BY <2>1, <2>2, <2>3, <2>4 DEF ControlEffect, Returned
<1>6. CASE CancelAll(c) \/ AllSettled(c) \/ RemoveAll(c) \/ Drained(c)
  <2>1. /\ pc[c] \in {"closing", "awaiting", "removing", "draining"}
        /\ pc'[c] \in {"cancelling", "removing", "draining", "done", "failed"}
        /\ pc[c] = "closing" => Answered(c)
        /\ pc'[c] \in {"done", "failed"} => execution = None
        /\ \A e \in Calls : e # c => pc'[e] = pc[e]
    BY <1>1, <1>6 DEF CancelAll, AllSettled, RemoveAll, Drained, CancelExecution
  <2>2. UNCHANGED <<queue, kind, run, execution, status, failures>>
    BY <1>6 DEF CancelAll, AllSettled, RemoveAll, Drained, CancelExecution
  <2>3. Queues(c)
    BY <2>1, <2>2 DEF Queues, InQueue
  <2> QED BY <2>1, <2>2, <2>3 DEF ControlEffect, Closing, Returned
<1> QED BY <1>3, <1>4, <1>5, <1>6 DEF ControlStep

LEMMA SendKeepsShutdown ==
  ASSUME SInv, IInv', NEW s \in Sends, SendEffect(s)
  PROVE  SInv'
<1> USE ProgressFacts
<1>0. /\ IInv /\ queue \in Seq(Calls) /\ failures \in Nat
      /\ pc[s] = "reserved" => status \in {"ready", "error"}
      /\ execution # None => pc[execution] \in Executing
      /\ \A t \in Sends : pc[t] \in SendProgress \cup Over
      /\ \A e \in Calls : e # s => pc'[e] = pc[e]
      /\ \A t \in Sends : t # s => run'[t] = run[t]
      /\ kind' = kind
  BY TypeParts DEF SInv, IInv, DataType, ReservedIsHead, ExecutionIsLive, CallProgress, SendEffect
<1>1. QueueIsWaited'
  BY <1>0, QueuesKeeps DEF SInv, SendEffect
<1>2. OpenIsExecuting'
  <2>1. failures # 0 => failures' # 0
    BY <1>0 DEF SendEffect
  <2>2. pc'[s] = "broken" => failures' # 0
    BY <1>0 DEF SendEffect, Executing
  <2>3. pc'[s] # "lost"
    BY DEF SendEffect, Executing
  <2>4. \A t \in Sends : t # s => pc'[t] = pc[t] /\ run'[t] = run[t]
    BY <1>0
  <2> QED BY <2>1, <2>2, <2>3, <2>4 DEF SInv, OpenIsExecuting
<1>3. SerialToo'
  <2> SUFFICES ASSUME NeverReopened, NEW t \in Sends, pc'[t] \in Executing
               PROVE  execution' = t /\ status' \notin {"ready", "error"}
    BY <1>0 DEF SerialToo, NeverReopened, Executing
  <2>1. \A u \in Sends : pc[u] \in Executing => execution = u /\ status \notin {"ready", "error"}
    BY DEF SInv, SerialToo
  <2>2. CASE t = s
    BY <1>0, <2>1, <2>2 DEF SendEffect, Executing
  <2>3. CASE t # s
    <3>1. pc[t] \in Executing /\ execution = t /\ status \notin {"ready", "error"}
      BY <1>0, <2>1, <2>3
    <3>2. pc[s] \notin Executing
      BY <2>1, <2>3, <3>1
    <3>3. pc[s] # "reserved"
      BY <1>0, <3>1
    <3> QED BY <3>1, <3>2, <3>3 DEF SendEffect
  <2> QED BY <2>2, <2>3
<1>4. ShutdownKnows'
  <2> SUFFICES ASSUME NEW c \in Controls, kind[c] = "shutdown"
               PROVE  /\ pc[c] \in Closing \cup {"lost"}
                      /\ pc[c] \in Closing \ {"closing"} => Answered(c)'
                      /\ pc[c] \in {"done", "failed"} => execution' = None
    BY <1>0 DEF ShutdownKnows, Closing
  <2>1. /\ pc[c] \in Closing \cup {"lost"}
        /\ pc[c] \in Closing \ {"closing"} => Answered(c)
        /\ pc[c] \in {"done", "failed"} => execution = None
    BY DEF SInv, ShutdownKnows
  <2>2. ASSUME pc[c] \in Closing \ {"closing"}
        PROVE  /\ pc[s] \in Executing /\ pc'[s] \notin {"reserving", "reserved"}
               /\ execution = None => execution' = None
    <3>1. pc[s] \notin {"reserving", "reserved"} /\ Stopping
      BY <2>1, <2>2 DEF Answered, Stopping, Closing
    <3> QED BY <3>1 DEF SendEffect, Executing
  <2>3. ASSUME pc[c] \in Closing \ {"closing"}
        PROVE  Answered(c)'
    <3>1. \A t \in Sends : pc'[t] \notin {"reserving", "reserved"}
      BY <1>0, <2>1, <2>2, <2>3 DEF Answered
    <3>2. \A d \in Controls \ {c} : pc'[d] \in {"idle"} \cup Returned
      BY <1>0, <2>1, <2>3 DEF Answered
    <3> QED BY <3>1, <3>2 DEF Answered, Returned
  <2>4. pc[c] \in {"done", "failed"} => execution' = None
    BY <2>1, <2>2 DEF Closing
  <2> QED BY <2>1, <2>3, <2>4
<1>5. ShutdownIsOne'
  BY <1>0 DEF SInv, ShutdownIsOne
<1> QED BY <1>1, <1>2, <1>3, <1>4, <1>5 DEF SInv

LEMMA ControlKeepsShutdown ==
  ASSUME SInv, IInv', NEW c \in Controls, ControlEffect(c)
  PROVE  SInv'
<1> USE ProgressFacts
<1>0. /\ IInv /\ queue \in Seq(Calls) /\ failures \in Nat
      /\ pc[c] = "idle" => kind[c] = "none"
      /\ kind \in [Controls -> Kinds \cup {"none"}]
      /\ \A e \in Calls : e # c => pc'[e] = pc[e]
      /\ \A t \in Sends : pc'[t] = pc[t] /\ run'[t] \in {run[t], "removed"}
      /\ \A d \in Controls : d # c => kind'[d] = kind[d]
      /\ kind'[c] = kind[c] \/ kind[c] = "none"
      /\ execution' = execution
  BY TypeParts DEF SInv, IInv, DataType, CallProgress, ControlEffect
<1>1. QueueIsWaited'
  BY <1>0, QueuesKeeps DEF SInv, ControlEffect
<1>2. OpenIsExecuting'
  <2>1. failures # 0 => failures' # 0
    BY <1>0 DEF ControlEffect
  <2> QED BY <1>0, <2>1 DEF SInv, OpenIsExecuting
<1>3. SerialToo'
  <2> SUFFICES ASSUME NeverReopened', NEW t \in Sends, pc[t] \in Executing
               PROVE  execution = t /\ status' \notin {"ready", "error"}
    BY <1>0 DEF SerialToo, Executing
  <2>1. NeverReopened
    BY <1>0 DEF NeverReopened
  <2>2. execution = t /\ status \notin {"ready", "error"}
    BY <2>1 DEF SInv, SerialToo
  <2> QED BY <2>1, <2>2 DEF NeverReopened, ControlEffect
<1>4. ShutdownKnows'
  <2> SUFFICES ASSUME NEW d \in Controls, kind'[d] = "shutdown"
               PROVE  /\ pc'[d] \in Closing \cup {"lost"}
                      /\ pc'[d] \in Closing \ {"closing"} => Answered(d)'
                      /\ pc'[d] \in {"done", "failed"} => execution' = None
    BY DEF ShutdownKnows, Closing
  <2>0. kind[d] = "shutdown" =>
          /\ pc[d] \in Closing \cup {"lost"}
          /\ pc[d] \in Closing \ {"closing"} => Answered(d)
          /\ pc[d] \in {"done", "failed"} => execution = None
    BY DEF SInv, ShutdownKnows
  <2>1. CASE d # c
    <3>1. kind[d] = "shutdown" /\ pc'[d] = pc[d]
      BY <1>0, <2>1
    <3>2. ASSUME pc[d] \in Closing \ {"closing"}
          PROVE  FALSE
      <4>1. Answered(d) /\ Stopping
        BY <2>0, <3>1, <3>2 DEF Stopping, Closing
      <4>2. pc[c] = "idle"
        BY <2>1, <4>1 DEF Answered, ControlEffect
      <4> QED BY <4>1, <4>2 DEF ControlEffect
    <3> QED BY <1>0, <2>0, <3>1, <3>2
  <2>2. CASE d = c
    <3>1. CASE kind[c] # "shutdown"
      <4>1. pc'[c] = "closing"
        BY <2>2, <3>1 DEF ControlEffect
      <4> QED BY <2>2, <4>1 DEF Closing
    <3>2. CASE kind[c] = "shutdown"
      <4>1. pc[c] \in Closing
        BY <2>0, <2>2, <3>2 DEF ControlEffect, Returned
      <4>2. Answered(c)
        BY <2>0, <2>2, <3>2, <4>1 DEF ControlEffect
      <4>3. Answered(c)'
        BY <1>0, <4>2 DEF Answered, Returned
      <4>4. pc'[c] \in Closing /\ (pc'[c] \in {"done", "failed"} => execution = None)
        BY <3>2, <4>1 DEF ControlEffect
      <4> QED BY <1>0, <2>2, <4>3, <4>4
    <3> QED BY <3>1, <3>2
  <2> QED BY <2>1, <2>2
<1>5. ShutdownIsOne'
  <2>1. \A d \in Controls : pc'[d] = "closing" => kind'[d] = "shutdown"
    BY <1>0 DEF SInv, ShutdownIsOne, ControlEffect
  <2>2. ASSUME NEW d \in Controls, kind'[d] = "shutdown", pc'[d] # "lost"
        PROVE  \/ kind[d] = "shutdown" /\ pc[d] # "lost"
               \/ d = c /\ ~Stopping
    BY <1>0, <2>2 DEF ControlEffect, Returned
  <2>3. \A d \in Controls : kind[d] = "shutdown" /\ pc[d] # "lost" => Stopping
    BY DEF Stopping
  <2>4. \A d, e \in Controls : /\ kind'[d] = "shutdown" /\ pc'[d] # "lost"
                               /\ kind'[e] = "shutdown" /\ pc'[e] # "lost"
                               => d = e
    BY <2>2, <2>3 DEF SInv, ShutdownIsOne
  <2> QED BY <2>1, <2>4 DEF ShutdownIsOne
<1> QED BY <1>1, <1>2, <1>3, <1>4, <1>5 DEF SInv

LEMMA RestartKeepsShutdown ==
  ASSUME SInv, IInv', Restart
  PROVE  SInv'
<1> USE ProgressFacts DEF callVars
<1>0. /\ \A d \in Calls : \/ pc'[d] = "lost"
                          \/ pc'[d] = pc[d] /\ pc[d] \in {"idle"} \cup Over \cup Returned
      /\ \A c \in Controls : kind[c] = "shutdown" => pc'[c] = "lost"
      /\ \A s \in Sends : run'[s] \notin {"queued", "running"}
      /\ queue' = <<>> /\ kind' = kind /\ failures' = failures
  <2>1. \A s \in Sends : run'[s] = Recovered(run[s])
    BY DEF Restart
  <2>2. \A s \in Sends : run'[s] \notin {"queued", "running"}
    BY <2>1 DEF Recovered
  <2> QED BY <2>2 DEF Restart
<1>1. QueueIsWaited'
  <2>1. Len(queue') = 0
    BY <1>0
  <2>2. 1 .. Len(queue') = {}
    BY <2>1
  <2>3. \A d \in Calls : pc'[d] \notin InQueue
    BY <1>0 DEF InQueue, Over, Returned
  <2> QED BY <2>2, <2>3 DEF QueueIsWaited
<1>2. OpenIsExecuting'
  BY <1>0 DEF SInv, OpenIsExecuting
<1>3. SerialToo'
  BY <1>0 DEF SerialToo, Executing, Over, Returned
<1>4. ShutdownKnows'
  BY <1>0 DEF ShutdownKnows, Closing
<1>5. ShutdownIsOne'
  BY <1>0 DEF ShutdownIsOne, Over, Returned
<1> QED BY <1>1, <1>2, <1>3, <1>4, <1>5 DEF SInv

LEMMA ShutdownStep ==
  ASSUME SInv, [Next]_vars
  PROVE  SInv'
<1>0. IInv'
  BY StepInv DEF SInv
<1>1. CASE \E s \in Sends : Send(s) \/ SendStep(s)
  <2> PICK s \in Sends : Send(s) \/ SendStep(s)
    BY <1>1
  <2>1. SendEffect(s)
    BY SendHasEffect DEF SInv
  <2> QED BY <1>0, <2>1, SendKeepsShutdown
<1>2. CASE \E c \in Controls : \/ CallStart(c) \/ CallCancel(c) \/ CallIdle(c)
                               \/ CallRehearse(c) \/ CallShutdown(c) \/ ControlStep(c)
  <2> PICK c \in Controls : \/ CallStart(c) \/ CallCancel(c) \/ CallIdle(c)
                            \/ CallRehearse(c) \/ CallShutdown(c) \/ ControlStep(c)
    BY <1>2
  <2> QED BY <1>0, ControlHasEffect, ControlKeepsShutdown
<1>3. CASE UNCHANGED vars
  <2> USE <1>3 DEF vars, agentVars, runVars, runtimeVars, callVars, bounds
  <2>1. SerialToo' /\ OpenIsExecuting' /\ QueueIsWaited'
    BY DEF SInv, SerialToo, NeverReopened, OpenIsExecuting, QueueIsWaited, Executing, InQueue
  <2>2. ShutdownKnows' /\ ShutdownIsOne'
    BY DEF SInv, ShutdownKnows, ShutdownIsOne, Answered, Closing, Returned
  <2> QED BY <1>0, <2>1, <2>2 DEF SInv
<1> QED BY <1>0, <1>1, <1>2, <1>3, RestartKeepsShutdown DEF Next

LEMMA ShutdownInvariant == Spec => []SInv
<1>1. Init => SInv
  <2> SUFFICES ASSUME Init PROVE SInv
    OBVIOUS
  <2>1. IInv /\ Len(queue) = 0
    BY InitInv DEF Init
  <2>2. 1 .. Len(queue) = {}
    BY <2>1
  <2>3. QueueIsWaited
    BY <2>2 DEF Init, QueueIsWaited, InQueue
  <2>4. SerialToo /\ OpenIsExecuting /\ ShutdownKnows /\ ShutdownIsOne
    BY ProgressFacts
    DEF Init, SerialToo, OpenIsExecuting, ShutdownKnows, ShutdownIsOne, Executing, Closing
  <2> QED BY <2>1, <2>3, <2>4 DEF SInv
<1> QED BY <1>1, ShutdownStep, PTL DEF Spec

\* Once shutdown has returned, no execution of the Agent goes on, no mutation waits for
\* the store and, unless a mutation could not be persisted, no Run is open: the requests
\* that app.close has waited for have left no execution but the one that shutdown found.
THEOREM ShutdownIsCompleteHolds == Spec => []ShutdownIsComplete
<1>1. SInv => ShutdownIsComplete
  <2> SUFFICES ASSUME SInv, NEW c \in Controls,
                      kind[c] = "shutdown", pc[c] \in {"done", "failed"},
                      NeverStopped \/ NeverReopened
               PROVE  /\ execution = None /\ queue = <<>>
                      /\ \A s \in Sends : pc[s] \in {"idle"} \cup Over
                      /\ failures = 0 => OpenRuns = {}
    BY DEF ShutdownIsComplete, NeverStopped, NeverReopened
  <2>1. execution = None /\ Answered(c)
    BY DEF SInv, ShutdownKnows, Closing
  <2>2. \A s \in Sends : pc[s] \notin Executing
    BY <2>1, ProgressFacts DEF SInv, IInv, Serial, SerialToo
  <2>3. \A s \in Sends : pc[s] \in {"idle"} \cup Over
    BY <2>1, <2>2 DEF SInv, IInv, CallProgress, Answered, SendProgress, Executing
  <2>4. \A d \in Calls : pc[d] \notin InQueue
    <3>1. \A d \in Controls : pc[d] \notin InQueue
      BY <2>1 DEF Answered, Returned, InQueue
    <3>2. \A s \in Sends : pc[s] \notin InQueue
      BY <2>3 DEF Over, InQueue
    <3> QED BY <3>1, <3>2 DEF Calls
  <2>5. queue = <<>>
    <3>1. queue \in Seq(Calls)
      BY TypeParts DEF SInv, IInv
    <3>2. ASSUME queue # <<>> PROVE FALSE
      <4>1. Len(queue) \in Nat /\ Len(queue) # 0
        BY <3>1, <3>2, EmptySeq
      <4>2. 1 \in 1 .. Len(queue) /\ queue[1] \in Calls
        BY <3>1, <4>1
      <4> QED BY <2>4, <4>2 DEF SInv, QueueIsWaited
    <3> QED BY <3>2
  <2>6. ASSUME failures = 0 PROVE OpenRuns = {}
    <3>1. \A s \in Sends : pc[s] # "broken" /\ (pc[s] = "lost" => s \notin OpenRuns)
      BY <2>6 DEF SInv, OpenIsExecuting, OpenRuns
    <3>2. \A s \in Sends : pc[s] \in {"idle", "refused", "ended"} => s \notin OpenRuns
      BY DEF SInv, IInv, RunFollowsCall, OpenRuns, Terminal
    <3>3. \A s \in Sends : s \notin OpenRuns
      BY <2>3, <3>1, <3>2 DEF Over
    <3> QED BY <3>3 DEF OpenRuns
  <2> QED BY <2>1, <2>3, <2>5, <2>6
<1> QED BY <1>1, ShutdownInvariant, PTL

-----------------------------------------------------------------------------
(* What the Runtime may assume *)

\* Two calls of runner.run for one Agent are under way together only when both a stop or a
\* delete and a start or a rehearsal have been called: it takes both to admit a second Run
\* while the first goes on.  ContainerRunner is about an Agent for which they are not.
InRuntime == {"setup", "inside", "closed"}
RunsKeptApart == NeverStopped \/ NeverReopened =>
                   \A s, t \in Sends : pc[s] \in InRuntime /\ pc[t] \in InRuntime => s = t
THEOREM RunsKeptApartHolds == Spec => []RunsKeptApart
<1>1. SInv => RunsKeptApart
  BY DEF SInv, IInv, Serial, SerialToo, RunsKeptApart, InRuntime, Executing
<1> QED BY <1>1, ShutdownInvariant, PTL

-----------------------------------------------------------------------------
(* Nobody waits for what cannot come *)

\* What a call that is under way waits for has come.
UnderWay(c) == pc[c] \notin {"idle"} \cup Over \cup Returned
ChildIsOut(c) == child[c] \in Sends => pc[child[c]] # "inside"
CanGo(c) ==
  \/ pc[c] \in InQueue \ {"reserved"} /\ AtHead(c)
  \/ pc[c] \in {"reserved", "setup", "inside", "closed", "retiring", "signing", "removing"}
  \/ pc[c] = "cancelling" /\ ChildIsOut(c)
  \/ pc[c] = "awaiting" /\ FoundIsOver(c)
  \/ pc[c] = "closing" /\ Answered(c)
  \/ pc[c] = "draining" /\ execution = None /\ ChildIsOut(c)
SomeoneCanGo == (\E c \in Calls : UnderWay(c)) => \E c \in Calls : CanGo(c)

\* The head of the queue is a call that waits there.
LEMMA HeadCanGo ==
  ASSUME SInv, queue # <<>>
  PROVE  \E c \in Calls : CanGo(c)
<1>1. queue \in Seq(Calls)
  BY TypeParts DEF SInv, IInv
<1>2. Len(queue) \in Nat /\ Len(queue) # 0
  BY <1>1, EmptySeq
<1>3. 1 \in 1 .. Len(queue) /\ queue[1] \in Calls /\ AtHead(queue[1])
  BY <1>1, <1>2 DEF AtHead
<1>4. pc[queue[1]] \in InQueue
  BY <1>3 DEF SInv, QueueIsWaited
<1> QED BY <1>3, <1>4 DEF CanGo

\* When no Run goes on and no mutation waits, no call of another kind waits for either;
\* a shutdown that waits for the answers of the others waits for none but itself.
LEMMA ControlCanGo ==
  ASSUME SInv, queue = <<>>, NEW c \in Controls, UnderWay(c),
         \A s \in Sends : pc[s] \in {"idle"} \cup Over
  PROVE  \E d \in Calls : CanGo(d)
<1> USE ProgressFacts
<1>1. /\ execution = None
      /\ \A d \in Controls : pc[d] \in ControlProgress \cup Returned
  <2>1. execution \in Sends \cup {None}
    BY TypeParts DEF SInv, IInv, DataType
  <2> QED BY <2>1 DEF SInv, IInv, ExecutionIsLive, CallProgress, Executing, Over
<1>2. \A d \in Controls : ChildIsOut(d)
  BY DEF ChildIsOut, Over
<1>3. \A d \in Controls : pc[d] \notin InQueue
  <2>1. 1 .. Len(queue) = {}
    OBVIOUS
  <2> QED BY <2>1 DEF SInv, QueueIsWaited
<1>4. \A d \in Controls : pc[d] = "awaiting" => FoundIsOver(d)
  BY DEF SInv, IInv, FoundIsSettled, FoundIsOver
<1>5. ASSUME NEW d \in Controls, UnderWay(d), pc[d] # "closing"
      PROVE  CanGo(d)
  BY <1>1, <1>2, <1>3, <1>4, <1>5 DEF UnderWay, CanGo, ControlProgress, InQueue
<1>6. ASSUME \A d \in Controls : UnderWay(d) => pc[d] = "closing"
      PROVE  CanGo(c)
  <2>1. pc[c] = "closing"
    BY <1>6
  <2>2. \A d \in Controls : pc[d] = "closing" => d = c
    BY <2>1 DEF SInv, ShutdownIsOne
  <2>3. \A d \in Controls \ {c} : pc[d] \in {"idle"} \cup Returned
    BY <1>1, <1>6, <2>2 DEF UnderWay, ControlProgress, Over, Returned
  <2>4. Answered(c)
    BY <2>3 DEF Answered, Over
  <2> QED BY <2>1, <2>4 DEF CanGo
<1> QED BY <1>5, <1>6

\* As long as a call on the Agent is under way, there is one that waits for nothing but
\* its own next step: the mutation queue, the executions that a stop, a delete and a
\* shutdown wait for, the containers they remove and the requests that app.close waits
\* for never wait for one another in a circle, whatever is called, fails or restarts.
THEOREM SomeoneCanGoHolds == Spec => []SomeoneCanGo
<1>1. SInv => SomeoneCanGo
  <2> SUFFICES ASSUME SInv, NEW c \in Calls, UnderWay(c)
               PROVE  \E d \in Calls : CanGo(d)
    BY DEF SomeoneCanGo
  <2>1. CASE queue # <<>>
    BY <2>1, HeadCanGo
  <2>2. CASE queue = <<>>
    <3>1. \A s \in Sends : pc[s] \notin InQueue
      <4>1. 1 .. Len(queue) = {}
        BY <2>2
      <4> QED BY <4>1, ProgressFacts DEF SInv, QueueIsWaited
    <3>2. CASE \E s \in Sends : pc[s] \in InRuntime
      BY <3>2, ProgressFacts DEF CanGo, InRuntime
    <3>3. CASE \A s \in Sends : pc[s] \notin InRuntime
      <4>1. \A s \in Sends : pc[s] \in {"idle"} \cup Over
        BY <3>1, <3>3 DEF SInv, IInv, CallProgress, SendProgress, InQueue, InRuntime
      <4>2. c \in Controls
        BY <4>1 DEF UnderWay, Calls
      <4> QED BY <2>2, <4>1, <4>2, ControlCanGo
    <3> QED BY <3>2, <3>3
  <2> QED BY <2>1, <2>2
<1> QED BY <1>1, ShutdownInvariant, PTL
=============================================================================
