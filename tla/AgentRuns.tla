------------------------------ MODULE AgentRuns -----------------------------
(***************************************************************************)
(* The life of one Agent in AgentService: messages that start Runs, and    *)
(* the calls that start, stop, delete or rehearse the Agent while Runs go  *)
(* on, over the one mutation queue of the store.                           *)
(*                                                                         *)
(* A mutation is one entry of the queue and takes effect as a whole when   *)
(* it is at its head, or fails (JsonStore shows why); what its owner does  *)
(* next, up to the next await, belongs to the same step.  Only the         *)
(* reservation of a Run is two steps, since its callback issues a Passport *)
(* before anything is persisted.  Of the Runtime the module keeps what     *)
(* AgentService depends on: a Run is set up, its container starts, is      *)
(* closed and cleaned up, and cancel acts on the container it finds.       *)
(***************************************************************************)
EXTENDS Naturals, Sequences

CONSTANTS Sends,      \* calls of sendMessage, each with the Run it may start
          Controls,   \* calls of startAgent, stopAgent, deleteAgent,
                      \* startFreshDemoRehearsal, and shutdowns of the server
          Kinds,      \* which of them this Agent gets
          None,
          MaxFailures, MaxRestarts  \* bounds of the model

\* The demo Agent is permanent, and only the demo Agent is rehearsed.
ASSUME AgentAssumption ==
  /\ Sends \cap Controls = {} /\ None \notin Sends \cup Controls
  /\ Kinds \subseteq {"start", "stop", "delete", "rehearse", "shutdown"}
  /\ {"delete", "rehearse"} \cap Kinds # {"delete", "rehearse"}
  /\ MaxFailures \in Nat /\ MaxRestarts \in Nat

VARIABLES status, mandate, thread,  \* durable: the Agent
          run, runMandate,          \* durable: the Run of each call of sendMessage
          session,                  \* the broker has a live Passport for the Agent
          queue,                    \* the store's mutation queue
          execution,                \* activeExecutions of the Agent
          aborted,                  \* the abort signal of each execution
          active,                   \* the Runtime's active entry for the Agent
          killed,                   \* active.cancelled
          pc, outcome,              \* locals of each sendMessage and executeRun
          kind, found, child, expected, cancelFailed,  \* locals of the other calls
          failures, restarts

agentVars   == <<status, mandate, thread>>
runVars     == <<run, runMandate>>
runtimeVars == <<execution, aborted, active, killed>>
callVars    == <<kind, found, child, expected, cancelFailed>>
bounds      == <<failures, restarts>>
vars == <<agentVars, runVars, session, queue, runtimeVars, pc, outcome, callVars, bounds>>

Calls == Sends \cup Controls

Terminal == {"completed", "failed", "cancelled"}
SendProgress == {"idle", "reserving", "reserved", "launching", "setup", "inside", "closed",
                 "completing", "ending"}
ControlProgress == {"idle", "cancelling", "awaiting", "retiring", "signing", "setting",
                    "closing", "removing", "draining"}
\* How an execution, or the call that asked for it, is over.
Over == {"refused", "ended", "broken", "lost"}
Returned == {"done", "refused", "failed", "lost"}

TypeOK ==
  /\ status \in {"ready", "busy", "stopped", "error", "deleted"}
  /\ mandate \in Nat
  /\ thread \in Sends \cup {None}
  /\ run \in [Sends -> {"none", "queued", "running", "removed"} \cup Terminal]
  /\ runMandate \in [Sends -> Nat]
  /\ session \in BOOLEAN
  /\ queue \in Seq(Calls)
  /\ execution \in Sends \cup {None}
  /\ aborted \in [Sends -> BOOLEAN]
  /\ active \in Sends \cup {None}
  /\ killed \in [Sends -> BOOLEAN]
  /\ pc \in [Calls -> SendProgress \cup ControlProgress \cup Over \cup Returned]
  /\ outcome \in [Sends -> {"none", "ok", "failed", "cancelled"}]
  /\ kind \in [Controls -> Kinds \cup {"none"}]
  /\ found \in [Controls -> Sends \cup {None}]
  /\ child \in [Controls -> Sends \cup {None}]
  /\ expected \in [Controls -> Nat]
  /\ cancelFailed \in [Controls -> BOOLEAN]
  /\ failures \in Nat /\ restarts \in Nat

Init ==
  /\ status = "ready" /\ mandate = 0 /\ thread = None
  /\ run = [s \in Sends |-> "none"] /\ runMandate = [s \in Sends |-> 0]
  /\ session = FALSE
  /\ queue = <<>>
  /\ execution = None /\ aborted = [s \in Sends |-> FALSE]
  /\ active = None /\ killed = [s \in Sends |-> FALSE]
  /\ pc = [c \in Calls |-> "idle"]
  /\ outcome = [s \in Sends |-> "none"]
  /\ kind = [c \in Controls |-> "none"]
  /\ found = [c \in Controls |-> None] /\ child = [c \in Controls |-> None]
  /\ expected = [c \in Controls |-> 0]
  /\ cancelFailed = [c \in Controls |-> FALSE]
  /\ failures = 0 /\ restarts = 0

Go(c, step) == pc' = [pc EXCEPT ![c] = step]

AtHead(c) == queue # <<>> /\ Head(queue) = c
Enqueue(c) == queue' = Append(queue, c)
Leave == queue' = Tail(queue)
LeaveAndEnqueue(c) == queue' = Append(Tail(queue), c)

\* A mutation throws away what it did when it cannot be persisted.
StoreFails == /\ failures < MaxFailures
              /\ failures' = failures + 1
              /\ UNCHANGED restarts

\* The promise of an execution settles: its entry goes, if it is still its own.
Settle(s, step) == /\ Go(s, step)
                   /\ execution' = IF execution = s THEN None ELSE execution

\* The server is shutting down: it takes no new request.
Stopping == \E c \in Controls : kind[c] = "shutdown" /\ pc[c] # "lost"

-----------------------------------------------------------------------------
(* sendMessage *)

Send(s) ==
  /\ pc[s] = "idle" /\ ~Stopping
  /\ Enqueue(s)
  /\ Go(s, "reserving")
  /\ UNCHANGED <<agentVars, runVars, session, runtimeVars, outcome, callVars, bounds>>

\* mutant: a busy Agent accepts a Run
AdmissibleUnlessStopped == status \notin {"stopped", "deleted"} /\ ~Stopping
Admissible == status \in {"ready", "error"} /\ ~Stopping

\* The callback of the reservation has a Passport issued if there is none.
Reserve(s) ==
  /\ pc[s] = "reserving" /\ AtHead(s)
  /\ Admissible
  /\ session' = TRUE
  /\ Go(s, "reserved")
  /\ UNCHANGED <<agentVars, runVars, queue, runtimeVars, outcome, callVars, bounds>>

RefuseSend(s) ==
  /\ pc[s] = "reserving" /\ AtHead(s)
  /\ ~Admissible
  /\ Leave
  /\ Go(s, "refused")
  /\ UNCHANGED <<agentVars, runVars, session, runtimeVars, outcome, callVars, bounds>>

\* The Run exists, and executeRun queues its first mutation.
Launch(s) ==
  /\ pc[s] = "reserved"
  /\ status' = "busy"
  /\ run' = [run EXCEPT ![s] = "queued"]
  /\ runMandate' = [runMandate EXCEPT ![s] = mandate]
  /\ execution' = s
  /\ LeaveAndEnqueue(s)
  /\ Go(s, "launching")
  /\ UNCHANGED <<mandate, thread, session, aborted, active, killed, outcome, callVars, bounds>>

ReserveFails(s) ==
  /\ pc[s] = "reserved"
  /\ StoreFails
  /\ Leave
  /\ Go(s, "refused")
  /\ UNCHANGED <<agentVars, runVars, session, runtimeVars, outcome, callVars>>

-----------------------------------------------------------------------------
(* executeRun, and the Runtime *)

\* The catch branch: the outcome is decided, its mutation queued.
EndAs(s, how) == /\ outcome' = [outcome EXCEPT ![s] = how]
                 /\ Go(s, "ending")

Present(s) == run[s] # "removed"

\* mutant: a Run that was aborted before it began is left as it is
AbandonAborted(s) == /\ aborted[s]
                     /\ Leave
                     /\ Settle(s, "ended")
                     /\ UNCHANGED outcome
CancelBeforeBegin(s) == /\ aborted[s]
                        /\ LeaveAndEnqueue(s)
                        /\ EndAs(s, "cancelled")
                        /\ UNCHANGED execution

\* The Run is running; it is cancelled already, or refused by a Runtime that has one
\* for this Agent, or set up.
Begin(s) ==
  /\ pc[s] = "launching" /\ AtHead(s)
  /\ run' = [run EXCEPT ![s] = IF Present(s) THEN "running" ELSE @]
  /\ \/ CancelBeforeBegin(s)
     \/ /\ ~aborted[s] /\ active # None
        /\ LeaveAndEnqueue(s)
        /\ EndAs(s, "failed")
        /\ UNCHANGED execution
     \/ /\ ~aborted[s] /\ active = None
        /\ Leave
        /\ Go(s, "setup")
        /\ UNCHANGED <<execution, outcome>>
  /\ UNCHANGED <<agentVars, runMandate, session, aborted, active, killed, callVars, bounds>>

\* The first mutation is outside the try: the Run stays queued, the Agent busy.
BeginFails(s) ==
  /\ pc[s] = "launching" /\ AtHead(s)
  /\ StoreFails
  /\ Leave
  /\ Settle(s, "broken")
  /\ UNCHANGED <<agentVars, runVars, session, aborted, active, killed, outcome, callVars>>

\* The container starts, unless the Run was aborted during setup; while another one
\* has the Agent's container name, the engine refuses it.
SpawnContainer(s) ==
  /\ pc[s] = "setup" /\ ~aborted[s]
  /\ active' = s
  /\ killed' = [killed EXCEPT ![s] = FALSE]
  /\ IF \E t \in Sends : pc[t] = "inside"
       THEN Go(s, "closed") /\ outcome' = [outcome EXCEPT ![s] = "failed"]
       ELSE Go(s, "inside") /\ UNCHANGED outcome
  /\ UNCHANGED <<agentVars, runVars, session, queue, execution, aborted, callVars, bounds>>

SetupEnds(s) ==
  /\ pc[s] = "setup"
  /\ EndAs(s, IF aborted[s] THEN "cancelled" ELSE "failed")
  /\ Enqueue(s)
  /\ UNCHANGED <<agentVars, runVars, session, runtimeVars, callVars, bounds>>

\* The container's process closes by itself, by timeout or because it was removed.
ContainerCloses(s) ==
  /\ pc[s] = "inside"
  /\ \E how \in IF killed[s] THEN {"cancelled"} ELSE {"ok", "failed"} :
       outcome' = [outcome EXCEPT ![s] = how]
  /\ Go(s, "closed")
  /\ UNCHANGED <<agentVars, runVars, session, queue, runtimeVars, callVars, bounds>>

\* The container is gone and so is the Agent's entry, whosever it is by now.
CleanUp(s) ==
  /\ pc[s] = "closed"
  /\ active' = None
  /\ Enqueue(s)
  /\ IF outcome[s] = "ok" /\ ~aborted[s]
       THEN Go(s, "completing") /\ UNCHANGED outcome
       ELSE EndAs(s, IF outcome[s] = "ok" THEN "cancelled" ELSE outcome[s])
  /\ UNCHANGED <<agentVars, runVars, session, execution, aborted, killed, callVars, bounds>>

\* The removal cannot be verified: the entry stays.
CleanUpFails(s) ==
  /\ pc[s] = "closed"
  /\ EndAs(s, "failed")
  /\ Enqueue(s)
  /\ UNCHANGED <<agentVars, runVars, session, runtimeVars, callVars, bounds>>

Complete(s) ==
  /\ pc[s] = "completing" /\ AtHead(s)
  /\ IF Present(s) /\ status # "deleted"
       THEN /\ run' = [run EXCEPT ![s] = "completed"]
            /\ status' = "ready"
            /\ thread' = s
       ELSE UNCHANGED <<run, status, thread>>
  /\ Leave
  /\ Settle(s, "ended")
  /\ UNCHANGED <<mandate, runMandate, session, aborted, active, killed, outcome, callVars,
                 bounds>>

CompleteFails(s) ==
  /\ pc[s] = "completing" /\ AtHead(s)
  /\ StoreFails
  /\ LeaveAndEnqueue(s)
  /\ EndAs(s, "failed")
  /\ UNCHANGED <<agentVars, runVars, session, runtimeVars, callVars>>

\* mutant: the Agent stays as it is after a failure
StatusAfterCancel(how) == IF how = "cancelled" THEN "ready" ELSE status
StatusAfter(how) == IF how = "cancelled" THEN "ready" ELSE "error"

End(s) ==
  /\ pc[s] = "ending" /\ AtHead(s)
  /\ run' = [run EXCEPT ![s] = IF Present(s) THEN outcome[s] ELSE @]
  /\ status' = IF status \in {"stopped", "deleted"} THEN status ELSE StatusAfter(outcome[s])
  /\ Leave
  /\ Settle(s, "ended")
  /\ UNCHANGED <<mandate, thread, runMandate, session, aborted, active, killed, outcome,
                 callVars, bounds>>

EndFails(s) ==
  /\ pc[s] = "ending" /\ AtHead(s)
  /\ StoreFails
  /\ Leave
  /\ Settle(s, "broken")
  /\ UNCHANGED <<agentVars, runVars, session, aborted, active, killed, outcome, callVars>>

-----------------------------------------------------------------------------
(* startAgent, stopAgent, deleteAgent, startFreshDemoRehearsal *)

CallStart(c) ==
  /\ pc[c] = "idle" /\ "start" \in Kinds /\ ~Stopping
  /\ kind' = [kind EXCEPT ![c] = "start"]
  /\ Enqueue(c)
  /\ Go(c, "setting")
  /\ UNCHANGED <<agentVars, runVars, session, runtimeVars, outcome, found, child, expected,
                 cancelFailed, bounds>>

\* The session ends; a stop queues the status, a delete goes on to retire the Agent.
EndSession(c, k) == /\ session' = FALSE
                    /\ IF k = "stop"
                         THEN Enqueue(c) /\ Go(c, "setting")
                         ELSE Go(c, "retiring") /\ UNCHANGED queue

\* cancelExecution: the execution there is now is aborted, the container there is
\* now removed.
CancelExecution(c) ==
  /\ found' = [found EXCEPT ![c] = execution]
  /\ child' = [child EXCEPT ![c] = active]
  /\ aborted' = [s \in Sends |-> aborted[s] \/ s = execution]
  /\ killed' = [s \in Sends |-> killed[s] \/ s = active]
  /\ Go(c, "cancelling")
  /\ UNCHANGED <<agentVars, runVars, session, queue, execution, active, outcome, expected,
                 cancelFailed, bounds>>

CallCancel(c) ==
  /\ pc[c] = "idle" /\ status # "deleted" /\ ~Stopping
  /\ execution # None \/ active # None
  /\ \E k \in Kinds \cap {"stop", "delete"} : kind' = [kind EXCEPT ![c] = k]
  /\ CancelExecution(c)

\* There is nothing to cancel: no await but those of resolved promises lies between the
\* call and the end of the session.
CallIdle(c) ==
  /\ pc[c] = "idle" /\ status # "deleted" /\ ~Stopping
  /\ execution = None /\ active = None
  /\ \E k \in Kinds \cap {"stop", "delete"} :
       /\ kind' = [kind EXCEPT ![c] = k]
       /\ EndSession(c, k)
  /\ UNCHANGED <<agentVars, runVars, runtimeVars, outcome, found, child, expected,
                 cancelFailed, bounds>>

\* runner.cancel returns once the container it found is closed, or throws.
Cancelled(c) ==
  /\ pc[c] = "cancelling"
  /\ \/ /\ child[c] \in Sends => pc[child[c]] # "inside"
        /\ UNCHANGED cancelFailed
     \/ /\ child[c] # None
        /\ cancelFailed' = [cancelFailed EXCEPT ![c] = TRUE]
  /\ Go(c, "awaiting")
  /\ UNCHANGED <<agentVars, runVars, session, queue, runtimeVars, outcome, kind, found, child,
                 expected, bounds>>

\* mutants: the execution is not awaited, or only its success is
DoesNotWait(c) == TRUE
WaitsForSuccess(c) == found[c] \in Sends => pc[found[c]] = "ended"
FoundIsOver(c) == found[c] \in Sends => pc[found[c]] \in Over

\* cancelExecution throws: the promise of the execution was rejected, or cancel threw.
CancelThrows(c) ==
  /\ pc[c] = "awaiting" /\ kind[c] # "shutdown" /\ FoundIsOver(c)
  /\ cancelFailed[c] \/ (found[c] \in Sends /\ pc[found[c]] = "broken")
  /\ Go(c, "failed")
  /\ UNCHANGED <<agentVars, runVars, session, queue, runtimeVars, outcome, callVars, bounds>>

Cancel(c) ==
  /\ pc[c] = "awaiting" /\ kind[c] # "shutdown" /\ FoundIsOver(c)
  /\ ~cancelFailed[c] /\ (found[c] \in Sends => pc[found[c]] # "broken")
  /\ EndSession(c, kind[c])
  /\ UNCHANGED <<agentVars, runVars, runtimeVars, outcome, callVars, bounds>>

\* startFreshDemoRehearsal ends the session before it asks for a successor.
CallRehearse(c) ==
  /\ pc[c] = "idle" /\ "rehearse" \in Kinds /\ ~Stopping
  /\ status # "busy"
  /\ kind' = [kind EXCEPT ![c] = "rehearse"]
  /\ expected' = [expected EXCEPT ![c] = mandate]
  /\ session' = FALSE
  /\ Go(c, "signing")
  /\ UNCHANGED <<agentVars, runVars, queue, runtimeVars, outcome, found, child, cancelFailed,
                 bounds>>

\* The Mandate is revoked or its successor signed; the Agent's own change is queued.
Authorized(c) ==
  /\ pc[c] \in {"retiring", "signing"}
  /\ Enqueue(c)
  /\ Go(c, "setting")
  /\ UNCHANGED <<agentVars, runVars, session, runtimeVars, outcome, callVars, bounds>>

\* The authority refuses, or the store does on its behalf.
NotAuthorized(c) ==
  /\ pc[c] \in {"retiring", "signing"}
  /\ Go(c, "failed")
  /\ UNCHANGED <<agentVars, runVars, session, queue, runtimeVars, outcome, callVars, bounds>>

\* mutant: only the check before the first await counts
AllowedAtCall(c) == CASE kind[c] = "start"    -> status \notin {"busy", "deleted"}
                      [] kind[c] = "stop"     -> status # "deleted"
                      [] kind[c] = "rehearse" -> mandate = expected[c]
                      [] OTHER -> TRUE
\* What the mutation checks again.
Allowed(c) == CASE kind[c] = "start"    -> status \notin {"busy", "deleted"}
                [] kind[c] = "stop"     -> status # "deleted"
                [] kind[c] = "rehearse" -> status # "busy" /\ mandate = expected[c]
                [] OTHER -> TRUE

SetStatus(c) ==
  /\ pc[c] = "setting" /\ AtHead(c)
  /\ kind[c] \in {"start", "stop"} /\ Allowed(c)
  /\ status' = IF kind[c] = "start" THEN "ready" ELSE "stopped"
  /\ Leave
  /\ Go(c, "done")
  /\ UNCHANGED <<mandate, thread, runVars, session, runtimeVars, outcome, callVars, bounds>>

\* The Agent and its Runs are removed.
Remove(c) ==
  /\ pc[c] = "setting" /\ AtHead(c)
  /\ kind[c] = "delete"
  /\ status' = "deleted"
  /\ thread' = None
  /\ run' = [s \in Sends |-> IF run[s] = "none" THEN "none" ELSE "removed"]
  /\ Leave
  /\ Go(c, "done")
  /\ UNCHANGED <<mandate, runMandate, session, runtimeVars, outcome, callVars, bounds>>

Rehearse(c) ==
  /\ pc[c] = "setting" /\ AtHead(c)
  /\ kind[c] = "rehearse" /\ Allowed(c)
  /\ mandate' = mandate + 1
  /\ status' = "ready"
  /\ thread' = None
  /\ Leave
  /\ Go(c, "done")
  /\ UNCHANGED <<runVars, session, runtimeVars, outcome, callVars, bounds>>

Refuse(c) ==
  /\ pc[c] = "setting" /\ AtHead(c)
  /\ ~Allowed(c)
  /\ Leave
  /\ Go(c, "refused")
  /\ UNCHANGED <<agentVars, runVars, session, runtimeVars, outcome, callVars, bounds>>

SettingFails(c) ==
  /\ pc[c] = "setting" /\ AtHead(c)
  /\ StoreFails
  /\ Leave
  /\ Go(c, "failed")
  /\ UNCHANGED <<agentVars, runVars, session, runtimeVars, outcome, callVars>>

-----------------------------------------------------------------------------
(* The shutdown of the server: beginShutdown, app.close, shutdown *)

\* SIGTERM: no request is taken from here on.
CallShutdown(c) ==
  /\ pc[c] = "idle" /\ "shutdown" \in Kinds /\ ~Stopping
  /\ kind' = [kind EXCEPT ![c] = "shutdown"]
  /\ Go(c, "closing")
  /\ UNCHANGED <<agentVars, runVars, session, queue, runtimeVars, outcome, found, child,
                 expected, cancelFailed, bounds>>

\* mutant: the shutdown does not wait for the requests that the server has taken
NotAwaited(c) == TRUE
\* app.close returns when the requests that were taken are answered.
Answered(c) == /\ \A s \in Sends : pc[s] \notin {"reserving", "reserved"}
               /\ \A d \in Controls \ {c} : pc[d] \in {"idle"} \cup Returned

\* Every execution that activeExecutions holds now is cancelled.
CancelAll(c) ==
  /\ pc[c] = "closing" /\ Answered(c)
  /\ UNCHANGED kind
  /\ IF execution # None
       THEN CancelExecution(c)
       ELSE /\ Go(c, "removing")
            /\ UNCHANGED <<agentVars, runVars, session, queue, runtimeVars, outcome, found,
                           child, expected, cancelFailed, bounds>>

\* The cancellations are settled, whatever their outcome.
AllSettled(c) ==
  /\ pc[c] = "awaiting" /\ kind[c] = "shutdown" /\ FoundIsOver(c)
  /\ Go(c, "removing")
  /\ UNCHANGED <<agentVars, runVars, session, queue, runtimeVars, outcome, callVars, bounds>>

\* runner.shutdown: the container there still is gets removed.
RemoveAll(c) ==
  /\ pc[c] = "removing"
  /\ child' = [child EXCEPT ![c] = active]
  /\ killed' = [s \in Sends |-> killed[s] \/ s = active]
  /\ Go(c, "draining")
  /\ UNCHANGED <<agentVars, runVars, session, queue, execution, aborted, active, outcome,
                 kind, found, expected, cancelFailed, bounds>>

\* It is closed and its entry gone, or that cannot be verified; what activeExecutions
\* still holds is awaited, and a failure of either part reported.
Drained(c) ==
  /\ pc[c] = "draining"
  /\ execution = None
  /\ \/ /\ child[c] \in Sends => pc[child[c]] # "inside"
        /\ active' = IF active = child[c] THEN None ELSE active
        /\ Go(c, IF cancelFailed[c] \/ (found[c] \in Sends /\ pc[found[c]] = "broken")
                 THEN "failed" ELSE "done")
     \/ /\ child[c] # None
        /\ Go(c, "failed")
        /\ UNCHANGED active
  /\ UNCHANGED <<agentVars, runVars, session, queue, execution, aborted, killed, outcome,
                 callVars, bounds>>

-----------------------------------------------------------------------------
\* mutant: every Run that did not complete is cancelled
CancelledUnlessCompleted(state) ==
  IF state \in {"queued", "running", "failed"} THEN "cancelled" ELSE state
\* What initialize makes of a Run that it finds.
Recovered(state) == IF state \in {"queued", "running"} THEN "cancelled" ELSE state

\* The process dies; initialize closes what it finds open.
Restart ==
  /\ restarts < MaxRestarts
  /\ restarts' = restarts + 1
  /\ run' = [s \in Sends |-> Recovered(run[s])]
  /\ status' = IF status = "busy" THEN "ready" ELSE status
  /\ session' = FALSE
  /\ queue' = <<>>
  /\ execution' = None /\ active' = None
  /\ aborted' = [s \in Sends |-> FALSE] /\ killed' = [s \in Sends |-> FALSE]
  /\ pc' = [c \in Calls |-> IF /\ pc[c] \in {"idle"} \cup Over \cup Returned
                              /\ ~(c \in Controls /\ kind[c] = "shutdown")
                             THEN pc[c] ELSE "lost"]
  /\ UNCHANGED <<mandate, thread, runMandate, outcome, callVars, failures>>

SendStep(s) ==
  \/ Reserve(s)   \/ RefuseSend(s) \/ Launch(s)        \/ ReserveFails(s)
  \/ Begin(s)     \/ BeginFails(s) \/ SpawnContainer(s) \/ SetupEnds(s)
  \/ ContainerCloses(s) \/ CleanUp(s) \/ CleanUpFails(s)
  \/ Complete(s)  \/ CompleteFails(s) \/ End(s) \/ EndFails(s)

ControlStep(c) ==
  \/ Cancelled(c) \/ CancelThrows(c) \/ Cancel(c) \/ Authorized(c) \/ NotAuthorized(c)
  \/ SetStatus(c) \/ Remove(c) \/ Rehearse(c) \/ Refuse(c) \/ SettingFails(c)
  \/ CancelAll(c) \/ AllSettled(c) \/ RemoveAll(c) \/ Drained(c)

Next ==
  \/ \E s \in Sends : Send(s) \/ SendStep(s)
  \/ \E c \in Controls : CallStart(c) \/ CallCancel(c) \/ CallIdle(c) \/ CallRehearse(c)
                       \/ CallShutdown(c) \/ ControlStep(c)
  \/ Restart

\* The store and the container engine answer, and a container that does not close is
\* removed when its time is over.
Fairness == /\ \A s \in Sends : WF_vars(SendStep(s))
            /\ \A c \in Controls : WF_vars(ControlStep(c))

Spec == Init /\ [][Next]_vars /\ Fairness

-----------------------------------------------------------------------------
OpenRuns == {s \in Sends : run[s] \in {"queued", "running"}}

\* "one-active-Run serialization" (docs/ARCHITECTURE.md): of an Agent's Runs at most
\* one is queued or running.
OneActiveRun == \A s, t \in OpenRuns : s = t

\* An Agent whose Run is open is busy, and activeExecutions still knows an execution
\* that has not settled, so that a stop will find it.
OpenRunIsTracked ==
  /\ \A s \in Sends : s \in OpenRuns => status = "busy"
  /\ \A s \in Sends : pc[s] \in {"launching", "setup", "inside", "closed", "completing",
                                 "ending"} => execution = s

\* An Agent is busy only on behalf of a Run that is still open: no ended Run leaves it
\* busy, however the calls on it interleave.
BusyHasOpenRun == status = "busy" => OpenRuns # {}

\* A Run that has ended stays as it ended, or is removed with its Agent.
RunsEndOnce ==
  [][\A s \in Sends : run[s] \in Terminal /\ run'[s] # run[s] => run'[s] = "removed"]_vars

\* Once a stop or a delete has returned, the execution that it found is over and changes
\* neither its Run nor the Agent's thread any more.
StopIsFinal ==
  [][\A c \in Controls, s \in Sends :
       pc[c] = "done" /\ found[c] = s =>
         /\ run'[s] # run[s] => run'[s] = "removed"
         /\ pc'[s] = pc[s]]_vars

\* A Codex thread that the Agent resumes was made by a Run under its current Mandate: a
\* rehearsal clears "the stored Codex thread reference" (docs/ARCHITECTURE.md).
ThreadOfCurrentMandate == thread # None => runMandate[thread] = mandate

\* Until somebody calls stop or delete, "one-active-Run serialization"
\* (docs/ARCHITECTURE.md) holds: an open Run keeps its Agent busy and its execution known, so that
\* a second Run is refused.
SerialUntilStop ==
  (\A c \in Controls : kind[c] \notin {"stop", "delete"}) => OneActiveRun /\ OpenRunIsTracked

\* And no Codex thread outlives the Mandate under which it was made.
ThreadIsCurrentUntilStop ==
  (\A c \in Controls : kind[c] \notin {"stop", "delete"}) => ThreadOfCurrentMandate

\* Once a shutdown has returned, no execution goes on, no mutation is left in the queue
\* and no Run is open, unless the store has failed: the executions that it found are all
\* there can be (index.ts, which closes the HTTP server between beginShutdown and
\* shutdown).  Only a Run that a stop overlooked and that lost its place to a later Run
\* escapes, which takes a stop and then a start or a rehearsal.
ShutdownIsComplete ==
  \A c \in Controls :
    /\ kind[c] = "shutdown" /\ pc[c] \in {"done", "failed"}
    /\ \/ \A d \in Controls : kind[d] \notin {"stop", "delete"}
       \/ \A d \in Controls : kind[d] \notin {"start", "rehearse"}
    => /\ execution = None /\ queue = <<>>
       /\ \A s \in Sends : pc[s] \in {"idle"} \cup Over
       /\ failures = 0 => OpenRuns = {}

\* Every message is refused or its Run comes to an end, and every call on the Agent
\* returns, whatever the store and the container engine refuse.
EveryCallReturns ==
  /\ \A s \in Sends : pc[s] # "idle" ~> pc[s] \in Over
  /\ \A c \in Controls : pc[c] # "idle" ~> pc[c] \in Returned

\* Unless the store refuses a mutation, every open Run comes to a recorded end.
EveryRunEnds == \A s \in Sends : s \in OpenRuns ~> s \notin OpenRuns \/ failures > 0
=============================================================================
