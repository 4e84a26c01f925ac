-------------------------- MODULE ContainerRunner ---------------------------
(***************************************************************************)
(* ContainerCodexRunner for one Agent: its Runs start containers under the *)
(* one name of the Agent; timeouts, too much output, cancel and shutdown   *)
(* remove them by that name, and every Run verifies in the end that none   *)
(* is left.                                                                *)
(*                                                                         *)
(* Each action is the code between two awaits.  Those who await the same   *)
(* termination go on in the step that settles it.  The container engine    *)
(* is external: its command for a Run is a child process of the server,    *)
(* which may end, be ended or be killed at any time after the container it *)
(* creates has appeared, and before.                                       *)
(***************************************************************************)
EXTENDS Naturals

CONSTANTS Runs,       \* calls of run
          Cancels,    \* calls of cancel
          None,
          Leftover,   \* a container that an earlier process left
          Attempts,   \* CONTAINER_REMOVAL_ATTEMPTS
          MayOverlap  \* whether AgentService may call run while another Run is in progress

ASSUME RunnerAssumption ==
  /\ Runs \cap Cancels = {} /\ None \notin Runs \cup Cancels /\ Leftover \notin Runs \cup {None}
  /\ Attempts \in Nat \ {0} /\ MayOverlap \in BOOLEAN

VARIABLES active,     \* the entry of the Agent: None, or the Run that made it
          stopping,
          timer,      \* the timeout of each Run
          removal,    \* where each termination is, or "none"
          attempt,
          watched,    \* a handler of a timeout or of output awaits the termination
          aborted,    \* the abort signal of each request
          pc,         \* of each call; shutdown is the call None
          result,     \* of each call; of a Run whose child is open, what it can only be by now
          found,      \* the entry whose end a cancel or the shutdown awaits
          child,      \* the engine's command for each Run
          signalled,  \* it was sent SIGTERM, at least
          box         \* the container that has the Agent's name

removeVars == <<removal, attempt, watched>>
callVars   == <<aborted, found>>
engineVars == <<child, signalled, box>>
vars == <<active, stopping, timer, removeVars, callVars, pc, result, engineVars>>

Calls == Runs \cup Cancels \cup {None}
Working == {"setup", "spawned", "checking", "clearing", "rechecking"}

TypeOK ==
  /\ active \in Runs \cup {None} /\ stopping \in BOOLEAN
  /\ timer \in [Runs -> {"off", "armed"}]
  /\ removal \in [Runs -> {"none", "rm", "inspect"}]
  /\ attempt \in [Runs -> 0 .. Attempts]
  /\ watched \in [Runs -> BOOLEAN] /\ aborted \in [Runs -> BOOLEAN]
  /\ pc \in [Calls -> {"idle", "removing", "settling", "verifying", "over"} \cup Working]
  /\ result \in [Calls -> {"none", "ok", "failed", "cancelled"}]
  /\ found \in [Cancels \cup {None} -> Runs \cup {None}]
  /\ child \in [Runs -> {"none", "starting", "attached", "closed"}]
  /\ signalled \in [Runs -> BOOLEAN]
  /\ box \in Runs \cup {None, Leftover}

Init ==
  /\ active = None /\ stopping = FALSE
  /\ timer = [r \in Runs |-> "off"]
  /\ removal = [r \in Runs |-> "none"] /\ attempt = [r \in Runs |-> 0]
  /\ watched = [r \in Runs |-> FALSE] /\ aborted = [r \in Runs |-> FALSE]
  /\ pc = [c \in Calls |-> "idle"] /\ result = [c \in Calls |-> "none"]
  /\ found = [c \in Cancels \cup {None} |-> None]
  /\ child = [r \in Runs |-> "none"] /\ signalled = [r \in Runs |-> FALSE]
  /\ box \in {None, Leftover}

Go(c, step) == pc' = [pc EXCEPT ![c] = step]
End(c, how) == Go(c, "over") /\ result' = [result EXCEPT ![c] = how]

InProgress == {r \in Runs : pc[r] \in Working}

\* What the engine says of the name: an answer, or an error that is not "no such container".
Answers == {IF box = None THEN "absent" ELSE "present", "unknown"}

\* removeContainer: who comes first starts the termination, the others share it.
JoinRemoval(r) ==
  IF removal[r] = "none"
    THEN removal' = [removal EXCEPT ![r] = "rm"] /\ attempt' = [attempt EXCEPT ![r] = 1]
    ELSE UNCHANGED <<removal, attempt>>

-----------------------------------------------------------------------------
(* run *)

\* AgentService has just looked at the abort signal.  Another Run may still be there: the
\* entry that refuses this one is made only after set-up.
CallRun(r) ==
  /\ pc[r] = "idle"
  /\ InProgress # {} => MayOverlap
  /\ IF stopping \/ active # None THEN End(r, "failed") ELSE Go(r, "setup") /\ UNCHANGED result
  /\ UNCHANGED <<active, stopping, timer, removeVars, callVars, engineVars>>

\* Set-up fails, or it is reported as cancelled once it is over.
SetupEnds(r) ==
  /\ pc[r] = "setup"
  /\ End(r, "failed") \/ (aborted[r] /\ End(r, "cancelled"))
  /\ UNCHANGED <<active, stopping, timer, removeVars, callVars, engineVars>>

\* mutant: the shutdown that began during set-up is overlooked
UnlessAborted(r) == ~aborted[r]
MaySpawn(r) == ~aborted[r] /\ ~stopping

Spawn(r) ==
  /\ pc[r] = "setup" /\ MaySpawn(r)
  /\ child' = [child EXCEPT ![r] = "starting"]
  /\ active' = r
  /\ timer' = [timer EXCEPT ![r] = "armed"]
  /\ Go(r, "spawned")
  /\ UNCHANGED <<stopping, removeVars, callVars, result, box, signalled>>

\* The handlers of the timeout and of output ask for the removal and do not wait; a Run
\* that was cancelled stays so.
Overrun(r) == /\ result' = [result EXCEPT ![r] = IF @ = "cancelled" THEN @ ELSE "failed"]
              /\ JoinRemoval(r)
              /\ watched' = [watched EXCEPT ![r] = TRUE]
              /\ UNCHANGED <<active, stopping, callVars, pc, engineVars>>

Timeout(r) ==
  /\ timer[r] = "armed"
  /\ timer' = [timer EXCEPT ![r] = "off"]
  /\ Overrun(r)

OutputExceeds(r) ==
  /\ child[r] = "attached"
  /\ Overrun(r)
  /\ UNCHANGED timer

\* The child closes: what became of the Run is decided, and its clean-up begins.
Closes(r, exit) ==
  /\ child' = [child EXCEPT ![r] = "closed"]
  /\ signalled' = [signalled EXCEPT ![r] = FALSE]
  /\ result' = [result EXCEPT ![r] = IF @ = "none" THEN exit ELSE @]
  /\ timer' = [timer EXCEPT ![r] = "off"]
  /\ Go(r, "checking")
  /\ UNCHANGED <<active, stopping, removeVars, callVars>>

Check(r) ==
  /\ pc[r] = "checking"
  /\ \E answer \in Answers :
       \/ answer = "present" /\ JoinRemoval(r) /\ Go(r, "clearing") /\ UNCHANGED result
       \/ answer = "absent" /\ Go(r, "rechecking") /\ UNCHANGED <<removal, attempt, result>>
       \/ answer = "unknown" /\ End(r, "failed") /\ UNCHANGED <<removal, attempt>>
  /\ UNCHANGED <<active, stopping, timer, watched, callVars, engineVars>>

\* mutant: an answer that verifies nothing is taken for "no such container"
NotPresent == {"absent", "unknown"}
Gone == {"absent"}

\* The entry goes only with the container, and is the Agent's, whosever it is by now.
Recheck(r) ==
  /\ pc[r] = "rechecking"
  /\ \E answer \in Answers :
       IF answer \in Gone THEN /\ active' = None
                               /\ Go(r, "over")
                               /\ UNCHANGED result
                          ELSE End(r, "failed") /\ UNCHANGED active
  /\ UNCHANGED <<stopping, timer, removeVars, callVars, engineVars>>

-----------------------------------------------------------------------------
(* removeContainerAndVerify *)

\* The engine's rm takes effect, or it fails.
Remove(r) ==
  /\ removal[r] = "rm"
  /\ box' \in {None, box}
  /\ removal' = [removal EXCEPT ![r] = "inspect"]
  /\ UNCHANGED <<active, stopping, timer, attempt, watched, callVars, pc, result, child,
                 signalled>>

\* The termination settles: those who await it go on, or fail with it.
Settle(r, verified) ==
  /\ removal' = [removal EXCEPT ![r] = "none"]
  /\ attempt' = [attempt EXCEPT ![r] = 0]
  /\ watched' = [watched EXCEPT ![r] = FALSE]
  /\ LET waiting == {c \in Calls \ Runs : pc[c] = "removing" /\ found[c] = r}
                      \cup {t \in {r} : pc[t] = "clearing"}
     IN IF verified
          THEN /\ pc' = [c \in Calls |-> IF c \notin waiting THEN pc[c]
                                         ELSE IF c = r THEN "rechecking" ELSE "settling"]
               /\ UNCHANGED <<result, found>>
          ELSE /\ pc' = [c \in Calls |-> IF c \in waiting THEN "over" ELSE pc[c]]
               /\ result' = [c \in Calls |-> IF c \in waiting THEN "failed" ELSE result[c]]
               /\ found' = [c \in Cancels \cup {None} |-> IF c \in waiting THEN None ELSE found[c]]

\* mutant: the handlers leave a removal that failed at that
SignalledByRemoval(r, answer) == answer # "unknown"
\* The termination itself ends the child unless it cannot be verified; the handlers do then.
Signalled(r, answer) == answer # "unknown" \/ watched[r]

MayRetry(r) == attempt[r] < Attempts

Inspect(r) ==
  /\ removal[r] = "inspect"
  /\ \E answer \in Answers :
       IF answer = "present" /\ MayRetry(r)
         THEN /\ removal' = [removal EXCEPT ![r] = "rm"]
              /\ attempt' = [attempt EXCEPT ![r] = @ + 1]
              /\ UNCHANGED <<watched, pc, result, found, signalled>>
         ELSE /\ Settle(r, answer \in Gone)
              /\ signalled' = [signalled EXCEPT ![r] =
                                 child[r] # "closed" /\ (@ \/ Signalled(r, answer))]
  /\ UNCHANGED <<active, stopping, timer, aborted, child, box>>

-----------------------------------------------------------------------------
(* cancel and shutdown *)

\* The entry there is now is cancelled and its container removed.
TakeDown(c) ==
  /\ IF active = None
       THEN End(c, "ok") /\ UNCHANGED <<removal, attempt>>
       ELSE /\ result' = [result EXCEPT ![active] =
                            IF child[active] = "closed" THEN @ ELSE "cancelled"]
            /\ JoinRemoval(active)
            /\ Go(c, "removing")
  /\ found' = [found EXCEPT ![c] = active]
  /\ UNCHANGED <<active, timer, watched, engineVars>>

\* AgentService aborts the execution it knows, if any, in the same step.  The signal is of
\* interest only while the Run is set up.
CallCancel(c) ==
  /\ pc[c] = "idle"
  /\ \E r \in Runs \cup {None} :
       aborted' = [s \in Runs |-> aborted[s] \/ (s = r /\ pc[s] = "setup")]
  /\ TakeDown(c)
  /\ UNCHANGED stopping

CallShutdown ==
  /\ pc[None] = "idle"
  /\ stopping' = TRUE
  /\ TakeDown(None)
  /\ UNCHANGED aborted

\* The child has closed: cancel returns, and shutdown looks once more.
Settled(c) ==
  /\ pc[c] = "settling" /\ child[found[c]] = "closed"
  /\ IF c = None THEN Go(c, "verifying") /\ UNCHANGED result ELSE End(c, "ok")
  /\ found' = [found EXCEPT ![c] = None]
  /\ UNCHANGED <<active, stopping, timer, removeVars, aborted, engineVars>>

\* mutant: what the removal saw is not looked at again
VerifiedBefore == Answers \cup {"absent"}
VerifiedNow == Answers

ShutdownEnds ==
  /\ pc[None] = "verifying"
  /\ \E answer \in VerifiedNow :
       IF answer \in Gone THEN active' = None /\ End(None, "ok")
                          ELSE End(None, "failed") /\ UNCHANGED active
  /\ UNCHANGED <<stopping, timer, removeVars, callVars, engineVars>>

-----------------------------------------------------------------------------
(* The container engine *)

Create(r) ==
  /\ child[r] = "starting" /\ box = None
  /\ box' = r
  /\ child' = [child EXCEPT ![r] = "attached"]
  /\ UNCHANGED <<active, stopping, timer, removeVars, callVars, pc, result, signalled>>

\* No image, no engine, a container of that name, or a signal.
Refuse(r) ==
  /\ child[r] = "starting"
  /\ Closes(r, "failed")
  /\ UNCHANGED box

\* The container ends, and is removed unless the engine fails to; or it was removed.
Exit(r) ==
  /\ child[r] = "attached"
  /\ IF box = r
       THEN (\E exit \in {"ok", "failed"} : Closes(r, exit)) /\ box' \in {None, r}
       ELSE Closes(r, "failed") /\ UNCHANGED box

\* A container that nobody is attached to ends by itself.
LateRemoval ==
  /\ box = Leftover \/ (box \in Runs /\ child[box] = "closed")
  /\ box' = None
  /\ UNCHANGED <<active, stopping, timer, removeVars, callVars, pc, result, child, signalled>>

-----------------------------------------------------------------------------
RunStep(r) == SetupEnds(r) \/ Spawn(r) \/ Check(r) \/ Recheck(r) \/ Remove(r) \/ Inspect(r)
EngineStep(r) == Create(r) \/ Refuse(r) \/ Exit(r)

Next ==
  \/ \E r \in Runs : CallRun(r) \/ RunStep(r) \/ Timeout(r) \/ OutputExceeds(r) \/ EngineStep(r)
  \/ \E c \in Cancels : CallCancel(c)
  \/ \E c \in Cancels \cup {None} : Settled(c)
  \/ CallShutdown \/ ShutdownEnds \/ LateRemoval

\* File operations and the engine's commands answer, or are ended by their timeouts; the
\* timer of a Run fires; a child ends when its container is gone or it was signalled.
Fairness ==
  /\ \A r \in Runs : /\ WF_vars(RunStep(r))
                     /\ WF_vars(Timeout(r))
                     /\ WF_vars(signalled[r] /\ Refuse(r))
                     /\ WF_vars((signalled[r] \/ box # r) /\ Exit(r))
  /\ \A c \in Cancels \cup {None} : WF_vars(Settled(c))
  /\ WF_vars(ShutdownEnds)

Spec == Init /\ [][Next]_vars /\ Fairness

-----------------------------------------------------------------------------
\* No container of a Run, and no command that may still create one, is without the Run's
\* entry, by which cancel and shutdown would find it.
ContainersAreTracked ==
  \A r \in Runs : box = r \/ child[r] \in {"starting", "attached"} => active = r

\* A Run that ended well or was cancelled has left neither a container ("removes and inspects
\* each per-turn container", docs/LOCAL_POC.md) nor an entry that would refuse the next Run.
CleanEnd ==
  \A r \in Runs : pc[r] = "over" /\ result[r] \in {"ok", "cancelled"} => active # r /\ box # r

\* Once a shutdown has reported success no container of a Run is left, and no Run starts
\* one any more.
ShutdownIsClean ==
  result[None] = "ok" => \A r \in Runs : box # r /\ child[r] \notin {"starting", "attached"}

\* The Runtime keeps what AgentService relies on: no Run starts while another container of the
\* Agent may be there, one ends well only without a container and without an entry that would
\* refuse the next, and cancel and shutdown return only when what they found has closed
\* (the interface AgentRunner).
Step(c) == CASE pc[c] = "spawned" -> "open"
             [] pc[c] \in {"checking", "clearing", "rechecking"} -> "closed"
             [] pc[c] \in {"removing", "settling"} -> "waiting"
             [] OTHER -> pc[c]
Runtime == INSTANCE AgentRuntime WITH
             step  <- [c \in Calls |-> Step(c)],
             entry <- active,
             held  <- found,
             live  <- {r \in Runs : box = r \/ child[r] \in {"starting", "attached"}}
ImplementsAgentRuntime == Runtime!RuntimeSpec

\* Every Run, cancel and shutdown comes to an end, whatever the engine fails to do: again and
\* again there is none under way, and no call is made twice.
EveryCallReturns == []<>(\A c \in Calls : pc[c] \in {"idle", "over"})
=============================================================================
