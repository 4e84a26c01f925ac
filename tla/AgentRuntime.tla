---------------------------- MODULE AgentRuntime -----------------------------
(***************************************************************************)
(* What AgentService is promised by the Runtime it drives, as seen by one  *)
(* Agent (the interface AgentRunner): Runs that do not overlap each have a *)
(* container of their own, which is gone when the Run has ended well; a    *)
(* clean-up that cannot be verified keeps the Agent's entry, and no Run    *)
(* starts while there is one; cancel and shutdown may fail, but say        *)
(* nothing that is not so.  The specification says nothing of container    *)
(* names, of removals shared and retried or of timers: ContainerRunner     *)
(* does, and implements this one.                                          *)
(***************************************************************************)
CONSTANTS Runs,     \* calls of run
          Cancels,  \* calls of cancel
          None      \* no Run; the call of shutdown

VARIABLES step,     \* of each call
          result,   \* of each call; of an open Run, what it can only be by now
          entry,    \* the Run by which the Agent is known to have a container
          held,     \* the Run whose end a cancel or the shutdown awaits
          live,     \* the Runs that have, or may still get, a container
          stopping

runtimeVars == <<step, result, entry, held, live, stopping>>

Stops == Cancels \cup {None}

RuntimeInit ==
  /\ step = [c \in Runs \cup Stops |-> "idle"]
  /\ result = [c \in Runs \cup Stops |-> "none"]
  /\ entry = None /\ live = {} /\ stopping = FALSE
  /\ held = [c \in Stops |-> None]

Goes(c, to) == step' = [step EXCEPT ![c] = to]
Ends(c, how) == Goes(c, "over") /\ result' = [result EXCEPT ![c] = how]

\* A Run that is open is given an outcome before its end; one that is cancelled stays so.
Doomed(r, how) ==
  result' = [result EXCEPT ![r] = IF step[r] = "open" /\ @ # "cancelled" THEN how ELSE @]

-----------------------------------------------------------------------------
(* Runs *)

\* AgentService calls when no other Run of the Agent is under way.
Call(r) ==
  /\ step[r] = "idle"
  /\ \A q \in Runs : step[q] \in {"idle", "over"}
  /\ IF stopping \/ entry # None THEN Ends(r, "failed") ELSE Goes(r, "setup") /\ UNCHANGED result
  /\ UNCHANGED <<entry, held, live, stopping>>

GiveUp(r) ==
  /\ step[r] = "setup"
  /\ \E how \in {"failed", "cancelled"} : Ends(r, how)
  /\ UNCHANGED <<entry, held, live, stopping>>

\* There is no other container, nor will there be one.
Open(r) ==
  /\ step[r] = "setup" /\ ~stopping /\ entry = None /\ live = {}
  /\ Goes(r, "open")
  /\ entry' = r /\ live' = {r}
  /\ UNCHANGED <<result, held, stopping>>

Fail(r) ==
  /\ step[r] = "open"
  /\ Doomed(r, "failed")
  /\ UNCHANGED <<step, entry, held, live, stopping>>

\* The outcome is certain; the container may be there still.
Close(r) ==
  /\ step[r] = "open"
  /\ Goes(r, "closed")
  /\ \E how \in {"ok", "failed"} :
       result' = [result EXCEPT ![r] = IF @ = "none" THEN how ELSE @]
  /\ live' \in {live, live \ {r}}
  /\ UNCHANGED <<entry, held, stopping>>

\* The container of a Run that is closed goes.
Vanish(r) ==
  /\ step[r] \in {"closed", "over"} /\ r \in live
  /\ live' = live \ {r}
  /\ UNCHANGED <<step, result, entry, held, stopping>>

EndClean(r) ==
  /\ step[r] = "closed" /\ live = {}
  /\ Goes(r, "over")
  /\ entry' = None
  /\ UNCHANGED <<result, held, live, stopping>>

-----------------------------------------------------------------------------
(* cancel and shutdown *)

Stop(c) ==
  /\ step[c] = "idle"
  /\ IF entry = None THEN Ends(c, "ok") ELSE Goes(c, "waiting") /\ Doomed(entry, "cancelled")
  /\ held' = [held EXCEPT ![c] = entry]
  /\ stopping' = (stopping \/ c = None)
  /\ UNCHANGED <<entry, live>>

\* A cancel returns only after the container's command has closed.
StopReturns(c) ==
  /\ step[c] = "waiting" /\ step[held[c]] \in {"closed", "over"}
  /\ IF c = None THEN Goes(c, "verifying") /\ UNCHANGED result ELSE Ends(c, "ok")
  /\ held' = [held EXCEPT ![c] = None]
  /\ UNCHANGED <<entry, live, stopping>>

\* A shutdown reports success only when nothing is left.
ShutDown ==
  /\ step[None] = "verifying" /\ live = {}
  /\ Ends(None, "ok")
  /\ entry' = None
  /\ UNCHANGED <<held, live, stopping>>

\* That a container is gone cannot be verified: all who rely on it fail, and the entry stays.
Unverified ==
  \E failing \in SUBSET {c \in Runs \cup Stops : step[c] \in {"closed", "waiting", "verifying"}} :
    /\ step' = [c \in Runs \cup Stops |-> IF c \in failing THEN "over" ELSE step[c]]
    /\ result' = [c \in Runs \cup Stops |-> IF c \in failing THEN "failed" ELSE result[c]]
    /\ held' = [c \in Stops |-> IF c \in failing THEN None ELSE held[c]]
    /\ UNCHANGED <<entry, live, stopping>>

-----------------------------------------------------------------------------
RuntimeNext ==
  \/ \E r \in Runs : \/ Call(r) \/ GiveUp(r) \/ Open(r) \/ Fail(r) \/ Close(r)
                     \/ Vanish(r) \/ EndClean(r)
  \/ \E c \in Stops : Stop(c) \/ StopReturns(c)
  \/ ShutDown \/ Unverified

RuntimeSpec == RuntimeInit /\ [][RuntimeNext]_runtimeVars
=============================================================================
