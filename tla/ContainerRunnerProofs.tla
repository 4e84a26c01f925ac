----------------------- MODULE ContainerRunnerProofs ------------------------
(***************************************************************************)
(* What ContainerCodexRunner promises while AgentService keeps the Runs of *)
(* an Agent apart, for any number of Runs and cancels, any number of       *)
(* removal attempts, and whatever the container engine does.               *)
(***************************************************************************)
EXTENDS ContainerRunner, TLAPS

-----------------------------------------------------------------------------
(* The inductive invariant *)

\* A command of the engine that has, or may still create, a container.
Live(r) == child[r] \in {"starting", "attached"}

\* The command of a Run is live exactly between its spawn and its close.
ChildFollowsRun ==
  \A r \in Runs : /\ pc[r] \in {"idle", "over"} \cup Working
                  /\ pc[r] \in {"idle", "setup"} => child[r] = "none"
                  /\ pc[r] = "spawned" <=> Live(r)

\* AgentService keeps the Runs apart.
Serial == \A r, q \in InProgress : r = q

\* An entry is of a Run that has spawned, and there is none while a Run is set up.
EntryIsOfRun ==
  /\ active \in Runs => child[active] # "none"
  /\ \A r \in Runs : pc[r] = "setup" => active = None

\* While the shutdown goes on, the only command that can be live is the one it found.
ShutdownKnows ==
  /\ pc[None] \in {"idle", "removing", "settling", "verifying", "over"}
  /\ pc[None] # "idle" => stopping
  /\ pc[None] \in {"removing", "settling"} =>
       found[None] \in Runs /\ \A q \in Runs : Live(q) => q = found[None]
  /\ pc[None] = "verifying" => \A q \in Runs : ~Live(q)
  /\ result[None] = "ok" => pc[None] = "over"

IInv == /\ TypeOK /\ ChildFollowsRun /\ Serial /\ EntryIsOfRun /\ ShutdownKnows
        /\ ContainersAreTracked /\ CleanEnd /\ ShutdownIsClean

-----------------------------------------------------------------------------
(* Types *)

Steps == {"idle", "removing", "settling", "verifying", "over"} \cup Working
Results == {"none", "ok", "failed", "cancelled"}

LEMMA CallFacts ==
  /\ \A r \in Runs : r \in Calls /\ r # None /\ r \notin Cancels /\ r # Leftover
  /\ \A c \in Cancels : c \in Calls /\ c # None /\ c \notin Runs
  /\ None \in Calls /\ None \notin Runs /\ None \notin Cancels
BY RunnerAssumption DEF Calls

LEMMA GoTyped ==
  ASSUME pc \in [Calls -> Steps], NEW c \in Calls, NEW step \in Steps, Go(c, step)
  PROVE  /\ pc' \in [Calls -> Steps] /\ pc'[c] = step
         /\ \A d \in Calls : d # c => pc'[d] = pc[d]
BY DEF Go

LEMMA EndTyped ==
  ASSUME pc \in [Calls -> Steps], result \in [Calls -> Results],
         NEW c \in Calls, NEW how \in Results, End(c, how)
  PROVE  /\ pc' \in [Calls -> Steps] /\ pc'[c] = "over"
         /\ \A d \in Calls : d # c => pc'[d] = pc[d]
         /\ result' \in [Calls -> Results] /\ result'[c] = how
         /\ \A d \in Calls : d # c => result'[d] = result[d]
BY GoTyped DEF End, Steps

LEMMA JoinTyped ==
  ASSUME removal \in [Runs -> {"none", "rm", "inspect"}], attempt \in [Runs -> 0 .. Attempts],
         NEW r \in Runs, JoinRemoval(r)
  PROVE  removal' \in [Runs -> {"none", "rm", "inspect"}] /\ attempt' \in [Runs -> 0 .. Attempts]
BY RunnerAssumption DEF JoinRemoval

-----------------------------------------------------------------------------
(* One lemma per action *)

LEMMA CallRunKeeps ==
  ASSUME ~MayOverlap, IInv, NEW r \in Runs, CallRun(r)
  PROVE  IInv'
<1> USE CallFacts DEF removeVars, callVars, engineVars
<1>1. /\ pc[r] = "idle" /\ child[r] = "none"
      /\ pc \in [Calls -> Steps] /\ result \in [Calls -> Results]
      /\ \A q \in Runs : pc[q] \notin Working
  BY DEF CallRun, IInv, ChildFollowsRun, TypeOK, Steps, Results, InProgress
<1>2. /\ UNCHANGED <<active, stopping, timer, removal, attempt, watched, aborted, found>>
      /\ UNCHANGED <<child, signalled, box>>
  BY DEF CallRun
<1>3. /\ pc' \in [Calls -> Steps] /\ result' \in [Calls -> Results]
      /\ \A d \in Calls : d # r => pc'[d] = pc[d] /\ result'[d] = result[d]
      /\ \/ pc'[r] = "over" /\ result'[r] = "failed"
         \/ pc'[r] = "setup" /\ active = None
  <2>1. CASE stopping \/ active # None
    BY <1>1, <2>1, EndTyped DEF CallRun, Results
  <2>2. CASE ~(stopping \/ active # None)
    BY <1>1, <2>2, GoTyped DEF CallRun, Steps, Working
  <2> QED BY <2>1, <2>2
<1>4. TypeOK'
  BY <1>2, <1>3 DEF IInv, TypeOK, Steps, Results
<1>5. ChildFollowsRun' /\ Serial' /\ EntryIsOfRun'
  BY <1>1, <1>2, <1>3 DEF IInv, ChildFollowsRun, Serial, EntryIsOfRun, InProgress, Live, Working
<1>6. ShutdownKnows' /\ ContainersAreTracked' /\ ShutdownIsClean'
  BY <1>2, <1>3 DEF IInv, ShutdownKnows, ContainersAreTracked, ShutdownIsClean, Live
<1>7. CleanEnd'
  BY <1>2, <1>3 DEF IInv, CleanEnd
<1> QED BY <1>4, <1>5, <1>6, <1>7 DEF IInv

LEMMA SetupEndsKeeps ==
  ASSUME IInv, NEW r \in Runs, SetupEnds(r)
  PROVE  IInv'
<1> USE CallFacts DEF removeVars, callVars, engineVars
<1>1. /\ pc[r] = "setup" /\ child[r] = "none" /\ active = None /\ box # r
      /\ pc \in [Calls -> Steps] /\ result \in [Calls -> Results]
  BY DEF SetupEnds, IInv, ChildFollowsRun, EntryIsOfRun, ContainersAreTracked, TypeOK, Steps,
         Results
<1>2. /\ UNCHANGED <<active, stopping, timer, removal, attempt, watched, aborted, found>>
      /\ UNCHANGED <<child, signalled, box>>
  BY DEF SetupEnds
<1>3. /\ pc' \in [Calls -> Steps] /\ result' \in [Calls -> Results]
      /\ \A d \in Calls : d # r => pc'[d] = pc[d] /\ result'[d] = result[d]
      /\ pc'[r] = "over"
  BY <1>1, EndTyped DEF SetupEnds, Results
<1>4. TypeOK'
  BY <1>2, <1>3 DEF IInv, TypeOK, Steps, Results
<1>5. ChildFollowsRun' /\ Serial' /\ EntryIsOfRun'
  BY <1>1, <1>2, <1>3 DEF IInv, ChildFollowsRun, Serial, EntryIsOfRun, InProgress, Live, Working
<1>6. ShutdownKnows' /\ ContainersAreTracked' /\ ShutdownIsClean'
  BY <1>2, <1>3 DEF IInv, ShutdownKnows, ContainersAreTracked, ShutdownIsClean, Live
<1>7. CleanEnd'
  BY <1>1, <1>2, <1>3 DEF IInv, CleanEnd
<1> QED BY <1>4, <1>5, <1>6, <1>7 DEF IInv

LEMMA SpawnKeeps ==
  ASSUME IInv, NEW r \in Runs, Spawn(r)
  PROVE  IInv'
<1> USE CallFacts DEF removeVars, callVars, engineVars
<1>1. /\ pc[r] = "setup" /\ child[r] = "none" /\ active = None /\ ~stopping
      /\ pc \in [Calls -> Steps] /\ child \in [Runs -> {"none", "starting", "attached", "closed"}]
      /\ \A q \in Runs : box # q /\ ~Live(q) /\ (q # r => pc[q] \notin Working)
  BY DEF Spawn, MaySpawn, IInv, ChildFollowsRun, EntryIsOfRun, ContainersAreTracked, TypeOK,
         Steps, Serial, InProgress, Working, Live
<1>2. /\ UNCHANGED <<stopping, removal, attempt, watched, aborted, found, result, box, signalled>>
      /\ active' = r
  BY DEF Spawn
<1>3. /\ pc' \in [Calls -> Steps] /\ pc'[r] = "spawned"
      /\ \A d \in Calls : d # r => pc'[d] = pc[d]
  BY <1>1, GoTyped DEF Spawn, Steps, Working
<1>4. /\ child' \in [Runs -> {"none", "starting", "attached", "closed"}]
      /\ child'[r] = "starting" /\ \A q \in Runs : q # r => child'[q] = child[q]
  BY <1>1 DEF Spawn
<1>5. TypeOK'
  BY <1>2, <1>3, <1>4 DEF IInv, TypeOK, Steps, Spawn
<1>6. ChildFollowsRun' /\ Serial' /\ EntryIsOfRun'
  BY <1>1, <1>2, <1>3, <1>4
     DEF IInv, ChildFollowsRun, Serial, EntryIsOfRun, InProgress, Live, Working
<1>7. ContainersAreTracked' /\ CleanEnd'
  BY <1>1, <1>2, <1>3, <1>4 DEF IInv, ContainersAreTracked, CleanEnd, Live
<1>8. ShutdownKnows' /\ ShutdownIsClean'
  BY <1>1, <1>2, <1>3 DEF IInv, ShutdownKnows, ShutdownIsClean
<1> QED BY <1>5, <1>6, <1>7, <1>8 DEF IInv

LEMMA OverrunKeeps ==
  ASSUME IInv, NEW r \in Runs, Timeout(r) \/ OutputExceeds(r)
  PROVE  IInv'
<1> USE CallFacts DEF removeVars, callVars, engineVars
<1>1. /\ UNCHANGED <<active, stopping, aborted, found, pc, child, signalled, box>>
      /\ JoinRemoval(r)
      /\ timer' = timer \/ timer' = [timer EXCEPT ![r] = "off"]
      /\ watched' = [watched EXCEPT ![r] = TRUE]
      /\ result' = [result EXCEPT ![r] = IF @ = "cancelled" THEN @ ELSE "failed"]
  BY DEF Timeout, OutputExceeds, Overrun
<1>2. result \in [Calls -> Results]
  BY DEF IInv, TypeOK, Results
<1>3. /\ result' \in [Calls -> Results]
      /\ \A d \in Calls : d # r => result'[d] = result[d]
      /\ result'[r] \in {"ok", "cancelled"} => result[r] = "cancelled"
  BY <1>1, <1>2 DEF Results
<1>4. TypeOK'
  <2>1. /\ removal' \in [Runs -> {"none", "rm", "inspect"}]
        /\ attempt' \in [Runs -> 0 .. Attempts]
    BY <1>1, JoinTyped DEF IInv, TypeOK
  <2>2. timer' \in [Runs -> {"off", "armed"}]
    BY <1>1 DEF IInv, TypeOK
  <2>3. watched' \in [Runs -> BOOLEAN]
    BY <1>1, Zenon DEF IInv, TypeOK
  <2> QED BY <1>1, <1>3, <2>1, <2>2, <2>3 DEF IInv, TypeOK, Results
<1>5. ChildFollowsRun' /\ Serial' /\ EntryIsOfRun'
  BY <1>1 DEF IInv, ChildFollowsRun, Serial, EntryIsOfRun, InProgress, Live, Working
<1>6. ShutdownKnows' /\ ContainersAreTracked' /\ ShutdownIsClean'
  BY <1>1, <1>3 DEF IInv, ShutdownKnows, ContainersAreTracked, ShutdownIsClean, Live
<1>7. CleanEnd'
  BY <1>1, <1>3 DEF IInv, CleanEnd
<1> QED BY <1>4, <1>5, <1>6, <1>7 DEF IInv

LEMMA CheckKeeps ==
  ASSUME IInv, NEW r \in Runs, Check(r)
  PROVE  IInv'
<1> USE CallFacts DEF removeVars, callVars, engineVars
<1>1. /\ pc[r] = "checking" /\ pc \in [Calls -> Steps] /\ result \in [Calls -> Results]
  BY DEF Check, IInv, TypeOK, Steps, Results
<1>2. UNCHANGED <<active, stopping, timer, watched, aborted, found, child, signalled, box>>
  BY DEF Check
<1>3. /\ \/ JoinRemoval(r)
         \/ UNCHANGED <<removal, attempt>>
      /\ \/ Go(r, "clearing") /\ UNCHANGED result
         \/ Go(r, "rechecking") /\ UNCHANGED result
         \/ End(r, "failed")
  BY DEF Check
<1>4. /\ pc' \in [Calls -> Steps] /\ result' \in [Calls -> Results]
      /\ \A d \in Calls : d # r => pc'[d] = pc[d] /\ result'[d] = result[d]
      /\ \/ pc'[r] \in {"clearing", "rechecking"}
         \/ pc'[r] = "over" /\ result'[r] = "failed"
  <2>1. CASE End(r, "failed")
    BY <1>1, <2>1, EndTyped DEF Results
  <2>2. CASE Go(r, "clearing") /\ UNCHANGED result
    BY <1>1, <2>2, GoTyped DEF Steps, Working
  <2>3. CASE Go(r, "rechecking") /\ UNCHANGED result
    BY <1>1, <2>3, GoTyped DEF Steps, Working
  <2> QED BY <1>3, <2>1, <2>2, <2>3
<1>5. TypeOK'
  <2>1. /\ removal' \in [Runs -> {"none", "rm", "inspect"}]
        /\ attempt' \in [Runs -> 0 .. Attempts]
    BY <1>3, JoinTyped DEF IInv, TypeOK
  <2> QED BY <1>2, <1>4, <2>1 DEF IInv, TypeOK, Steps, Results
<1>6. ChildFollowsRun' /\ Serial' /\ EntryIsOfRun'
  BY <1>1, <1>2, <1>4 DEF IInv, ChildFollowsRun, Serial, EntryIsOfRun, InProgress, Live, Working
<1>7. ShutdownKnows' /\ ContainersAreTracked' /\ ShutdownIsClean'
  BY <1>2, <1>4 DEF IInv, ShutdownKnows, ContainersAreTracked, ShutdownIsClean, Live
<1>8. CleanEnd'
  BY <1>2, <1>4 DEF IInv, CleanEnd
<1> QED BY <1>5, <1>6, <1>7, <1>8 DEF IInv

\* An entry is given up only when the name is free.
LEMMA GoneIsFree == ASSUME NEW answer \in Answers, answer \in Gone PROVE box = None
BY DEF Answers, Gone

LEMMA RecheckKeeps ==
  ASSUME IInv, NEW r \in Runs, Recheck(r)
  PROVE  IInv'
<1> USE CallFacts DEF removeVars, callVars, engineVars
<1>1. /\ pc[r] = "rechecking" /\ pc \in [Calls -> Steps] /\ result \in [Calls -> Results]
      /\ \A q \in Runs : ~Live(q)
  BY DEF Recheck, IInv, TypeOK, Steps, Results, ChildFollowsRun, Serial, InProgress, Working
<1>2. /\ UNCHANGED <<stopping, timer, removal, attempt, watched, aborted, found>>
      /\ UNCHANGED <<child, signalled, box>>
  BY DEF Recheck
<1>3. \/ active' = None /\ box = None /\ Go(r, "over") /\ UNCHANGED result
      \/ UNCHANGED active /\ End(r, "failed")
  BY GoneIsFree DEF Recheck
<1>4. /\ pc' \in [Calls -> Steps] /\ result' \in [Calls -> Results]
      /\ \A d \in Calls : d # r => pc'[d] = pc[d] /\ result'[d] = result[d]
      /\ pc'[r] = "over"
      /\ \/ active' = active /\ result'[r] = "failed"
         \/ active' = None /\ box = None
  <2>1. CASE End(r, "failed") /\ UNCHANGED active
    BY <1>1, <2>1, EndTyped DEF Results
  <2>2. CASE active' = None /\ box = None /\ Go(r, "over") /\ UNCHANGED result
    BY <1>1, <2>2, GoTyped DEF Steps
  <2> QED BY <1>3, <2>1, <2>2
<1>5. TypeOK'
  BY <1>2, <1>4 DEF IInv, TypeOK, Steps, Results
<1>6. ChildFollowsRun' /\ Serial' /\ EntryIsOfRun'
  BY <1>1, <1>2, <1>4 DEF IInv, ChildFollowsRun, Serial, EntryIsOfRun, InProgress, Live, Working
<1>7. ShutdownKnows' /\ ContainersAreTracked' /\ ShutdownIsClean'
  BY <1>1, <1>2, <1>4 DEF IInv, ShutdownKnows, ContainersAreTracked, ShutdownIsClean, Live
<1>8. CleanEnd'
  BY <1>2, <1>4 DEF IInv, CleanEnd
<1> QED BY <1>5, <1>6, <1>7, <1>8 DEF IInv

LEMMA RemoveKeeps ==
  ASSUME IInv, NEW r \in Runs, Remove(r)
  PROVE  IInv'
<1> USE CallFacts DEF removeVars, callVars, engineVars
<1>1. /\ UNCHANGED <<active, stopping, timer, attempt, watched, aborted, found, pc, result>>
      /\ UNCHANGED <<child, signalled>>
      /\ box' = None \/ box' = box
      /\ removal' = [removal EXCEPT ![r] = "inspect"]
  BY DEF Remove
<1>2. TypeOK'
  BY <1>1 DEF IInv, TypeOK
<1>3. ChildFollowsRun' /\ Serial' /\ EntryIsOfRun' /\ ShutdownKnows'
  BY <1>1 DEF IInv, ChildFollowsRun, Serial, EntryIsOfRun, ShutdownKnows, InProgress, Live, Working
<1>4. ContainersAreTracked' /\ ShutdownIsClean' /\ CleanEnd'
  BY <1>1 DEF IInv, ContainersAreTracked, ShutdownIsClean, CleanEnd
<1> QED BY <1>2, <1>3, <1>4 DEF IInv

LEMMA InspectKeeps ==
  ASSUME IInv, NEW r \in Runs, Inspect(r)
  PROVE  IInv'
<1> USE CallFacts DEF removeVars, callVars, engineVars
<1> DEFINE waiting == {c \in Calls \ Runs : pc[c] = "removing" /\ found[c] = r}
                        \cup {t \in {r} : pc[t] = "clearing"}
<1>1. UNCHANGED <<active, stopping, timer, aborted, child, box>>
  BY DEF Inspect
<1>2. TypeOK /\ pc \in [Calls -> Steps] /\ result \in [Calls -> Results]
  BY DEF IInv, TypeOK, Steps, Results
<1>3. \/ /\ MayRetry(r)
         /\ removal' = [removal EXCEPT ![r] = "rm"]
         /\ attempt' = [attempt EXCEPT ![r] = @ + 1]
         /\ UNCHANGED <<watched, pc, result, found, signalled>>
      \/ \E answer \in Answers :
           /\ Settle(r, answer \in Gone)
           /\ signalled' = [signalled EXCEPT ![r] =
                              child[r] # "closed" /\ (@ \/ Signalled(r, answer))]
  BY DEF Inspect
<1>4. /\ pc' \in [Calls -> Steps] /\ result' \in [Calls -> Results]
      /\ found' \in [Cancels \cup {None} -> Runs \cup {None}]
      /\ \A c \in Calls : c \notin waiting => pc'[c] = pc[c] /\ result'[c] = result[c]
      /\ \A c \in Calls : \/ pc'[c] = pc[c] /\ result'[c] = result[c]
                          \/ c = r /\ pc'[c] = "rechecking" /\ result'[c] = result[c]
                          \/ c # r /\ pc'[c] = "settling" /\ result'[c] = result[c]
                          \/ pc'[c] = "over" /\ result'[c] = "failed"
      /\ \A c \in Cancels \cup {None} : pc'[c] = "over" \/ found'[c] = found[c]
  <2>1. CASE UNCHANGED <<watched, pc, result, found, signalled>>
    BY <1>2, <2>1 DEF TypeOK
  <2>2. CASE Settle(r, TRUE)
    <3>1. pc' = [c \in Calls |-> IF c \notin waiting THEN pc[c]
                                 ELSE IF c = r THEN "rechecking" ELSE "settling"]
          /\ UNCHANGED <<result, found>>
      BY <2>2 DEF Settle
    <3> QED BY <1>2, <3>1 DEF TypeOK, Steps, Working
  <2>3. CASE Settle(r, FALSE)
    <3>1. /\ pc' = [c \in Calls |-> IF c \in waiting THEN "over" ELSE pc[c]]
          /\ result' = [c \in Calls |-> IF c \in waiting THEN "failed" ELSE result[c]]
          /\ found' = [c \in Cancels \cup {None} |-> IF c \in waiting THEN None ELSE found[c]]
      BY <2>3 DEF Settle
    <3> HIDE DEF waiting
    <3>2. pc' \in [Calls -> Steps] /\ result' \in [Calls -> Results]
      BY <1>2, <3>1 DEF Steps, Results
    <3>3. found' \in [Cancels \cup {None} -> Runs \cup {None}]
      BY <1>2, <3>1 DEF TypeOK
    <3> QED BY <3>1, <3>2, <3>3
  <2>4. \A answer \in Answers : Settle(r, answer \in Gone) => Settle(r, TRUE) \/ Settle(r, FALSE)
    BY DEF Settle
  <2> QED BY <1>3, <2>1, <2>2, <2>3, <2>4
<1>5. TypeOK'
  <2>1. /\ removal' \in [Runs -> {"none", "rm", "inspect"}] /\ attempt' \in [Runs -> 0 .. Attempts]
    <3>1. CASE MayRetry(r) /\ removal' = [removal EXCEPT ![r] = "rm"]
               /\ attempt' = [attempt EXCEPT ![r] = @ + 1]
      <4>1. attempt[r] \in 0 .. Attempts /\ attempt[r] < Attempts
        BY <1>2, <3>1 DEF TypeOK, MayRetry
      <4>2. attempt[r] + 1 \in 0 .. Attempts
        BY <4>1, RunnerAssumption
      <4> QED BY <1>2, <3>1, <4>2 DEF TypeOK
    <3>2. CASE \E answer \in Answers : Settle(r, answer \in Gone)
      <4>1. removal' = [removal EXCEPT ![r] = "none"] /\ attempt' = [attempt EXCEPT ![r] = 0]
        BY <3>2 DEF Settle
      <4> QED BY <1>2, <4>1, RunnerAssumption DEF TypeOK
    <3> QED BY <1>3, <3>1, <3>2
  <2>2. watched' \in [Runs -> BOOLEAN]
    <3>1. watched' = watched \/ watched' = [watched EXCEPT ![r] = FALSE]
      BY <1>3 DEF Settle
    <3> QED BY <1>2, <3>1, Zenon DEF TypeOK
  <2>3. signalled' \in [Runs -> BOOLEAN]
    <3>1. signalled' = signalled \/ \E b \in BOOLEAN : signalled' = [signalled EXCEPT ![r] = b]
      BY <1>3
    <3> QED BY <1>2, <3>1, Zenon DEF TypeOK
  <2> QED BY <1>1, <1>2, <1>4, <2>1, <2>2, <2>3 DEF TypeOK, Steps, Results
<1>6. /\ pc'[r] = pc[r] \/ (pc[r] = "clearing" /\ pc'[r] \in {"rechecking", "over"})
      /\ \A q \in Runs : q # r => pc'[q] = pc[q] /\ result'[q] = result[q]
      /\ \A q \in Runs : pc'[q] = "over" =>
           (pc[q] = "over" /\ result'[q] = result[q]) \/ result'[q] = "failed"
  BY <1>4
<1>7. ChildFollowsRun' /\ Serial' /\ EntryIsOfRun'
  BY <1>1, <1>6 DEF IInv, ChildFollowsRun, Serial, EntryIsOfRun, InProgress, Live, Working
<1>8. ShutdownKnows'
  <2>1. \/ pc'[None] = pc[None] /\ result'[None] = result[None]
        \/ /\ pc[None] = "removing" /\ result'[None] = result[None]
           /\ pc'[None] = "settling"
        \/ pc[None] = "removing" /\ pc'[None] = "over" /\ result'[None] = "failed"
    BY <1>4
  <2>2. pc'[None] = "over" \/ found'[None] = found[None]
    BY <1>4
  <2> QED BY <1>1, <2>1, <2>2 DEF IInv, ShutdownKnows, Live
<1>9. result'[None] = "ok" => result[None] = "ok"
  BY <1>4
<1>10. ContainersAreTracked' /\ ShutdownIsClean'
  BY <1>1, <1>9 DEF IInv, ContainersAreTracked, ShutdownIsClean
<1>11. CleanEnd'
  BY <1>1, <1>6 DEF IInv, CleanEnd
<1> QED BY <1>5, <1>7, <1>8, <1>10, <1>11 DEF IInv

\* cancel and shutdown mark the entry as cancelled, unless its child has closed.
LEMMA TakeDownKeeps ==
  ASSUME IInv, NEW c \in Cancels \cup {None}, TakeDown(c), pc[c] = "idle",
         UNCHANGED stopping \/ stopping' = TRUE, c = None => stopping',
         aborted' \in [Runs -> BOOLEAN]
  PROVE  IInv'
<1> USE CallFacts DEF removeVars, callVars, engineVars
<1>1. /\ c \in Calls /\ c \notin Runs /\ TypeOK
      /\ pc \in [Calls -> Steps] /\ result \in [Calls -> Results]
  BY DEF IInv, TypeOK, Steps, Results
<1>2. /\ UNCHANGED <<active, timer, watched, child, signalled, box>>
      /\ found' = [found EXCEPT ![c] = active]
  BY DEF TakeDown
<1>3. CASE active = None
  <2>1. End(c, "ok") /\ UNCHANGED <<removal, attempt>>
    BY <1>3 DEF TakeDown
  <2>2. /\ pc' \in [Calls -> Steps] /\ result' \in [Calls -> Results]
        /\ pc'[c] = "over" /\ result'[c] = "ok"
        /\ \A d \in Calls : d # c => pc'[d] = pc[d] /\ result'[d] = result[d]
    BY <1>1, <2>1, EndTyped DEF Results
  <2>3. \A q \in Runs : box # q /\ ~Live(q)
    BY <1>3 DEF IInv, ContainersAreTracked, Live
  <2>4. TypeOK'
    BY <1>1, <1>2, <2>1, <2>2 DEF TypeOK, Steps, Results
  <2>5. ChildFollowsRun' /\ Serial' /\ EntryIsOfRun' /\ ContainersAreTracked' /\ CleanEnd'
    BY <1>1, <1>2, <2>2 DEF IInv, ChildFollowsRun, Serial, EntryIsOfRun, InProgress, Live, Working,
                            ContainersAreTracked, CleanEnd
  <2>6. ShutdownIsClean'
    BY <1>2, <2>3 DEF ShutdownIsClean, Live
  <2>7. ShutdownKnows'
    BY <1>1, <1>2, <2>2, <2>3 DEF IInv, ShutdownKnows, TypeOK, Live
  <2> QED BY <2>4, <2>5, <2>6, <2>7 DEF IInv
<1>4. CASE active # None
  <2>1. /\ active \in Runs /\ JoinRemoval(active) /\ Go(c, "removing")
        /\ result' = [result EXCEPT ![active] =
                         IF child[active] = "closed" THEN @ ELSE "cancelled"]
    BY <1>1, <1>4 DEF TakeDown, TypeOK
  <2>2. /\ pc' \in [Calls -> Steps] /\ pc'[c] = "removing"
        /\ \A d \in Calls : d # c => pc'[d] = pc[d]
    BY <1>1, <2>1, GoTyped DEF Steps
  <2>3. /\ result' \in [Calls -> Results]
        /\ \A d \in Calls : d # active => result'[d] = result[d]
        /\ child[active] = "closed" => result'[active] = result[active]
    BY <1>1, <2>1 DEF Results
  <2>4. TypeOK'
    <3>1. /\ removal' \in [Runs -> {"none", "rm", "inspect"}]
          /\ attempt' \in [Runs -> 0 .. Attempts]
      BY <1>1, <2>1, JoinTyped DEF TypeOK
    <3>2. found' \in [Cancels \cup {None} -> Runs \cup {None}]
      BY <1>1, <1>2 DEF TypeOK
    <3>3. stopping' \in BOOLEAN
      BY <1>1, Zenon DEF TypeOK
    <3> QED BY <1>1, <1>2, <2>2, <2>3, <3>1, <3>2, <3>3 DEF TypeOK, Steps, Results
  <2>5. ChildFollowsRun' /\ Serial' /\ EntryIsOfRun' /\ ContainersAreTracked'
    BY <1>1, <1>2, <2>2 DEF IInv, ChildFollowsRun, Serial, EntryIsOfRun, InProgress, Live, Working,
                            ContainersAreTracked
  <2>6. pc[active] = "over" => child[active] = "closed"
    BY <1>1, <2>1 DEF IInv, ChildFollowsRun, EntryIsOfRun, TypeOK, Live
  <2>7. CleanEnd'
    BY <1>1, <1>2, <2>2, <2>3, <2>6 DEF IInv, CleanEnd
  <2>8. result'[None] = result[None]
    BY <2>1, <2>3
  <2>9. ShutdownIsClean'
    BY <1>2, <2>8 DEF IInv, ShutdownIsClean
  <2>10. ShutdownKnows'
    <3>1. \A q \in Runs : Live(q) => q = active
      BY DEF IInv, ContainersAreTracked, Live
    <3>2. CASE c = None
      <4>1. found'[None] = active /\ pc'[None] = "removing" /\ result'[None] # "ok"
        BY <1>1, <1>2, <2>2, <2>8, <3>2 DEF IInv, TypeOK, ShutdownKnows
      <4> QED BY <1>2, <2>1, <3>1, <3>2, <4>1 DEF ShutdownKnows, Live
    <3>3. CASE c # None
      <4>1. found'[None] = found[None] /\ pc'[None] = pc[None]
        BY <1>1, <1>2, <2>2, <3>3 DEF TypeOK
      <4> QED BY <1>2, <2>8, <4>1 DEF IInv, ShutdownKnows, Live
    <3> QED BY <3>2, <3>3
  <2> QED BY <2>4, <2>5, <2>7, <2>9, <2>10 DEF IInv
<1> QED BY <1>3, <1>4

LEMMA SettledKeeps ==
  ASSUME IInv, NEW c \in Cancels \cup {None}, Settled(c)
  PROVE  IInv'
<1> USE CallFacts DEF removeVars, callVars, engineVars
<1>1. /\ c \in Calls /\ c \notin Runs /\ TypeOK /\ pc[c] = "settling"
      /\ pc \in [Calls -> Steps] /\ result \in [Calls -> Results]
  BY DEF Settled, IInv, TypeOK, Steps, Results
<1>2. /\ UNCHANGED <<active, stopping, timer, removal, attempt, watched, aborted>>
      /\ UNCHANGED <<child, signalled, box>>
      /\ found' = [found EXCEPT ![c] = None]
  BY DEF Settled
<1>3. /\ pc' \in [Calls -> Steps] /\ result' \in [Calls -> Results]
      /\ \A d \in Calls : d # c => pc'[d] = pc[d] /\ result'[d] = result[d]
      /\ c = None => pc'[c] = "verifying" /\ result'[c] = result[c]
  <2>1. CASE c = None
    BY <1>1, <2>1, GoTyped DEF Settled, Steps
  <2>2. CASE c # None
    BY <1>1, <2>2, EndTyped DEF Settled, Results
  <2> QED BY <2>1, <2>2
<1>4. TypeOK'
  BY <1>1, <1>2, <1>3 DEF TypeOK, Steps, Results
<1>5. ChildFollowsRun' /\ Serial' /\ EntryIsOfRun' /\ ContainersAreTracked' /\ CleanEnd'
  BY <1>1, <1>2, <1>3 DEF IInv, ChildFollowsRun, Serial, EntryIsOfRun, InProgress, Live, Working,
                          ContainersAreTracked, CleanEnd
<1>6. result'[None] = result[None]
  BY <1>1, <1>3
<1>7. ShutdownIsClean'
  BY <1>2, <1>6 DEF IInv, ShutdownIsClean
<1>8. ShutdownKnows'
  <2>1. CASE c = None
    <3>1. \A q \in Runs : ~Live(q)
      BY <1>1, <2>1 DEF Settled, IInv, ShutdownKnows, Live
    <3> QED BY <1>1, <1>2, <1>3, <2>1, <3>1 DEF IInv, ShutdownKnows, Live
  <2>2. CASE c # None
    <3>1. found'[None] = found[None] /\ pc'[None] = pc[None]
      BY <1>1, <1>2, <1>3, <2>2 DEF TypeOK
    <3> QED BY <1>2, <1>6, <3>1 DEF IInv, ShutdownKnows, Live
  <2> QED BY <2>1, <2>2
<1> QED BY <1>4, <1>5, <1>7, <1>8 DEF IInv

LEMMA ShutdownEndsKeeps ==
  ASSUME IInv, ShutdownEnds
  PROVE  IInv'
<1> USE CallFacts DEF removeVars, callVars, engineVars
<1>1. /\ pc[None] = "verifying" /\ stopping /\ \A q \in Runs : ~Live(q)
      /\ pc \in [Calls -> Steps] /\ result \in [Calls -> Results]
  BY DEF ShutdownEnds, IInv, ShutdownKnows, TypeOK, Steps, Results
<1>2. /\ UNCHANGED <<stopping, timer, removal, attempt, watched, aborted, found>>
      /\ UNCHANGED <<child, signalled, box>>
  BY DEF ShutdownEnds
<1>3. \/ active' = None /\ box = None /\ End(None, "ok")
      \/ UNCHANGED active /\ End(None, "failed")
  BY GoneIsFree DEF ShutdownEnds, VerifiedNow
<1>4. /\ pc' \in [Calls -> Steps] /\ result' \in [Calls -> Results]
      /\ \A d \in Calls : d # None => pc'[d] = pc[d] /\ result'[d] = result[d]
      /\ pc'[None] = "over"
      /\ \/ active' = active /\ result'[None] = "failed"
         \/ active' = None /\ box = None
  BY <1>1, <1>3, EndTyped DEF Results
<1>5. TypeOK'
  BY <1>2, <1>4 DEF IInv, TypeOK, Steps, Results
<1>6. ChildFollowsRun' /\ Serial' /\ EntryIsOfRun'
  BY <1>1, <1>2, <1>4 DEF IInv, ChildFollowsRun, Serial, EntryIsOfRun, InProgress, Live, Working
<1>7. ShutdownKnows' /\ ContainersAreTracked' /\ ShutdownIsClean'
  BY <1>1, <1>2, <1>4 DEF IInv, ShutdownKnows, ContainersAreTracked, ShutdownIsClean, Live
<1>8. CleanEnd'
  BY <1>2, <1>4 DEF IInv, CleanEnd
<1> QED BY <1>5, <1>6, <1>7, <1>8 DEF IInv

\* The child of a Run closes, and at most its container goes with it.
LEMMA ClosesKeeps ==
  ASSUME IInv, NEW r \in Runs, NEW exit \in Results, Closes(r, exit), Live(r),
         box' = None \/ box' = box
  PROVE  IInv'
<1> USE CallFacts DEF removeVars, callVars, engineVars
<1>1. /\ pc[r] = "spawned" /\ TypeOK
      /\ pc \in [Calls -> Steps] /\ result \in [Calls -> Results]
  BY DEF IInv, ChildFollowsRun, TypeOK, Steps, Results
<1>2. UNCHANGED <<active, stopping, removal, attempt, watched, aborted, found>>
  BY DEF Closes
<1>3. /\ pc' \in [Calls -> Steps] /\ pc'[r] = "checking"
      /\ \A d \in Calls : d # r => pc'[d] = pc[d]
  BY <1>1, GoTyped DEF Closes, Steps, Working
<1>4. /\ child' \in [Runs -> {"none", "starting", "attached", "closed"}]
      /\ child'[r] = "closed" /\ \A q \in Runs : q # r => child'[q] = child[q]
      /\ timer' \in [Runs -> {"off", "armed"}]
  BY <1>1 DEF Closes, TypeOK
<1>5. result' \in [Calls -> Results] /\ \A d \in Calls : d # r => result'[d] = result[d]
  BY <1>1 DEF Closes, Results
<1>6. signalled' \in [Runs -> BOOLEAN]
  <2>1. [signalled EXCEPT ![r] = FALSE] \in [Runs -> BOOLEAN]
    BY <1>1, Zenon DEF TypeOK
  <2> QED BY <2>1, Zenon DEF Closes
<1>7. TypeOK'
  BY <1>1, <1>2, <1>3, <1>4, <1>5, <1>6 DEF TypeOK, Steps, Results
<1>8. ChildFollowsRun' /\ Serial' /\ EntryIsOfRun'
  BY <1>1, <1>2, <1>3, <1>4
     DEF IInv, ChildFollowsRun, Serial, EntryIsOfRun, InProgress, Live, Working
<1>9. ShutdownKnows' /\ ContainersAreTracked' /\ ShutdownIsClean'
  BY <1>2, <1>3, <1>4, <1>5 DEF IInv, ShutdownKnows, ContainersAreTracked, ShutdownIsClean, Live
<1>10. CleanEnd'
  BY <1>2, <1>3, <1>5 DEF IInv, CleanEnd
<1> QED BY <1>7, <1>8, <1>9, <1>10 DEF IInv

LEMMA EngineKeeps ==
  ASSUME IInv, NEW r \in Runs, EngineStep(r)
  PROVE  IInv'
<1> USE CallFacts DEF removeVars, callVars, engineVars
<1>1. CASE Create(r)
  <2>1. /\ UNCHANGED <<active, stopping, timer, removal, attempt, watched, aborted, found>>
        /\ UNCHANGED <<pc, result, signalled>>
        /\ child[r] = "starting" /\ box' = r /\ active = r
    BY <1>1 DEF Create, IInv, ContainersAreTracked
  <2>2. /\ child' \in [Runs -> {"none", "starting", "attached", "closed"}]
        /\ child'[r] = "attached" /\ \A q \in Runs : q # r => child'[q] = child[q]
    BY <1>1 DEF Create, IInv, TypeOK
  <2>3. TypeOK'
    BY <2>1, <2>2 DEF IInv, TypeOK
  <2>4. ChildFollowsRun' /\ Serial' /\ EntryIsOfRun' /\ ContainersAreTracked'
    BY <2>1, <2>2 DEF IInv, ChildFollowsRun, Serial, EntryIsOfRun, InProgress, Live, Working,
                      ContainersAreTracked
  <2>5. CleanEnd'
    BY <2>1 DEF IInv, CleanEnd, ChildFollowsRun, Live
  <2>6. ShutdownKnows' /\ ShutdownIsClean'
    BY <2>1, <2>2 DEF IInv, ShutdownKnows, ShutdownIsClean, Live
  <2> QED BY <2>3, <2>4, <2>5, <2>6 DEF IInv
<1>2. CASE Refuse(r)
  BY <1>2, ClosesKeeps DEF Refuse, Live, Results
<1>3. CASE Exit(r)
  <2>1. /\ Live(r)
        /\ box' = None \/ box' = box
        /\ \E exit \in Results : Closes(r, exit)
    BY <1>3 DEF Exit, Live, Results
  <2> QED BY <2>1, ClosesKeeps
<1> QED BY <1>1, <1>2, <1>3 DEF EngineStep

LEMMA LateRemovalKeeps ==
  ASSUME IInv, LateRemoval
  PROVE  IInv'
<1> USE CallFacts DEF removeVars, callVars, engineVars
<1>1. /\ UNCHANGED <<active, stopping, timer, removal, attempt, watched, aborted, found, pc>>
      /\ UNCHANGED <<result, child, signalled>>
      /\ box' = None
  BY DEF LateRemoval
<1>2. TypeOK'
  BY <1>1 DEF IInv, TypeOK
<1>3. ChildFollowsRun' /\ Serial' /\ EntryIsOfRun' /\ ShutdownKnows'
  BY <1>1 DEF IInv, ChildFollowsRun, Serial, EntryIsOfRun, ShutdownKnows, InProgress, Live, Working
<1>4. ContainersAreTracked' /\ ShutdownIsClean' /\ CleanEnd'
  BY <1>1 DEF IInv, ContainersAreTracked, ShutdownIsClean, CleanEnd
<1> QED BY <1>2, <1>3, <1>4 DEF IInv

-----------------------------------------------------------------------------
(* The invariant is inductive *)

LEMMA InitInv == Init => IInv
<1> SUFFICES ASSUME Init PROVE IInv
  OBVIOUS
<1> USE CallFacts
<1>1. TypeOK
  <2>1. /\ watched \in [Runs -> BOOLEAN] /\ aborted \in [Runs -> BOOLEAN]
        /\ signalled \in [Runs -> BOOLEAN]
    BY Zenon DEF Init
  <2>2. 0 \in 0 .. Attempts
    BY RunnerAssumption
  <2>3. /\ attempt \in [Runs -> 0 .. Attempts] /\ removal \in [Runs -> {"none", "rm", "inspect"}]
        /\ timer \in [Runs -> {"off", "armed"}]
    BY <2>2 DEF Init
  <2> QED BY <2>1, <2>3 DEF Init, TypeOK
<1>2. ChildFollowsRun /\ Serial /\ EntryIsOfRun
  BY DEF Init, ChildFollowsRun, Serial, EntryIsOfRun, InProgress, Live, Working
<1>3. ShutdownKnows /\ ContainersAreTracked /\ CleanEnd /\ ShutdownIsClean
  BY DEF Init, ShutdownKnows, ContainersAreTracked, CleanEnd, ShutdownIsClean, Live
<1> QED BY <1>1, <1>2, <1>3 DEF IInv

LEMMA StepInv ==
  ASSUME ~MayOverlap, IInv, [Next]_vars
  PROVE  IInv'
<1>1. ASSUME NEW r \in Runs,
             \/ CallRun(r) \/ RunStep(r) \/ Timeout(r) \/ OutputExceeds(r) \/ EngineStep(r)
      PROVE  IInv'
  BY <1>1, CallRunKeeps, SetupEndsKeeps, SpawnKeeps, CheckKeeps, RecheckKeeps, RemoveKeeps,
     InspectKeeps, OverrunKeeps, EngineKeeps DEF RunStep
<1>2. ASSUME NEW c \in Cancels, CallCancel(c) PROVE IInv'
  <2>1. aborted' \in [Runs -> BOOLEAN]
    BY <1>2 DEF CallCancel
  <2> QED BY <1>2, <2>1, TakeDownKeeps, CallFacts DEF CallCancel
<1>3. CASE CallShutdown
  BY <1>3, TakeDownKeeps DEF CallShutdown, IInv, TypeOK
<1>4. CASE UNCHANGED vars
  <2> USE <1>4 DEF vars, removeVars, callVars, engineVars
  <2>1. TypeOK'
    BY DEF IInv, TypeOK
  <2>2. ChildFollowsRun' /\ Serial' /\ EntryIsOfRun' /\ ShutdownKnows'
    BY DEF IInv, ChildFollowsRun, Serial, EntryIsOfRun, ShutdownKnows, InProgress, Live
  <2>3. ContainersAreTracked' /\ CleanEnd' /\ ShutdownIsClean'
    BY DEF IInv, ContainersAreTracked, CleanEnd, ShutdownIsClean
  <2> QED BY <2>1, <2>2, <2>3 DEF IInv
<1> QED BY <1>1, <1>2, <1>3, <1>4, SettledKeeps, ShutdownEndsKeeps, LateRemovalKeeps DEF Next

\* What every reachable state satisfies if AgentService keeps the Runs apart.
THEOREM RunnerInvariant == ASSUME ~MayOverlap PROVE Spec => []IInv
BY InitInv, StepInv, PTL DEF Spec

-----------------------------------------------------------------------------
(* What follows from it *)

\* Every variable keeps its type, for any number of Runs, cancels and removal attempts.
THEOREM RunnerTypeCorrect == ASSUME ~MayOverlap PROVE Spec => []TypeOK
BY RunnerInvariant, PTL DEF IInv

\* There is no container of a Run, and no command that may still create one, that cancel
\* and shutdown would not find by the entry of its Run, whatever the engine fails to do.
THEOREM ContainersAreTrackedHolds == ASSUME ~MayOverlap PROVE Spec => []ContainersAreTracked
BY RunnerInvariant, PTL DEF IInv

\* A Run that ended well or was cancelled has left neither a container nor an entry that
\* would refuse the next Run of its Agent.
THEOREM CleanEndHolds == ASSUME ~MayOverlap PROVE Spec => []CleanEnd
BY RunnerInvariant, PTL DEF IInv

\* Once a shutdown has reported success, no container of a Run is left and none will be
\* created, although Runs may have been in their set-up when it began.
THEOREM ShutdownIsCleanHolds == ASSUME ~MayOverlap PROVE Spec => []ShutdownIsClean
BY RunnerInvariant, PTL DEF IInv

-----------------------------------------------------------------------------
(* The Runtime that AgentService is promised *)

\* The state of AgentRuntime, as this Runtime has it.
AllSteps == [c \in Calls |-> Step(c)]
LiveRuns == {r \in Runs : box = r \/ child[r] \in {"starting", "attached"}}

\* A timer is armed only while its Run is open, and who awaits a removal has found a Run.
TimerRuns == \A r \in Runs : timer[r] = "armed" => pc[r] = "spawned"
StopsHold ==
  \A c \in Cancels \cup {None} : /\ pc[c] \in {"removing", "settling"} => found[c] \in Runs
                                 /\ pc[c] = "verifying" => found[c] = None
RInv == IInv /\ TimerRuns /\ StopsHold

\* What a step does to one Run leaves the others' timers and the stops as they are.
LEMMA OthersKeep ==
  ASSUME IInv, TimerRuns, StopsHold, NEW r \in Runs,
         pc' \in [Calls -> Steps], \A d \in Calls : d # r => pc'[d] = pc[d], UNCHANGED found,
         \A q \in Runs : q # r => timer'[q] = timer[q],
         timer'[r] = "armed" => pc'[r] = "spawned"
  PROVE  TimerRuns' /\ StopsHold'
<1> USE CallFacts
<1>1. TimerRuns'
  BY DEF TimerRuns
<1>2. StopsHold'
  BY DEF StopsHold
<1> QED BY <1>1, <1>2

LEMMA RunStepHolds ==
  ASSUME RInv, NEW r \in Runs,
         \/ CallRun(r) \/ SetupEnds(r) \/ Spawn(r) \/ Check(r) \/ Recheck(r) \/ Remove(r)
         \/ Timeout(r) \/ OutputExceeds(r) \/ EngineStep(r)
  PROVE  TimerRuns' /\ StopsHold'
<1> USE CallFacts DEF removeVars, callVars, engineVars
<1>1. /\ IInv /\ TimerRuns /\ StopsHold
      /\ pc \in [Calls -> Steps] /\ timer \in [Runs -> {"off", "armed"}]
      /\ timer[r] = "armed" => pc[r] = "spawned"
  BY DEF RInv, IInv, TypeOK, Steps, TimerRuns
<1>2. ASSUME NEW step \in Steps, pc' = [pc EXCEPT ![r] = step], UNCHANGED found,
             \/ timer' = timer /\ pc[r] # "spawned"
             \/ timer' = [timer EXCEPT ![r] = "off"]
             \/ timer' = [timer EXCEPT ![r] = "armed"] /\ step = "spawned"
      PROVE  TimerRuns' /\ StopsHold'
  <2>1. /\ pc' \in [Calls -> Steps] /\ \A d \in Calls : d # r => pc'[d] = pc[d]
        /\ \A q \in Runs : q # r => timer'[q] = timer[q]
        /\ timer'[r] = "armed" => pc'[r] = "spawned"
    BY <1>1, <1>2
  <2> QED BY <1>1, <1>2, <2>1, OthersKeep
<1>3. ASSUME UNCHANGED <<pc, found>>,
             timer' = timer \/ timer' = [timer EXCEPT ![r] = "off"]
      PROVE  TimerRuns' /\ StopsHold'
  BY <1>1, <1>3, OthersKeep
<1>4. CASE CallRun(r)
  BY <1>2, <1>4 DEF CallRun, End, Go, Steps, Working
<1>5. CASE SetupEnds(r)
  BY <1>2, <1>5 DEF SetupEnds, End, Go, Steps
<1>6. CASE Spawn(r)
  BY <1>2, <1>6 DEF Spawn, Go, Steps, Working
<1>7. CASE Check(r)
  BY <1>2, <1>7 DEF Check, End, Go, Steps, Working
<1>8. CASE Recheck(r)
  BY <1>2, <1>8 DEF Recheck, End, Go, Steps
<1>9. CASE Remove(r) \/ Timeout(r) \/ OutputExceeds(r) \/ Create(r)
  BY <1>3, <1>9 DEF Remove, Timeout, OutputExceeds, Overrun, Create
<1>10. CASE Refuse(r) \/ Exit(r)
  <2>1. \E exit \in Results : Closes(r, exit)
    BY <1>10 DEF Refuse, Exit, Results
  <2> QED BY <1>2, <2>1 DEF Closes, Go, Steps, Working
<1> QED BY <1>4, <1>5, <1>6, <1>7, <1>8, <1>9, <1>10 DEF EngineStep

\* The settled removal tells those who wait for it, and no others.
LEMMA InspectEffect ==
  ASSUME IInv, NEW r \in Runs, Inspect(r)
  PROVE  /\ UNCHANGED <<active, stopping, timer, child, box>>
         /\ \/ UNCHANGED <<pc, result, found>>
            \/ \E waiting \in SUBSET {c \in Calls : pc[c] \in {"removing", "clearing"}} :
                 \/ /\ pc' = [c \in Calls |-> IF c \notin waiting THEN pc[c]
                                              ELSE IF c = r THEN "rechecking" ELSE "settling"]
                    /\ r \in waiting => pc[r] = "clearing"
                    /\ \A c \in waiting : c # r => pc[c] = "removing"
                    /\ UNCHANGED <<result, found>>
                 \/ /\ pc' = [c \in Calls |-> IF c \in waiting THEN "over" ELSE pc[c]]
                    /\ result' = [c \in Calls |-> IF c \in waiting THEN "failed" ELSE result[c]]
                    /\ found' = [c \in Cancels \cup {None} |->
                                   IF c \in waiting THEN None ELSE found[c]]
<1> USE CallFacts
<1> DEFINE w == {c \in Calls \ Runs : pc[c] = "removing" /\ found[c] = r}
                  \cup {t \in {r} : pc[t] = "clearing"}
<1>1. UNCHANGED <<active, stopping, timer, child, box>>
  BY DEF Inspect
<1>2. w \in SUBSET {c \in Calls : pc[c] \in {"removing", "clearing"}}
  OBVIOUS
<1>3. (r \in w => pc[r] = "clearing") /\ \A c \in w : c # r => pc[c] = "removing"
  OBVIOUS
<1>4. \/ UNCHANGED <<pc, result, found>>
      \/ \E answer \in Answers : Settle(r, answer \in Gone)
  BY DEF Inspect
<1>5. ASSUME NEW answer \in Answers, Settle(r, answer \in Gone)
      PROVE  \/ /\ pc' = [c \in Calls |-> IF c \notin w THEN pc[c]
                                          ELSE IF c = r THEN "rechecking" ELSE "settling"]
                /\ UNCHANGED <<result, found>>
             \/ /\ pc' = [c \in Calls |-> IF c \in w THEN "over" ELSE pc[c]]
                /\ result' = [c \in Calls |-> IF c \in w THEN "failed" ELSE result[c]]
                /\ found' = [c \in Cancels \cup {None} |-> IF c \in w THEN None ELSE found[c]]
  BY <1>5 DEF Settle
<1> HIDE DEF w
<1> QED BY <1>1, <1>2, <1>3, <1>4, <1>5

LEMMA InspectHolds ==
  ASSUME RInv, NEW r \in Runs, Inspect(r)
  PROVE  TimerRuns' /\ StopsHold'
<1> USE CallFacts
<1>1. IInv /\ TimerRuns /\ StopsHold
  BY DEF RInv
<1>2. CASE UNCHANGED <<pc, result, found>>
  BY <1>1, <1>2, InspectEffect DEF TimerRuns, StopsHold
<1>3. ASSUME NEW waiting \in SUBSET {c \in Calls : pc[c] \in {"removing", "clearing"}},
             pc' = [c \in Calls |-> IF c \notin waiting THEN pc[c]
                                    ELSE IF c = r THEN "rechecking" ELSE "settling"],
             \A c \in waiting : c # r => pc[c] = "removing",
             UNCHANGED <<result, found>>
      PROVE  TimerRuns' /\ StopsHold'
  <2>1. TimerRuns'
    BY <1>1, <1>3, InspectEffect DEF TimerRuns
  <2>2. StopsHold'
    BY <1>1, <1>3 DEF StopsHold
  <2> QED BY <2>1, <2>2
<1>4. ASSUME NEW waiting \in SUBSET {c \in Calls : pc[c] \in {"removing", "clearing"}},
             pc' = [c \in Calls |-> IF c \in waiting THEN "over" ELSE pc[c]],
             found' = [c \in Cancels \cup {None} |-> IF c \in waiting THEN None ELSE found[c]]
      PROVE  TimerRuns' /\ StopsHold'
  <2>1. TimerRuns'
    BY <1>1, <1>4, InspectEffect DEF TimerRuns
  <2>2. StopsHold'
    BY <1>1, <1>4 DEF StopsHold
  <2> QED BY <2>1, <2>2
<1> QED BY <1>1, <1>2, <1>3, <1>4, InspectEffect

LEMMA TakeDownHolds ==
  ASSUME RInv, NEW c \in Cancels \cup {None}, TakeDown(c)
  PROVE  TimerRuns' /\ StopsHold'
<1> USE CallFacts
<1>1. /\ IInv /\ TimerRuns /\ StopsHold /\ c \in Calls /\ c \notin Runs
      /\ pc \in [Calls -> Steps] /\ active \in Runs \cup {None}
      /\ found \in [Cancels \cup {None} -> Runs \cup {None}]
  BY DEF RInv, IInv, TypeOK, Steps
<1>2. /\ timer' = timer /\ found' = [found EXCEPT ![c] = active]
      /\ pc' = [pc EXCEPT ![c] = IF active = None THEN "over" ELSE "removing"]
  BY DEF TakeDown, End, Go
<1>3. TimerRuns'
  BY <1>1, <1>2 DEF TimerRuns
<1>4. StopsHold'
  BY <1>1, <1>2 DEF StopsHold
<1> QED BY <1>3, <1>4

LEMMA SettledHolds ==
  ASSUME RInv, NEW c \in Cancels \cup {None}, Settled(c)
  PROVE  TimerRuns' /\ StopsHold'
<1> USE CallFacts DEF removeVars, engineVars
<1>1. /\ IInv /\ TimerRuns /\ StopsHold /\ c \in Calls /\ c \notin Runs
      /\ pc \in [Calls -> Steps]
      /\ found \in [Cancels \cup {None} -> Runs \cup {None}]
  BY DEF RInv, IInv, TypeOK, Steps
<1>2. /\ timer' = timer /\ found' = [found EXCEPT ![c] = None]
      /\ pc' = [pc EXCEPT ![c] = IF c = None THEN "verifying" ELSE "over"]
  BY DEF Settled, End, Go
<1>3. TimerRuns'
  BY <1>1, <1>2 DEF TimerRuns
<1>4. StopsHold'
  BY <1>1, <1>2 DEF StopsHold
<1> QED BY <1>3, <1>4

LEMMA RestHolds ==
  ASSUME RInv, ShutdownEnds \/ LateRemoval \/ UNCHANGED vars
  PROVE  TimerRuns' /\ StopsHold'
<1> USE CallFacts DEF removeVars, callVars, engineVars
<1>1. IInv /\ TimerRuns /\ StopsHold /\ pc \in [Calls -> Steps]
  BY DEF RInv, IInv, TypeOK, Steps
<1>2. /\ UNCHANGED <<timer, found>>
      /\ UNCHANGED pc \/ pc' = [pc EXCEPT ![None] = "over"]
  BY DEF ShutdownEnds, LateRemoval, End, Go, vars
<1>3. TimerRuns'
  BY <1>1, <1>2 DEF TimerRuns
<1>4. StopsHold'
  BY <1>1, <1>2 DEF StopsHold
<1> QED BY <1>3, <1>4

LEMMA RuntimeInvStep ==
  ASSUME ~MayOverlap, RInv, [Next]_vars
  PROVE  RInv'
<1>1. IInv'
  BY StepInv DEF RInv
<1>2. TimerRuns' /\ StopsHold'
  BY RunStepHolds, InspectHolds, TakeDownHolds, SettledHolds, RestHolds
     DEF Next, RunStep, CallCancel, CallShutdown
<1> QED BY <1>1, <1>2 DEF RInv

\* What the refinement needs of every reachable state.
THEOREM RuntimeInvariant == ASSUME ~MayOverlap PROVE Spec => []RInv
<1>1. Init => RInv
  BY InitInv, CallFacts DEF Init, RInv, TimerRuns, StopsHold
<1> QED BY <1>1, RuntimeInvStep, PTL DEF Spec

LEMMA StepFacts ==
  ASSUME IInv
  PROVE  /\ \A c \in Calls : AllSteps[c] = Step(c)
         /\ Calls = Runs \cup (Cancels \cup {None})
         /\ \A r \in Runs :
              /\ Step(r) = "open" <=> pc[r] = "spawned"
              /\ Step(r) = "closed" <=> pc[r] \in {"checking", "clearing", "rechecking"}
              /\ pc[r] \in {"idle", "setup", "over"} => Step(r) = pc[r]
              /\ child[r] = "closed" => Step(r) \in {"closed", "over"}
<1>1. \A r \in Runs : pc[r] \in {"idle", "over"} \cup Working
  BY DEF IInv, ChildFollowsRun
<1>2. \A r \in Runs :
        child[r] = "closed" => pc[r] \in {"checking", "clearing", "rechecking", "over"}
  BY <1>1 DEF IInv, ChildFollowsRun, Live, Working
<1> QED BY <1>1, <1>2 DEF AllSteps, Step, Calls, Working

\* One call goes on and the others stay where they are.
LEMMA StepMoves ==
  ASSUME IInv, NEW c \in Calls, NEW to, pc' = [pc EXCEPT ![c] = to]
  PROVE  AllSteps' = [AllSteps EXCEPT ![c] = Step(c)']
<1>1. pc \in [Calls -> Steps]
  BY DEF IInv, TypeOK, Steps
<1>2. \A d \in Calls : d # c => pc'[d] = pc[d]
  BY <1>1
<1>3. \A d \in Calls : d # c => Step(d)' = Step(d)
  BY <1>2 DEF Step
<1> QED BY <1>3 DEF AllSteps

LEMMA CallRunCalls ==
  ASSUME ~MayOverlap, IInv, NEW r \in Runs, CallRun(r)
  PROVE  Runtime!Call(r)
<1> USE CallFacts DEF removeVars, callVars, engineVars
<1>1. /\ pc[r] = "idle" /\ pc \in [Calls -> Steps] /\ result \in [Calls -> Results]
      /\ \A q \in Runs : pc[q] \in {"idle", "over"}
      /\ UNCHANGED <<active, found, box, child, stopping>>
  BY DEF CallRun, IInv, TypeOK, Steps, Results, ChildFollowsRun, InProgress
<1>2. \A q \in Runs : AllSteps[q] \in {"idle", "over"} /\ AllSteps[r] = "idle"
  BY <1>1, StepFacts
<1>3. LiveRuns' = LiveRuns
  BY <1>1 DEF LiveRuns
<1>4. CASE stopping \/ active # None
  <2>1. Go(r, "over") /\ result' = [result EXCEPT ![r] = "failed"]
    BY <1>4 DEF CallRun, End
  <2>2. AllSteps' = [AllSteps EXCEPT ![r] = "over"]
    BY <1>1, <2>1, StepMoves DEF Go, Step
  <2> QED BY <1>1, <1>2, <1>3, <1>4, <2>1, <2>2
          DEF Runtime!Call, Runtime!Ends, Runtime!Goes, AllSteps, LiveRuns
<1>5. CASE ~(stopping \/ active # None)
  <2>1. Go(r, "setup") /\ UNCHANGED result
    BY <1>5 DEF CallRun
  <2>2. AllSteps' = [AllSteps EXCEPT ![r] = "setup"]
    BY <1>1, <2>1, StepMoves DEF Go, Step
  <2> QED BY <1>1, <1>2, <1>3, <1>5, <2>1, <2>2
          DEF Runtime!Call, Runtime!Ends, Runtime!Goes, AllSteps, LiveRuns
<1> QED BY <1>4, <1>5

LEMMA SetupEndsGivesUp ==
  ASSUME IInv, NEW r \in Runs, SetupEnds(r)
  PROVE  Runtime!GiveUp(r)
<1> USE CallFacts DEF removeVars, callVars, engineVars
<1>1. /\ pc[r] = "setup" /\ AllSteps[r] = "setup"
      /\ UNCHANGED <<active, found, box, child, stopping>>
  BY StepFacts DEF SetupEnds
<1>2. PICK how \in {"failed", "cancelled"} : End(r, how)
  BY DEF SetupEnds
<1>3. AllSteps' = [AllSteps EXCEPT ![r] = "over"]
  BY <1>2, StepMoves DEF End, Go, Step, IInv, TypeOK
<1>4. LiveRuns' = LiveRuns
  BY <1>1 DEF LiveRuns
<1> QED BY <1>1, <1>2, <1>3, <1>4
        DEF Runtime!GiveUp, Runtime!Ends, Runtime!Goes, AllSteps, LiveRuns, End

LEMMA SpawnOpens ==
  ASSUME IInv, NEW r \in Runs, Spawn(r)
  PROVE  Runtime!Open(r)
<1> USE CallFacts DEF removeVars, callVars, engineVars
<1>1. /\ pc[r] = "setup" /\ AllSteps[r] = "setup" /\ ~stopping /\ active = None
      /\ UNCHANGED <<found, box, result, stopping>> /\ active' = r
  BY StepFacts DEF Spawn, MaySpawn, IInv, EntryIsOfRun
<1>2. \A q \in Runs : box # q /\ child[q] \notin {"starting", "attached"}
  BY <1>1 DEF IInv, ContainersAreTracked
<1>3. child' = [child EXCEPT ![r] = "starting"] /\ r \in DOMAIN child
  BY DEF Spawn, IInv, TypeOK
<1>4. LiveRuns = {} /\ LiveRuns' = {r}
  BY <1>1, <1>2, <1>3 DEF LiveRuns
<1>5. AllSteps' = [AllSteps EXCEPT ![r] = "open"]
  BY StepMoves DEF Spawn, Go, Step, IInv, TypeOK
<1> QED BY <1>1, <1>4, <1>5 DEF Runtime!Open, Runtime!Goes, AllSteps, LiveRuns

LEMMA OverrunFails ==
  ASSUME RInv, NEW r \in Runs, Timeout(r) \/ OutputExceeds(r)
  PROVE  Runtime!Fail(r)
<1> USE CallFacts DEF removeVars, callVars, engineVars
<1>1. /\ UNCHANGED <<active, stopping, found, pc, child, box>>
      /\ result' = [result EXCEPT ![r] = IF @ = "cancelled" THEN @ ELSE "failed"]
  BY DEF Timeout, OutputExceeds, Overrun
<1>2. pc[r] = "spawned"
  BY DEF Timeout, OutputExceeds, RInv, TimerRuns, IInv, ChildFollowsRun, Live
<1>3. AllSteps[r] = "open" /\ AllSteps' = AllSteps /\ LiveRuns' = LiveRuns
  BY <1>1, <1>2, StepFacts DEF RInv, AllSteps, LiveRuns, Step
<1>4. result' = [result EXCEPT ![r] = IF AllSteps[r] = "open" /\ @ # "cancelled"
                                       THEN "failed" ELSE @]
  BY <1>1, <1>3 DEF RInv, IInv, TypeOK
<1> QED BY <1>1, <1>3, <1>4 DEF Runtime!Fail, Runtime!Doomed, AllSteps, LiveRuns

LEMMA ClosesCloses ==
  ASSUME IInv, NEW r \in Runs, NEW exit \in {"ok", "failed"}, Closes(r, exit), Live(r),
         \/ box' = box
         \/ box = r /\ box' = None
  PROVE  Runtime!Close(r)
<1> USE CallFacts DEF removeVars, callVars, engineVars
<1>1. /\ pc[r] = "spawned" /\ AllSteps[r] = "open"
      /\ UNCHANGED <<active, stopping, found>>
  BY StepFacts DEF IInv, ChildFollowsRun, Closes
<1>2. AllSteps' = [AllSteps EXCEPT ![r] = "closed"]
  BY StepMoves DEF Closes, Go, Step, IInv, TypeOK
<1>3. /\ child' = [child EXCEPT ![r] = "closed"]
      /\ child \in [Runs -> {"none", "starting", "attached", "closed"}]
  BY DEF Closes, IInv, TypeOK
<1>4. \A q \in Runs : q # r => (q \in LiveRuns' <=> q \in LiveRuns)
  BY <1>3 DEF LiveRuns
<1>5. r \in LiveRuns
  BY DEF LiveRuns, Live
<1>6. LiveRuns' = LiveRuns \/ LiveRuns' = LiveRuns \ {r}
  BY <1>4, <1>5 DEF LiveRuns
<1>7. result' = [result EXCEPT ![r] = IF @ = "none" THEN exit ELSE @]
  BY DEF Closes
<1> QED BY <1>1, <1>2, <1>6, <1>7 DEF Runtime!Close, Runtime!Goes, AllSteps, LiveRuns

\* Whoever could not verify that a container is gone fails, and nothing else changes.
LEMMA FailingIsUnverified ==
  ASSUME IInv, NEW failing,
         failing \in SUBSET {c \in Calls : Step(c) \in {"closed", "waiting", "verifying"}},
         pc' = [c \in Calls |-> IF c \in failing THEN "over" ELSE pc[c]],
         result' = [c \in Calls |-> IF c \in failing THEN "failed" ELSE result[c]],
         found' = [c \in Cancels \cup {None} |-> IF c \in failing THEN None ELSE found[c]],
         UNCHANGED <<active, stopping>>, LiveRuns' = LiveRuns
  PROVE  Runtime!Unverified
<1>1. AllSteps' = [c \in Calls |-> IF c \in failing THEN "over" ELSE AllSteps[c]]
  BY DEF AllSteps, Step
<1>2. failing \in SUBSET {c \in Calls : AllSteps[c] \in {"closed", "waiting", "verifying"}}
  BY StepFacts
<1>3. Runtime!Stops = Cancels \cup {None} /\ Runs \cup Runtime!Stops = Calls
  BY DEF Runtime!Stops, Calls
<1> QED BY <1>1, <1>2, <1>3 DEF Runtime!Unverified, AllSteps, LiveRuns

\* In particular a call that fails alone and awaits no removal.
LEMMA FailureIsUnverified ==
  ASSUME IInv, NEW c \in Calls, Step(c) \in {"closed", "verifying"}, End(c, "failed"),
         c \notin Runs => found[c] = None,
         UNCHANGED <<active, stopping, found, box, child>>
  PROVE  Runtime!Unverified
<1> USE CallFacts
<1>1. pc \in [Calls -> Steps] /\ result \in [Calls -> Results]
      /\ found \in [Cancels \cup {None} -> Runs \cup {None}]
  BY DEF IInv, TypeOK, Steps, Results
<1>2. /\ pc' = [d \in Calls |-> IF d \in {c} THEN "over" ELSE pc[d]]
      /\ result' = [d \in Calls |-> IF d \in {c} THEN "failed" ELSE result[d]]
  BY <1>1 DEF End, Go
<1>3. found' = [d \in Cancels \cup {None} |-> IF d \in {c} THEN None ELSE found[d]]
  <2>1. \A d \in Cancels \cup {None} : d = c => found[d] = None
    OBVIOUS
  <2> QED BY <1>1, <2>1
<1>4. LiveRuns' = LiveRuns
  BY DEF LiveRuns
<1> QED BY <1>2, <1>3, <1>4, FailingIsUnverified

\* A step that AgentRuntime does not see.
Unseen == UNCHANGED Runtime!runtimeVars

LEMMA UnseenIs ==
  ASSUME AllSteps' = AllSteps, LiveRuns' = LiveRuns, UNCHANGED <<active, found, result, stopping>>
  PROVE  Unseen
BY DEF Unseen, Runtime!runtimeVars, AllSteps, LiveRuns

LEMMA CheckMaps ==
  ASSUME RInv, NEW r \in Runs, Check(r)
  PROVE  Unseen \/ Runtime!Unverified
<1> USE CallFacts DEF removeVars, callVars, engineVars
<1>1. /\ IInv /\ pc[r] = "checking" /\ Step(r) = "closed" /\ AllSteps[r] = "closed"
      /\ pc \in [Calls -> Steps]
      /\ UNCHANGED <<active, stopping, found, box, child>>
  BY StepFacts DEF Check, RInv, IInv, TypeOK, Steps
<1>2. LiveRuns' = LiveRuns
  BY <1>1 DEF LiveRuns
<1>3. CASE End(r, "failed")
  BY <1>1, <1>3, FailureIsUnverified
<1>4. CASE (Go(r, "clearing") \/ Go(r, "rechecking")) /\ UNCHANGED result
  <2>1. Step(r)' = "closed"
    BY <1>1, <1>4 DEF Go, Step
  <2>2. AllSteps' = [AllSteps EXCEPT ![r] = "closed"]
    BY <1>1, <1>4, <2>1, StepMoves DEF Go
  <2>3. AllSteps' = AllSteps
    BY <1>1, <2>2 DEF AllSteps
  <2> QED BY <1>1, <1>2, <1>4, <2>3, UnseenIs
<1> QED BY <1>3, <1>4 DEF Check

LEMMA RecheckMaps ==
  ASSUME RInv, NEW r \in Runs, Recheck(r)
  PROVE  Runtime!EndClean(r) \/ Runtime!Unverified
<1> USE CallFacts DEF removeVars, callVars, engineVars
<1>1. /\ IInv /\ pc[r] = "rechecking" /\ Step(r) = "closed" /\ AllSteps[r] = "closed"
      /\ pc \in [Calls -> Steps]
      /\ UNCHANGED <<stopping, found, box, child>>
      /\ \A q \in Runs : ~Live(q)
  BY StepFacts DEF Recheck, RInv, IInv, TypeOK, Steps, ChildFollowsRun, Serial, InProgress, Working
<1>2. LiveRuns' = LiveRuns
  BY <1>1 DEF LiveRuns
<1>3. CASE End(r, "failed") /\ UNCHANGED active
  BY <1>1, <1>3, FailureIsUnverified
<1>4. CASE active' = None /\ box = None /\ Go(r, "over") /\ UNCHANGED result
  <2>1. AllSteps' = [AllSteps EXCEPT ![r] = "over"]
    BY <1>1, <1>4, StepMoves DEF Go, Step
  <2>2. LiveRuns = {}
    BY <1>1, <1>4 DEF LiveRuns, Live
  <2> QED BY <1>1, <1>2, <1>4, <2>1, <2>2 DEF Runtime!EndClean, Runtime!Goes, AllSteps, LiveRuns
<1> QED BY <1>3, <1>4, GoneIsFree DEF Recheck

\* A container goes: AgentRuntime sees it when its Run is closed.
LEMMA RemovalMaps ==
  ASSUME RInv, box' \in {None, box},
         UNCHANGED <<active, stopping, found, pc, result, child>>
  PROVE  Unseen \/ \E q \in Runs : Runtime!Vanish(q)
<1> USE CallFacts
<1>1. IInv /\ AllSteps' = AllSteps
  BY DEF RInv, AllSteps, Step
<1>2. CASE box \in Runs /\ box' = None /\ ~Live(box)
  <2>1. child[box] = "closed"
    BY <1>2 DEF RInv, IInv, TypeOK, Live, ContainersAreTracked, EntryIsOfRun
  <2>2. AllSteps[box] \in {"closed", "over"}
    BY <1>1, <1>2, <2>1, StepFacts
  <2>3. box \in LiveRuns /\ LiveRuns' = LiveRuns \ {box}
    BY <1>2 DEF LiveRuns, Live
  <2> QED BY <1>1, <1>2, <2>2, <2>3 DEF Runtime!Vanish, AllSteps, LiveRuns
<1>3. CASE ~(box \in Runs /\ box' = None /\ ~Live(box))
  <2>1. LiveRuns' = LiveRuns
    BY <1>3 DEF LiveRuns, Live
  <2> QED BY <1>1, <2>1, UnseenIs
<1> QED BY <1>2, <1>3

LEMMA InspectMaps ==
  ASSUME RInv, NEW r \in Runs, Inspect(r)
  PROVE  Unseen \/ Runtime!Unverified
<1> USE CallFacts
<1>1. /\ IInv /\ UNCHANGED <<active, stopping, child, box>> /\ LiveRuns' = LiveRuns
  BY InspectEffect DEF RInv, LiveRuns
<1>2. CASE UNCHANGED <<pc, result, found>>
  <2>1. AllSteps' = AllSteps
    BY <1>2 DEF AllSteps, Step
  <2> QED BY <1>1, <1>2, <2>1, UnseenIs
<1>3. ASSUME NEW waiting \in SUBSET {c \in Calls : pc[c] \in {"removing", "clearing"}},
             pc' = [c \in Calls |-> IF c \notin waiting THEN pc[c]
                                    ELSE IF c = r THEN "rechecking" ELSE "settling"],
             r \in waiting => pc[r] = "clearing",
             \A c \in waiting : c # r => pc[c] = "removing",
             UNCHANGED <<result, found>>
      PROVE  Unseen
  <2>1. \A c \in Calls : Step(c)' = Step(c)
    BY <1>3 DEF Step
  <2>2. AllSteps' = AllSteps
    BY <2>1 DEF AllSteps
  <2> QED BY <1>1, <1>3, <2>2, UnseenIs
<1>4. ASSUME NEW waiting \in SUBSET {c \in Calls : pc[c] \in {"removing", "clearing"}},
             pc' = [c \in Calls |-> IF c \in waiting THEN "over" ELSE pc[c]],
             result' = [c \in Calls |-> IF c \in waiting THEN "failed" ELSE result[c]],
             found' = [c \in Cancels \cup {None} |-> IF c \in waiting THEN None ELSE found[c]]
      PROVE  Runtime!Unverified
  <2>1. waiting \in SUBSET {c \in Calls : Step(c) \in {"closed", "waiting", "verifying"}}
    BY DEF Step
  <2> QED BY <1>1, <1>4, <2>1, FailingIsUnverified
<1> QED BY <1>1, <1>2, <1>3, <1>4, InspectEffect

LEMMA TakeDownStops ==
  ASSUME RInv, NEW c \in Cancels \cup {None}, pc[c] = "idle", TakeDown(c),
         stopping' = (stopping \/ c = None)
  PROVE  Runtime!Stop(c)
<1> USE CallFacts DEF removeVars, callVars, engineVars
<1>1. /\ IInv /\ c \in Calls /\ c \in Runtime!Stops /\ Step(c) = "idle" /\ AllSteps[c] = "idle"
      /\ UNCHANGED <<active, box, child>> /\ LiveRuns' = LiveRuns
      /\ found' = [found EXCEPT ![c] = active]
  BY StepFacts DEF RInv, TakeDown, Step, LiveRuns, Runtime!Stops
<1>2. CASE active = None
  <2>1. AllSteps' = [AllSteps EXCEPT ![c] = "over"]
    BY <1>1, <1>2, StepMoves DEF TakeDown, End, Go, Step, IInv, TypeOK
  <2>2. result' = [result EXCEPT ![c] = "ok"]
    BY <1>2 DEF TakeDown, End
  <2> QED BY <1>1, <1>2, <2>1, <2>2
          DEF Runtime!Stop, Runtime!Ends, Runtime!Goes, AllSteps, LiveRuns
<1>3. CASE active # None
  <2>1. /\ active \in Runs
        /\ result' = [result EXCEPT ![active] = IF child[active] = "closed" THEN @ ELSE "cancelled"]
    BY <1>1, <1>3 DEF TakeDown, IInv, TypeOK
  <2>2. child[active] # "closed" <=> AllSteps[active] = "open"
    <3>1. child[active] \in {"starting", "attached", "closed"}
      BY <1>1, <2>1 DEF IInv, TypeOK, EntryIsOfRun
    <3>2. Live(active) <=> pc[active] = "spawned"
      BY <1>1, <2>1 DEF IInv, ChildFollowsRun
    <3> QED BY <1>1, <2>1, <3>1, <3>2, StepFacts DEF Live
  <2>3. result' = [result EXCEPT ![active] =
                     IF AllSteps[active] = "open" /\ @ # "cancelled" THEN "cancelled" ELSE @]
    BY <1>1, <2>1, <2>2 DEF IInv, TypeOK
  <2>4. AllSteps' = [AllSteps EXCEPT ![c] = "waiting"]
    BY <1>1, <1>3, StepMoves DEF TakeDown, Go, Step, IInv, TypeOK
  <2> QED BY <1>1, <1>3, <2>3, <2>4
          DEF Runtime!Stop, Runtime!Doomed, Runtime!Goes, AllSteps, LiveRuns
<1> QED BY <1>2, <1>3

LEMMA SettledReturns ==
  ASSUME RInv, NEW c \in Cancels \cup {None}, Settled(c)
  PROVE  Runtime!StopReturns(c)
<1> USE CallFacts DEF removeVars, engineVars
<1>1. /\ IInv /\ c \in Calls /\ c \in Runtime!Stops /\ Step(c) = "waiting"
      /\ AllSteps[c] = "waiting"
      /\ UNCHANGED <<active, stopping, box, child>> /\ LiveRuns' = LiveRuns
      /\ found' = [found EXCEPT ![c] = None]
  BY StepFacts DEF RInv, Settled, Step, LiveRuns, Runtime!Stops
<1>2. found[c] \in Runs /\ AllSteps[found[c]] \in {"closed", "over"}
  BY <1>1, StepFacts DEF RInv, StopsHold, Settled
<1>3. CASE c = None
  <2>1. AllSteps' = [AllSteps EXCEPT ![c] = "verifying"]
    BY <1>1, <1>3, StepMoves DEF Settled, Go, Step, IInv, TypeOK
  <2> QED BY <1>1, <1>2, <1>3, <2>1
          DEF Settled, Runtime!StopReturns, Runtime!Goes, AllSteps, LiveRuns
<1>4. CASE c # None
  <2>1. AllSteps' = [AllSteps EXCEPT ![c] = "over"]
    BY <1>1, <1>4, StepMoves DEF Settled, End, Go, Step, IInv, TypeOK
  <2> QED BY <1>1, <1>2, <1>4, <2>1
          DEF Settled, End, Runtime!StopReturns, Runtime!Ends, Runtime!Goes, AllSteps, LiveRuns
<1> QED BY <1>3, <1>4

LEMMA ShutdownEndsMaps ==
  ASSUME RInv, ShutdownEnds
  PROVE  Runtime!ShutDown \/ Runtime!Unverified
<1> USE CallFacts DEF removeVars, callVars, engineVars
<1>1. /\ IInv /\ Step(None) = "verifying" /\ AllSteps[None] = "verifying" /\ found[None] = None
      /\ UNCHANGED <<stopping, found, box, child>> /\ LiveRuns' = LiveRuns
      /\ \A q \in Runs : ~Live(q)
  BY StepFacts DEF RInv, StopsHold, ShutdownEnds, Step, LiveRuns, IInv, ShutdownKnows
<1>2. CASE UNCHANGED active /\ End(None, "failed")
  BY <1>1, <1>2, FailureIsUnverified
<1>3. CASE active' = None /\ box = None /\ End(None, "ok")
  <2>1. AllSteps' = [AllSteps EXCEPT ![None] = "over"]
    <3>1. pc' = [pc EXCEPT ![None] = "over"] /\ None \in Calls
      BY <1>3 DEF End, Go
    <3>2. Step(None)' = "over"
      BY <1>1, <3>1 DEF Step, IInv, TypeOK
    <3> QED BY <1>1, <3>1, <3>2, StepMoves
  <2>2. LiveRuns = {}
    BY <1>1, <1>3 DEF LiveRuns, Live
  <2> QED BY <1>1, <1>3, <2>1, <2>2
          DEF End, Runtime!ShutDown, Runtime!Ends, Runtime!Goes, AllSteps, LiveRuns
<1> QED BY <1>2, <1>3, GoneIsFree DEF ShutdownEnds, VerifiedNow

LEMMA EngineMaps ==
  ASSUME RInv, NEW r \in Runs, EngineStep(r)
  PROVE  Unseen \/ Runtime!Close(r)
<1> USE CallFacts DEF removeVars, callVars, engineVars
<1>1. CASE Create(r)
  <2>1. /\ UNCHANGED <<active, stopping, found, pc, result>>
        /\ child[r] = "starting" /\ box = None /\ box' = r
        /\ child' = [child EXCEPT ![r] = "attached"]
    BY <1>1 DEF Create
  <2>2. LiveRuns' = LiveRuns /\ AllSteps' = AllSteps
    BY <2>1 DEF RInv, IInv, TypeOK, LiveRuns, AllSteps, Step
  <2> QED BY <2>1, <2>2, UnseenIs
<1>2. CASE Refuse(r)
  BY <1>2, ClosesCloses DEF RInv, Refuse, Live
<1>3. CASE Exit(r)
  <2>1. Live(r) /\ \/ box' = box
                   \/ box = r /\ box' = None
    BY <1>3 DEF Exit, Live
  <2>2. \E exit \in {"ok", "failed"} : Closes(r, exit)
    BY <1>3 DEF Exit
  <2> QED BY <2>1, <2>2, ClosesCloses DEF RInv
<1> QED BY <1>1, <1>2, <1>3 DEF EngineStep

-----------------------------------------------------------------------------
\* While AgentService keeps the Runs of an Agent apart, its container Runtime is the Runtime
\* that it is promised, whatever the engine does: no Run starts beside another container, one
\* that ends well leaves nothing, and cancel and shutdown say nothing that is not so.
THEOREM RunnerImplementsAgentRuntime == ASSUME ~MayOverlap PROVE Spec => ImplementsAgentRuntime
<1>1. Init => Runtime!RuntimeInit
  <2> SUFFICES ASSUME Init PROVE Runtime!RuntimeInit
    OBVIOUS
  <2>1. Runs \cup Runtime!Stops = Calls /\ Runtime!Stops = Cancels \cup {None}
    BY DEF Runtime!Stops, Calls
  <2>2. [c \in Calls |-> Step(c)] = [c \in Calls |-> "idle"]
    BY DEF Init, Step
  <2>3. {r \in Runs : box = r \/ child[r] \in {"starting", "attached"}} = {}
    BY CallFacts DEF Init
  <2> QED BY <2>1, <2>2, <2>3 DEF Init, Runtime!RuntimeInit
<1>2. RInv /\ [Next]_vars => [Runtime!RuntimeNext]_(Runtime!runtimeVars)
  <2> SUFFICES ASSUME RInv, [Next]_vars PROVE Runtime!RuntimeNext \/ Unseen
    BY DEF Unseen
  <2> USE DEF Runtime!RuntimeNext
  <2>1. ASSUME NEW r \in Runs, CallRun(r) \/ SetupEnds(r) \/ Spawn(r) PROVE Runtime!RuntimeNext
    BY <2>1, CallRunCalls, SetupEndsGivesUp, SpawnOpens DEF RInv
  <2>2. ASSUME NEW r \in Runs, Check(r) \/ Recheck(r) \/ Inspect(r)
        PROVE  Runtime!RuntimeNext \/ Unseen
    BY <2>2, CheckMaps, RecheckMaps, InspectMaps
  <2>3. ASSUME NEW r \in Runs, Remove(r) PROVE Runtime!RuntimeNext \/ Unseen
    BY <2>3, RemovalMaps DEF Remove, callVars
  <2>4. ASSUME NEW r \in Runs, Timeout(r) \/ OutputExceeds(r) PROVE Runtime!RuntimeNext
    BY <2>4, OverrunFails
  <2>5. ASSUME NEW r \in Runs, EngineStep(r) PROVE Runtime!RuntimeNext \/ Unseen
    BY <2>5, EngineMaps
  <2>6. ASSUME NEW c \in Cancels, CallCancel(c) PROVE Runtime!RuntimeNext
    <3>1. c \in Runtime!Stops /\ stopping' = (stopping \/ c = None)
      BY <2>6, CallFacts DEF CallCancel, Runtime!Stops, RInv, IInv, TypeOK
    <3>2. Runtime!Stop(c)
      BY <2>6, <3>1, TakeDownStops DEF CallCancel
    <3> QED BY <3>1, <3>2
  <2>7. ASSUME CallShutdown PROVE Runtime!RuntimeNext
    <3>1. None \in Runtime!Stops /\ stopping' = (stopping \/ None = None)
      BY <2>7 DEF CallShutdown, Runtime!Stops
    <3>2. Runtime!Stop(None)
      BY <2>7, <3>1, TakeDownStops DEF CallShutdown
    <3> QED BY <3>1, <3>2
  <2>8. ASSUME NEW c \in Cancels \cup {None}, Settled(c) PROVE Runtime!RuntimeNext
    BY <2>8, SettledReturns DEF Runtime!Stops
  <2>9. ASSUME ShutdownEnds PROVE Runtime!RuntimeNext
    BY <2>9, ShutdownEndsMaps
  <2>10. ASSUME LateRemoval PROVE Runtime!RuntimeNext \/ Unseen
    BY <2>10, RemovalMaps DEF LateRemoval, removeVars, callVars
  <2>11. ASSUME UNCHANGED vars PROVE Unseen
    <3>1. AllSteps' = AllSteps /\ LiveRuns' = LiveRuns
      BY <2>11 DEF vars, engineVars, AllSteps, LiveRuns, Step
    <3> QED BY <2>11, <3>1, UnseenIs DEF vars, callVars
  <2> QED BY <2>1, <2>2, <2>3, <2>4, <2>5, <2>6, <2>7, <2>8, <2>9, <2>10, <2>11
          DEF Next, RunStep
<1> QED BY <1>1, <1>2, RuntimeInvariant, PTL DEF Spec, ImplementsAgentRuntime, Runtime!RuntimeSpec

-----------------------------------------------------------------------------
(* What is awaited is under way *)

\* A Run in its clean-up awaits a removal that goes on; a container's command is ended by
\* the timer, by a signal it was sent, or by a handler that awaits a removal that goes on.
RunServed(r) == /\ pc[r] = "clearing" => removal[r] # "none"
                /\ pc[r] = "spawned" => \/ timer[r] = "armed" \/ signalled[r]
                                        \/ removal[r] # "none" /\ watched[r]
\* A cancel or the shutdown awaits a removal that goes on, or a command that has closed or
\* was sent a signal.
StopServed(c) == /\ pc[c] = "removing" => removal[found[c]] # "none"
                 /\ pc[c] = "settling" => child[found[c]] = "closed" \/ signalled[found[c]]
AwaitedIsUnderWay == /\ \A r \in Runs : RunServed(r)
                     /\ \A c \in Cancels \cup {None} : StopServed(c)

\* Who joins a removal finds it under way, and none that is under way is lost by it.
LEMMA JoinServes ==
  ASSUME RInv, NEW r \in Runs, JoinRemoval(r)
  PROVE  removal'[r] # "none" /\ \A q \in Runs : removal[q] # "none" => removal'[q] # "none"
BY DEF JoinRemoval, RInv, IInv, TypeOK

\* Whoever stays where it is goes on being served while removals, commands and signals do.
ServiceGoesOn ==
  /\ \A q \in Runs : removal[q] # "none" => removal'[q] # "none"
  /\ \A q \in Runs : watched[q] => watched'[q]
  /\ \A q \in Runs : /\ child[q] = "closed" => child'[q] = "closed"
                     /\ signalled[q] => signalled'[q] \/ child'[q] = "closed"

LEMMA RunKept ==
  ASSUME RInv, AwaitedIsUnderWay, ServiceGoesOn, NEW q \in Runs, pc'[q] = pc[q],
         timer'[q] = timer[q], signalled'[q] = signalled[q]
  PROVE  RunServed(q)'
BY DEF AwaitedIsUnderWay, ServiceGoesOn, RunServed

LEMMA StopKept ==
  ASSUME RInv, AwaitedIsUnderWay, ServiceGoesOn, NEW c \in Cancels \cup {None},
         pc'[c] = pc[c], found'[c] = found[c]
  PROVE  StopServed(c)'
<1>1. StopServed(c) /\ (pc[c] \in {"removing", "settling"} => found[c] \in Runs)
  BY DEF AwaitedIsUnderWay, RInv, StopsHold
<1> QED BY <1>1 DEF StopServed, ServiceGoesOn

\* The steps of a Run, but for the end of a removal.
LEMMA RunStepServes ==
  ASSUME RInv, AwaitedIsUnderWay, NEW r \in Runs,
         \/ CallRun(r) \/ SetupEnds(r) \/ Spawn(r) \/ Check(r) \/ Recheck(r) \/ Remove(r)
         \/ Timeout(r) \/ OutputExceeds(r) \/ EngineStep(r)
  PROVE  AwaitedIsUnderWay'
<1> USE CallFacts DEF removeVars, callVars, engineVars
<1>1. /\ pc \in [Calls -> Steps] /\ timer \in [Runs -> {"off", "armed"}]
      /\ removal \in [Runs -> {"none", "rm", "inspect"}] /\ watched \in [Runs -> BOOLEAN]
      /\ child \in [Runs -> {"none", "starting", "attached", "closed"}]
      /\ signalled \in [Runs -> BOOLEAN]
  BY DEF RInv, IInv, TypeOK, Steps
<1>2. ASSUME ServiceGoesOn, \A c \in Calls : c # r => pc'[c] = pc[c], UNCHANGED found,
             \A q \in Runs : q # r => timer'[q] = timer[q] /\ signalled'[q] = signalled[q],
             RunServed(r)'
      PROVE  AwaitedIsUnderWay'
  <2>1. ASSUME NEW q \in Runs PROVE RunServed(q)'
    BY <1>2, RunKept
  <2>2. ASSUME NEW c \in Cancels \cup {None} PROVE StopServed(c)'
    BY <1>2, StopKept DEF Calls
  <2> QED BY <2>1, <2>2 DEF AwaitedIsUnderWay
<1>3. CASE CallRun(r) \/ SetupEnds(r)
  <2>1. /\ UNCHANGED <<timer, removal, watched, found, child, signalled>>
        /\ \E step \in {"over", "setup"} : Go(r, step)
    BY <1>3 DEF CallRun, SetupEnds, End
  <2>2. pc'[r] \in {"over", "setup"} /\ \A c \in Calls : c # r => pc'[c] = pc[c]
    BY <1>1, <2>1 DEF Go
  <2>3. RunServed(r)'
    BY <2>2 DEF RunServed
  <2> QED BY <1>2, <2>1, <2>2, <2>3 DEF ServiceGoesOn
<1>4. CASE Spawn(r)
  <2>1. /\ pc[r] = "setup" /\ pc'[r] = "spawned" /\ \A c \in Calls : c # r => pc'[c] = pc[c]
        /\ UNCHANGED <<removal, watched, found, signalled>>
        /\ timer' = [timer EXCEPT ![r] = "armed"] /\ child' = [child EXCEPT ![r] = "starting"]
    BY <1>1, <1>4 DEF Spawn, Go
  <2>2. child[r] = "none"
    BY <2>1 DEF RInv, IInv, ChildFollowsRun
  <2>3. RunServed(r)'
    BY <1>1, <2>1 DEF RunServed
  <2> QED BY <1>1, <1>2, <2>1, <2>2, <2>3 DEF ServiceGoesOn
<1>5. CASE Check(r)
  <2>1. /\ UNCHANGED <<timer, watched, found, child, signalled>>
        /\ \/ JoinRemoval(r) /\ Go(r, "clearing")
           \/ removal' = removal /\ \E step \in {"rechecking", "over"} : Go(r, step)
    BY <1>5 DEF Check, End
  <2>2. /\ \A q \in Runs : removal[q] # "none" => removal'[q] # "none"
        /\ \/ pc'[r] = "clearing" /\ removal'[r] # "none"
           \/ pc'[r] \in {"rechecking", "over"}
        /\ \A c \in Calls : c # r => pc'[c] = pc[c]
    BY <1>1, <2>1, JoinServes DEF Go
  <2>3. RunServed(r)'
    BY <2>2 DEF RunServed
  <2> QED BY <1>2, <2>1, <2>2, <2>3 DEF ServiceGoesOn
<1>6. CASE Recheck(r)
  <2>1. UNCHANGED <<timer, removal, watched, found, child, signalled>> /\ Go(r, "over")
    BY <1>6 DEF Recheck, End
  <2>2. pc'[r] = "over" /\ \A c \in Calls : c # r => pc'[c] = pc[c]
    BY <1>1, <2>1 DEF Go
  <2>3. RunServed(r)'
    BY <2>2 DEF RunServed
  <2> QED BY <1>2, <2>1, <2>2, <2>3 DEF ServiceGoesOn
<1>7. CASE Remove(r)
  <2>1. /\ UNCHANGED <<timer, watched, found, pc, child, signalled>>
        /\ removal[r] = "rm" /\ removal' = [removal EXCEPT ![r] = "inspect"]
    BY <1>7 DEF Remove
  <2>2. \A q \in Runs : removal[q] # "none" => removal'[q] # "none"
    BY <1>1, <2>1
  <2>3. RunServed(r)'
    BY <2>1, <2>2 DEF RunServed, AwaitedIsUnderWay
  <2> QED BY <1>2, <2>1, <2>2, <2>3 DEF ServiceGoesOn
<1>8. CASE Timeout(r) \/ OutputExceeds(r)
  <2>1. /\ UNCHANGED <<found, pc, child, signalled>> /\ JoinRemoval(r)
        /\ watched' = [watched EXCEPT ![r] = TRUE]
        /\ timer' = timer \/ timer' = [timer EXCEPT ![r] = "off"]
    BY <1>8 DEF Timeout, OutputExceeds, Overrun
  <2>2. RunServed(r)'
    BY <1>1, <2>1, JoinServes DEF RunServed, AwaitedIsUnderWay
  <2> QED BY <1>1, <1>2, <2>1, <2>2, JoinServes DEF ServiceGoesOn
<1>9. CASE Create(r)
  <2>1. /\ UNCHANGED <<timer, removal, watched, found, pc, signalled>>
        /\ child[r] = "starting" /\ child' = [child EXCEPT ![r] = "attached"]
    BY <1>9 DEF Create
  <2>2. RunServed(r)'
    BY <2>1 DEF RunServed, AwaitedIsUnderWay
  <2> QED BY <1>1, <1>2, <2>1, <2>2 DEF ServiceGoesOn
<1>10. CASE Refuse(r) \/ Exit(r)
  <2>1. /\ UNCHANGED <<removal, watched, found>> /\ Go(r, "checking")
        /\ child' = [child EXCEPT ![r] = "closed"]
        /\ signalled' = [signalled EXCEPT ![r] = FALSE]
        /\ timer' = [timer EXCEPT ![r] = "off"]
    BY <1>10 DEF Refuse, Exit, Closes
  <2>2. pc'[r] = "checking" /\ \A c \in Calls : c # r => pc'[c] = pc[c]
    BY <1>1, <2>1 DEF Go
  <2>3. RunServed(r)'
    BY <2>2 DEF RunServed
  <2> QED BY <1>1, <1>2, <2>1, <2>2, <2>3 DEF ServiceGoesOn
<1> QED BY <1>3, <1>4, <1>5, <1>6, <1>7, <1>8, <1>9, <1>10 DEF EngineStep

\* A removal is tried again, or it ends: then nobody awaits it any more, and its Run's
\* command has closed or was sent a signal, unless nobody relied on that.
LEMMA InspectServes ==
  ASSUME RInv, AwaitedIsUnderWay, NEW r \in Runs, Inspect(r)
  PROVE  AwaitedIsUnderWay'
<1> USE CallFacts
<1>1. /\ pc \in [Calls -> Steps] /\ signalled \in [Runs -> BOOLEAN]
      /\ removal \in [Runs -> {"none", "rm", "inspect"}] /\ watched \in [Runs -> BOOLEAN]
      /\ child \in [Runs -> {"none", "starting", "attached", "closed"}]
      /\ found \in [Cancels \cup {None} -> Runs \cup {None}]
      /\ UNCHANGED <<timer, child>>
  BY DEF RInv, IInv, TypeOK, Steps, Inspect
<1>2. /\ \A q \in Runs : RunServed(q)
      /\ \A c \in Cancels \cup {None} : StopServed(c)
      /\ \A c \in Cancels \cup {None} : pc[c] \in {"removing", "settling"} => found[c] \in Runs
      /\ \A q \in Runs : pc[q] = "spawned" => child[q] # "closed"
  BY DEF AwaitedIsUnderWay, RInv, StopsHold, IInv, ChildFollowsRun, Live
<1>3. CASE removal' = [removal EXCEPT ![r] = "rm"] /\ UNCHANGED <<watched, pc, found, signalled>>
  <2>1. ServiceGoesOn
    BY <1>1, <1>3 DEF ServiceGoesOn
  <2>2. ASSUME NEW q \in Runs PROVE RunServed(q)'
    BY <1>1, <1>3, <2>1, RunKept
  <2>3. ASSUME NEW c \in Cancels \cup {None} PROVE StopServed(c)'
    BY <1>3, <2>1, StopKept
  <2> QED BY <2>2, <2>3 DEF AwaitedIsUnderWay
<1>4. ASSUME NEW answer \in Answers, Settle(r, answer \in Gone),
             signalled' = [signalled EXCEPT ![r] =
                             child[r] # "closed" /\ (@ \/ Signalled(r, answer))]
      PROVE  AwaitedIsUnderWay'
  <2>1. /\ removal' = [removal EXCEPT ![r] = "none"]
        /\ watched' = [watched EXCEPT ![r] = FALSE]
    BY <1>4 DEF Settle
  <2>2. /\ \A q \in Runs : q # r => removal'[q] = removal[q] /\ watched'[q] = watched[q]
        /\ \A q \in Runs : q # r => signalled'[q] = signalled[q]
        /\ child[r] = "closed" \/ (signalled[r] \/ watched[r] \/ answer # "unknown" => signalled'[r])
    BY <1>1, <1>4, <2>1 DEF Signalled
  <2> DEFINE waiting == {c \in Calls \ Runs : pc[c] = "removing" /\ found[c] = r}
                          \cup {t \in {r} : pc[t] = "clearing"}
  <2>3. \A c \in Calls : c \in waiting => pc'[c] \in {"rechecking", "settling", "over"}
    BY <1>4 DEF Settle
  <2>4. \A c \in Calls : c \notin waiting => pc'[c] = pc[c]
    BY <1>4 DEF Settle
  <2>5. \A c \in Cancels \cup {None} : pc'[c] = "settling" => found'[c] = found[c]
    BY <1>1, <1>4 DEF Settle
  <2>6. \A c \in Calls : c \in waiting /\ pc'[c] = "settling" => answer # "unknown"
    BY <1>4 DEF Settle, Gone
  <2>7. \A c \in Cancels \cup {None} : c \notin waiting => found'[c] = found[c]
    BY <1>1, <1>4 DEF Settle
  <2>8. /\ \A q \in Runs : q \in waiting <=> q = r /\ pc[r] = "clearing"
        /\ \A c \in Cancels \cup {None} : c \in waiting <=> pc[c] = "removing" /\ found[c] = r
    OBVIOUS
  <2>9. \A q \in Runs : q \in waiting => pc'[q] \in {"rechecking", "over"}
    BY <1>4, <2>8 DEF Settle
  <2> HIDE DEF waiting
  <2>10. ASSUME NEW q \in Runs PROVE RunServed(q)'
    <3>1. CASE q = r
      BY <1>1, <1>2, <2>2, <2>4, <2>8, <2>9, <3>1 DEF RunServed
    <3>2. CASE q # r
      BY <1>1, <1>2, <2>2, <2>4, <2>8, <3>2 DEF RunServed
    <3> QED BY <3>1, <3>2
  <2>11. ASSUME NEW c \in Cancels \cup {None} PROVE StopServed(c)'
    <3>1. CASE c \in waiting
      <4>1. found[c] = r /\ c \in Calls
        BY <2>8, <3>1 DEF Calls
      <4>2. pc'[c] # "removing"
        BY <2>3, <3>1, <4>1
      <4>3. pc'[c] = "settling" => child'[r] = "closed" \/ signalled'[r]
        BY <1>1, <2>2, <2>6, <3>1, <4>1
      <4> QED BY <2>5, <4>1, <4>2, <4>3 DEF StopServed
    <3>2. CASE c \notin waiting
      <4>1. pc'[c] = pc[c] /\ found'[c] = found[c] /\ StopServed(c)
        BY <1>2, <2>4, <2>7, <3>2 DEF Calls
      <4>2. pc[c] = "removing" => found[c] \in Runs \ {r}
        BY <1>2, <2>8, <3>2
      <4>3. pc[c] = "settling" => found[c] \in Runs
        BY <1>2
      <4> QED BY <1>1, <2>2, <4>1, <4>2, <4>3 DEF StopServed
    <3> QED BY <3>1, <3>2
  <2> QED BY <2>10, <2>11 DEF AwaitedIsUnderWay
<1> QED BY <1>3, <1>4 DEF Inspect

\* A cancel or the shutdown joins the removal of the entry it finds.
LEMMA TakeDownServes ==
  ASSUME RInv, AwaitedIsUnderWay, NEW c \in Cancels \cup {None}, TakeDown(c)
  PROVE  AwaitedIsUnderWay'
<1> USE CallFacts DEF engineVars
<1>1. /\ c \in Calls /\ c \notin Runs /\ pc \in [Calls -> Steps]
      /\ found \in [Cancels \cup {None} -> Runs \cup {None}] /\ active \in Runs \cup {None}
      /\ UNCHANGED <<timer, watched, child, signalled>> /\ found' = [found EXCEPT ![c] = active]
  BY DEF RInv, IInv, TypeOK, Steps, TakeDown
<1>2. /\ \A q \in Runs : removal[q] # "none" => removal'[q] # "none"
      /\ \/ Go(c, "over")
         \/ Go(c, "removing") /\ active \in Runs /\ removal'[active] # "none"
  BY <1>1, JoinServes DEF TakeDown, End
<1>3. /\ \A d \in Calls : d # c => pc'[d] = pc[d]
      /\ \A d \in Cancels \cup {None} : d # c => found'[d] = found[d]
      /\ pc'[c] = "over" \/ (pc'[c] = "removing" /\ removal'[active] # "none")
      /\ found'[c] = active
  BY <1>1, <1>2 DEF Go
<1>4. StopServed(c)'
  BY <1>3 DEF StopServed
<1>5. ServiceGoesOn
  BY <1>1, <1>2 DEF ServiceGoesOn
<1>6. ASSUME NEW q \in Runs PROVE RunServed(q)'
  BY <1>1, <1>3, <1>5, RunKept
<1>7. ASSUME NEW d \in Cancels \cup {None}, d # c PROVE StopServed(d)'
  BY <1>3, <1>5, <1>7, StopKept DEF Calls
<1> QED BY <1>4, <1>6, <1>7 DEF AwaitedIsUnderWay

\* A cancel returns, the shutdown looks again or ends, a container goes.
LEMMA RestServes ==
  ASSUME RInv, AwaitedIsUnderWay,
         \/ \E c \in Cancels \cup {None} : Settled(c)
         \/ ShutdownEnds \/ LateRemoval \/ UNCHANGED vars
  PROVE  AwaitedIsUnderWay'
<1> USE CallFacts DEF removeVars, callVars, engineVars
<1>1. pc \in [Calls -> Steps] /\ found \in [Cancels \cup {None} -> Runs \cup {None}]
  BY DEF RInv, IInv, TypeOK, Steps
<1>2. UNCHANGED <<timer, removal, watched, child, signalled>>
  BY DEF Settled, ShutdownEnds, LateRemoval, vars
<1>3. \/ UNCHANGED <<pc, found>>
      \/ \E c \in Cancels \cup {None} :
           /\ pc'[c] \in {"verifying", "over"}
           /\ \A d \in Calls : d # c => pc'[d] = pc[d]
           /\ \A d \in Cancels \cup {None} : d # c => found'[d] = found[d]
  <2>1. ASSUME NEW c \in Cancels \cup {None}, Settled(c)
        PROVE  /\ pc'[c] \in {"verifying", "over"}
               /\ \A d \in Calls : d # c => pc'[d] = pc[d]
               /\ \A d \in Cancels \cup {None} : d # c => found'[d] = found[d]
    BY <1>1, <2>1 DEF Settled, End, Go, Calls
  <2>2. CASE ShutdownEnds
    BY <1>1, <2>2 DEF ShutdownEnds, End, Go
  <2>3. CASE LateRemoval \/ UNCHANGED vars
    BY <2>3 DEF LateRemoval, vars
  <2> QED BY <2>1, <2>2, <2>3
<1>4. ServiceGoesOn
  BY <1>2 DEF ServiceGoesOn
<1>5. CASE UNCHANGED <<pc, found>>
  <2>1. ASSUME NEW q \in Runs PROVE RunServed(q)'
    BY <1>2, <1>5, <1>4, RunKept
  <2>2. ASSUME NEW c \in Cancels \cup {None} PROVE StopServed(c)'
    BY <1>5, <1>4, StopKept
  <2> QED BY <2>1, <2>2 DEF AwaitedIsUnderWay
<1>6. ASSUME NEW c \in Cancels \cup {None}, pc'[c] \in {"verifying", "over"},
             \A d \in Calls : d # c => pc'[d] = pc[d],
             \A d \in Cancels \cup {None} : d # c => found'[d] = found[d]
      PROVE  AwaitedIsUnderWay'
  <2>1. StopServed(c)'
    BY <1>6 DEF StopServed
  <2>2. ASSUME NEW q \in Runs PROVE RunServed(q)'
    BY <1>2, <1>6, <1>4, RunKept
  <2>3. ASSUME NEW d \in Cancels \cup {None}, d # c PROVE StopServed(d)'
    BY <1>6, <1>4, <2>3, StopKept DEF Calls
  <2> QED BY <2>1, <2>2, <2>3 DEF AwaitedIsUnderWay
<1> QED BY <1>3, <1>5, <1>6

\* No wake-up is lost, whatever the engine fails to do: whoever awaits a removal or the end
\* of a command awaits one that goes on or that was told to end, and an open Run has its
\* timer, a signal or a handler to end it.  This is why every call returns.
THEOREM AwaitedIsUnderWayHolds == ASSUME ~MayOverlap PROVE Spec => []AwaitedIsUnderWay
<1>1. Init => AwaitedIsUnderWay
  BY CallFacts DEF Init, AwaitedIsUnderWay, RunServed, StopServed
<1>2. RInv /\ AwaitedIsUnderWay /\ [Next]_vars => AwaitedIsUnderWay'
  BY RunStepServes, InspectServes, TakeDownServes, RestServes
     DEF Next, RunStep, CallCancel, CallShutdown
<1> QED BY <1>1, <1>2, RuntimeInvariant, PTL DEF Spec
=============================================================================
