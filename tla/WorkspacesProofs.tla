-------------------------- MODULE WorkspacesProofs --------------------------
(***************************************************************************)
(* What the order of the steps in createAgent, updateAgent, deleteAgent,   *)
(* the rehearsal and the start keeps true of every Agent, for any number   *)
(* of Agents and requests, and whatever fails or crashes in between.       *)
(***************************************************************************)
EXTENDS Workspaces, SequenceTheorems, TLAPS

-----------------------------------------------------------------------------
(* What a handler may still have to do *)

CreateRest == {<<"directory", "agentsMd", "client", "authority", "push">>,
               <<"agentsMd", "client", "authority", "push">>, <<"client", "authority", "push">>,
               <<"authority", "push">>, <<"push">>, <<>>}
UpdateRest == {<<"update", "directory", "agentsMd">>, <<"directory", "agentsMd">>,
               <<"agentsMd">>, <<>>}
RehearseRest == {<<"succeed", "directory", "agentsMd", "client">>,
                 <<"directory", "agentsMd", "client">>, <<"agentsMd", "client">>,
                 <<"client">>, <<>>}
DeleteRest == {<<"retire", "revoke", "archive", "remove">>, <<"revoke", "archive", "remove">>,
               <<"archive", "remove">>, <<"remove">>, <<>>}
EnsureRest == {<<"authority", "directory", "agentsMd", "client">>,
               <<"directory", "agentsMd", "client">>, <<"agentsMd", "client">>,
               <<"client">>, <<>>}
\* What is left once the Mandate is installed, and once it is revoked.
Installed == {<<"push">>, <<>>}
Retired == {<<"archive", "remove">>, <<"remove">>, <<>>}

LEMMA ThreeAndTwo ==
  ASSUME NEW a, NEW b, NEW c, NEW d, NEW e
  PROVE  <<a, b, c>> \o <<d, e>> = <<a, b, c, d, e>>
<1> DEFINE S == {a, b, c, d, e}
           s == <<a, b, c>>
           t == <<d, e>>
           st == s \o t
<1>1. s \in Seq(S) /\ t \in Seq(S)
  OBVIOUS
<1>2. /\ Len(s) = 3 /\ s[1] = a /\ s[2] = b /\ s[3] = c
      /\ Len(t) = 2 /\ t[1] = d /\ t[2] = e
  OBVIOUS
<1>3. /\ st \in Seq(S) /\ Len(st) = Len(s) + Len(t)
      /\ \A i \in 1 .. Len(s) + Len(t) : st[i] = IF i <= Len(s) THEN s[i] ELSE t[i - Len(s)]
  <2> HIDE DEF s, t, S
  <2> QED BY <1>1, ConcatProperties
<1>4. st[1] = a /\ st[2] = b /\ st[3] = c /\ st[4] = d /\ st[5] = e /\ Len(st) = 5
  <2> HIDE DEF s, t, st
  <2> QED BY <1>2, <1>3
<1>5. st = <<a, b, c, d, e>>
  <2> HIDE DEF st
  <2> QED BY <1>3, <1>4
<1> QED BY <1>5

LEMMA OneAndThree ==
  ASSUME NEW a, NEW b, NEW c, NEW d
  PROVE  <<a>> \o <<b, c, d>> = <<a, b, c, d>>
<1> DEFINE S == {a, b, c, d}
           s == <<a>>
           t == <<b, c, d>>
           st == s \o t
<1>1. s \in Seq(S) /\ t \in Seq(S)
  OBVIOUS
<1>2. Len(s) = 1 /\ s[1] = a /\ Len(t) = 3 /\ t[1] = b /\ t[2] = c /\ t[3] = d
  OBVIOUS
<1>3. /\ st \in Seq(S) /\ Len(st) = Len(s) + Len(t)
      /\ \A i \in 1 .. Len(s) + Len(t) : st[i] = IF i <= Len(s) THEN s[i] ELSE t[i - Len(s)]
  <2> HIDE DEF s, t, S
  <2> QED BY <1>1, ConcatProperties
<1>4. st[1] = a /\ st[2] = b /\ st[3] = c /\ st[4] = d /\ Len(st) = 4
  <2> HIDE DEF s, t, st
  <2> QED BY <1>2, <1>3
<1>5. st = <<a, b, c, d>>
  <2> HIDE DEF st
  <2> QED BY <1>3, <1>4
<1> QED BY <1>5

LEMMA PlanFacts ==
  /\ Plan["create"] = <<"directory", "agentsMd", "client", "authority", "push">>
  /\ Plan["update"] = <<"update", "directory", "agentsMd">>
  /\ Plan["rehearse"] = <<"succeed", "directory", "agentsMd", "client">>
  /\ Plan["delete"] = <<"retire", "revoke", "archive", "remove">>
  /\ Plan["ensure"] = <<"authority", "directory", "agentsMd", "client">>
<1>1. /\ Create = <<"directory", "agentsMd", "client", "authority", "push">>
      /\ Rehearse = <<"succeed", "directory", "agentsMd", "client">>
      /\ EnsureKnown = <<"authority", "directory", "agentsMd", "client">>
  BY ThreeAndTwo, OneAndThree DEF Create, Rehearse, EnsureKnown, Ensure
<1>2. /\ Plan["create"] = Create /\ Plan["update"] = Update /\ Plan["rehearse"] = Rehearse
      /\ Plan["delete"] = Delete /\ Plan["ensure"] = EnsureKnown
  BY DEF Plan
<1> QED BY <1>1, <1>2 DEF Update, Delete

-----------------------------------------------------------------------------
(* The inductive invariant *)

Works == {"create", "update", "rehearse", "delete", "ensure"}
Jobs == [kind : Works \cup {"idle"}, agent : Agents, version : 0 .. MaxVersion,
         todo : CreateRest \cup UpdateRest \cup RehearseRest \cup DeleteRest \cup EnsureRest]

\* Before the start looks at the Agents, and all the phases.
Early == {"down", "keys", "content", "recovery"}
Phases == Early \cup {"agents", "demo", "serving"}

DataOk ==
  /\ stored \in [Agents -> 0 .. MaxVersion]
  /\ authority \in [Agents -> {"none", "active", "revoked"}]
  /\ directory \in [Agents -> BOOLEAN] /\ client \in [Agents -> BOOLEAN]
  /\ agentsMd \in [Agents -> 0 .. MaxVersion]
  /\ archives \in [Agents -> Nat]
  /\ startFile \in [StartFiles -> {"absent", "opened", "short", "whole"}]
  /\ phase \in Phases
  /\ pending \subseteq Agents
  /\ accepted \in [Agents -> SUBSET (0 .. MaxVersion)]
  /\ removed \subseteq Agents
  /\ calls \in Nat /\ failures \in Nat /\ crashes \in Nat

TypeOK == DataOk /\ job \in [Procs -> Jobs]

\* The workspace is there, or a deletion has archived it.
Housed(a) == directory[a] \/ archives[a] > 0

\* What each handler has established by now, given what it has still to do.
JobOk(p) ==
  LET a == job[p].agent
      version == job[p].version
      todo == job[p].todo
  IN /\ job[p].kind = "idle" => todo = <<>>
     /\ job[p].kind = "create" =>
          /\ todo \in CreateRest /\ version = 1
          /\ todo = Plan["create"] \/ Housed(a)
          /\ todo \in Installed => authority[a] # "none"
     /\ job[p].kind = "update" =>
          /\ todo \in UpdateRest /\ version # Missing
          /\ todo = Plan["update"] \/ version \in accepted[a]
     /\ job[p].kind = "rehearse" =>
          /\ todo \in RehearseRest /\ version = 1
          /\ a = DemoAgent /\ stored[a] # Missing
     /\ job[p].kind = "delete" =>
          /\ todo \in DeleteRest /\ a # DemoAgent /\ authority[a] # "none"
          /\ todo \in Retired => authority[a] = "revoked"
     /\ job[p].kind = "ensure" =>
          /\ todo \in EnsureRest
          /\ version \in accepted[a]

\* An Agent in the store has what createAgent made before it stored it.
AgentsOk ==
  \A a \in Agents :
    /\ agentsMd[a] \in {Missing, 1} \cup accepted[a]
    /\ stored[a] # Missing => /\ authority[a] # "none" /\ Housed(a)
                              /\ stored[a] \in accepted[a] /\ 1 \in accepted[a]

RemovedOk == \A a \in removed : a # DemoAgent /\ authority[a] = "revoked"

\* No request is under way before the server listens, and the start removes no Agent.
StartOk ==
  /\ phase # "serving" => \A p \in Requests : job[p].kind = "idle"
  /\ job[Server].kind \in {"idle", "create", "ensure"}
  /\ phase = "agents" => \A a \in pending : stored[a] # Missing

IInv == /\ TypeOK /\ AgentsOk /\ RemovedOk /\ StartOk
        /\ \A p \in Procs : JobOk(p)

\* What no step takes back.
Monotone ==
  /\ \A a \in Agents :
       /\ authority[a] # "none" => authority'[a] # "none"
       /\ a # DemoAgent /\ authority[a] = "revoked" => authority'[a] = "revoked"
       /\ Housed(a) => Housed(a)'
       /\ accepted[a] \subseteq accepted'[a]
  /\ stored[DemoAgent] # Missing => stored'[DemoAgent] # Missing

-----------------------------------------------------------------------------
(* The steps of the handlers *)

\* What a handler has established stays while others go on.
LEMMA OthersKeep ==
  ASSUME NEW p \in Procs, JobOk(p), job[p] \in Jobs, job'[p] = job[p], Monotone
  PROVE  JobOk(p)'
<1>1. job[p].agent \in Agents
  BY DEF Jobs
<1> QED BY <1>1, WorkspacesAssumption DEF JobOk, Monotone

\* A handler that leaves a step behind has established what comes with it.
LEMMA Advance ==
  ASSUME NEW p \in Procs, TypeOK, JobOk(p), NEW step, On(p, step), job' = Left(p), Monotone,
         NEW a \in Agents, a = job[p].agent,
         step = "directory" => Housed(a)',
         step = "authority" => authority'[a] # "none",
         step = "update" => job[p].version \in accepted'[a],
         step = "revoke" => authority'[a] = "revoked"
  PROVE  /\ JobOk(p)' /\ job' \in [Procs -> Jobs]
         /\ \A q \in Procs : job'[q].kind = job[q].kind /\ (q # p => job'[q] = job[q])
<1> DEFINE todo == job[p].todo
<1>1. /\ job[p] \in Jobs /\ a = job[p].agent /\ todo # <<>> /\ Head(todo) = step
      /\ job' = [job EXCEPT ![p].todo = Tail(todo)]
  BY DEF TypeOK, On, Left
<1>2. /\ job'[p] = [job[p] EXCEPT !.todo = Tail(todo)]
      /\ \A q \in Procs : q # p => job'[q] = job[q]
  BY <1>1 DEF TypeOK
<1>a. PICK rest : rest = Tail(todo)
  OBVIOUS
<1>3. /\ job'[p].kind = job[p].kind /\ job'[p].agent = a
      /\ job'[p].version = job[p].version /\ job'[p].todo = rest
  BY <1>1, <1>2, <1>a DEF Jobs
<1>4. ASSUME job[p].kind = "idle" PROVE JobOk(p)'
  BY <1>1, <1>4 DEF JobOk
<1>5. ASSUME job[p].kind = "create" PROVE JobOk(p)'
  <2>1. /\ todo \in CreateRest
        /\ job[p].version = 1
        /\ todo = Plan["create"] \/ Housed(a)
        /\ todo \in Installed => authority[a] # "none"
    BY <1>1, <1>5 DEF JobOk
  <2>2. /\ rest \in CreateRest
        /\ step = "directory" \/ Housed(a)
        /\ rest \in Installed => step = "authority" \/ authority[a] # "none"
    <3>1. CASE todo = <<"directory", "agentsMd", "client", "authority", "push">>
      BY <1>1, <1>a, <2>1, <3>1, PlanFacts DEF CreateRest, Installed
    <3>2. CASE todo = <<"agentsMd", "client", "authority", "push">>
      BY <1>1, <1>a, <2>1, <3>2, PlanFacts DEF CreateRest, Installed
    <3>3. CASE todo = <<"client", "authority", "push">>
      BY <1>1, <1>a, <2>1, <3>3, PlanFacts DEF CreateRest, Installed
    <3>4. CASE todo = <<"authority", "push">>
      BY <1>1, <1>a, <2>1, <3>4, PlanFacts DEF CreateRest, Installed
    <3>5. CASE todo = <<"push">>
      BY <1>1, <1>a, <2>1, <3>5, PlanFacts DEF CreateRest, Installed
    <3> QED BY <1>1, <2>1, <3>1, <3>2, <3>3, <3>4, <3>5 DEF CreateRest, Installed
  <2>3. /\ Housed(a)'
        /\ rest \in Installed => authority'[a] # "none"
    <3> HIDE DEF todo
    <3> QED BY <1>1, <2>1, <2>2 DEF Monotone
  <2> HIDE DEF todo
  <2> QED BY <1>3, <1>5, <2>1, <2>2, <2>3 DEF JobOk, Housed
<1>6. ASSUME job[p].kind = "update" PROVE JobOk(p)'
  <2>1. /\ todo \in UpdateRest
        /\ job[p].version # Missing
        /\ todo = Plan["update"] \/ job[p].version \in accepted[a]
    BY <1>1, <1>6 DEF JobOk
  <2>2. /\ rest \in UpdateRest
        /\ step = "update" \/ job[p].version \in accepted[a]
    <3>1. CASE todo = <<"update", "directory", "agentsMd">>
      BY <1>1, <1>a, <2>1, <3>1, PlanFacts DEF UpdateRest
    <3>2. CASE todo = <<"directory", "agentsMd">>
      BY <1>1, <1>a, <2>1, <3>2, PlanFacts DEF UpdateRest
    <3>3. CASE todo = <<"agentsMd">>
      BY <1>1, <1>a, <2>1, <3>3, PlanFacts DEF UpdateRest
    <3> QED BY <1>1, <2>1, <3>1, <3>2, <3>3 DEF UpdateRest
  <2>3. job[p].version \in accepted'[a]
    <3> HIDE DEF todo
    <3> QED BY <1>1, <2>1, <2>2 DEF Monotone
  <2> HIDE DEF todo
  <2> QED BY <1>3, <1>6, <2>1, <2>2, <2>3 DEF JobOk, Housed
<1>7. ASSUME job[p].kind = "rehearse" PROVE JobOk(p)'
  <2>1. /\ todo \in RehearseRest
        /\ job[p].version = 1
        /\ a = DemoAgent /\ stored[a] # Missing
    BY <1>1, <1>7 DEF JobOk
  <2>2. /\ rest \in RehearseRest
    <3>1. CASE todo = <<"succeed", "directory", "agentsMd", "client">>
      BY <1>1, <1>a, <2>1, <3>1, PlanFacts DEF RehearseRest
    <3>2. CASE todo = <<"directory", "agentsMd", "client">>
      BY <1>1, <1>a, <2>1, <3>2, PlanFacts DEF RehearseRest
    <3>3. CASE todo = <<"agentsMd", "client">>
      BY <1>1, <1>a, <2>1, <3>3, PlanFacts DEF RehearseRest
    <3>4. CASE todo = <<"client">>
      BY <1>1, <1>a, <2>1, <3>4, PlanFacts DEF RehearseRest
    <3> QED BY <1>1, <2>1, <3>1, <3>2, <3>3, <3>4 DEF RehearseRest
  <2>3. stored'[a] # Missing
    <3> HIDE DEF todo
    <3> QED BY <1>1, <2>1, <2>2 DEF Monotone
  <2> HIDE DEF todo
  <2> QED BY <1>3, <1>7, <2>1, <2>2, <2>3 DEF JobOk, Housed
<1>8. ASSUME job[p].kind = "delete" PROVE JobOk(p)'
  <2>1. /\ todo \in DeleteRest
        /\ a # DemoAgent /\ authority[a] # "none"
        /\ todo \in Retired => authority[a] = "revoked"
    BY <1>1, <1>8 DEF JobOk
  <2>2. /\ rest \in DeleteRest
        /\ \/ rest \notin Retired
           \/ step = "revoke" \/ authority[a] = "revoked"
    <3>1. CASE todo = <<"retire", "revoke", "archive", "remove">>
      BY <1>1, <1>a, <2>1, <3>1, PlanFacts DEF DeleteRest, Retired
    <3>2. CASE todo = <<"revoke", "archive", "remove">>
      BY <1>1, <1>a, <2>1, <3>2, PlanFacts DEF DeleteRest, Retired
    <3>3. CASE todo = <<"archive", "remove">>
      BY <1>1, <1>a, <2>1, <3>3, PlanFacts DEF DeleteRest, Retired
    <3>4. CASE todo = <<"remove">>
      BY <1>1, <1>a, <2>1, <3>4, PlanFacts DEF DeleteRest, Retired
    <3> QED BY <1>1, <2>1, <3>1, <3>2, <3>3, <3>4 DEF DeleteRest, Retired
  <2>3. /\ authority'[a] # "none"
        /\ \/ rest \notin Retired
           \/ authority'[a] = "revoked"
    <3> HIDE DEF todo
    <3> QED BY <1>1, <2>1, <2>2 DEF Monotone
  <2> HIDE DEF todo
  <2> QED BY <1>3, <1>8, <2>1, <2>2, <2>3 DEF JobOk, Housed
<1>9. ASSUME job[p].kind = "ensure" PROVE JobOk(p)'
  <2>1. /\ todo \in EnsureRest
        /\ job[p].version \in accepted[a]
    BY <1>1, <1>9 DEF JobOk
  <2>2. /\ rest \in EnsureRest
    <3>1. CASE todo = <<"authority", "directory", "agentsMd", "client">>
      BY <1>1, <1>a, <2>1, <3>1, PlanFacts DEF EnsureRest
    <3>2. CASE todo = <<"directory", "agentsMd", "client">>
      BY <1>1, <1>a, <2>1, <3>2, PlanFacts DEF EnsureRest
    <3>3. CASE todo = <<"agentsMd", "client">>
      BY <1>1, <1>a, <2>1, <3>3, PlanFacts DEF EnsureRest
    <3>4. CASE todo = <<"client">>
      BY <1>1, <1>a, <2>1, <3>4, PlanFacts DEF EnsureRest
    <3> QED BY <1>1, <2>1, <3>1, <3>2, <3>3, <3>4 DEF EnsureRest
  <2>3. job[p].version \in accepted'[a]
    <3> HIDE DEF todo
    <3> QED BY <1>1, <2>1, <2>2 DEF Monotone
  <2> HIDE DEF todo
  <2> QED BY <1>3, <1>9, <2>1, <2>2, <2>3 DEF JobOk, Housed
<1>10. job[p].kind \in Works \cup {"idle"}
  BY <1>1 DEF Jobs
<1>11. JobOk(p)'
  BY <1>4, <1>5, <1>6, <1>7, <1>8, <1>9, <1>10 DEF Works
<1>12. rest \in CreateRest \cup UpdateRest \cup RehearseRest \cup DeleteRest \cup EnsureRest
  <2>1. job[p].kind # "idle"
    BY <1>1 DEF JobOk
  <2> HIDE DEF todo
  <2> QED BY <1>3, <1>10, <1>11, <2>1 DEF JobOk, Works
<1>13. job' \in [Procs -> Jobs]
  <2>1. [job[p] EXCEPT !.todo = rest] \in Jobs
    <3> HIDE DEF todo
    <3> QED BY <1>1, <1>12 DEF Jobs
  <2>2. job' = [job EXCEPT ![p] = [job[p] EXCEPT !.todo = rest]]
    BY <1>1, <1>a DEF TypeOK
  <2> HIDE DEF todo
  <2> QED BY <2>1, <2>2 DEF TypeOK
<1> QED BY <1>2, <1>3, <1>11, <1>13

\* What a handler knows when it is about to take a step.
LEMMA AtStep ==
  ASSUME NEW p \in Procs, TypeOK, JobOk(p), NEW step, On(p, step),
         NEW a \in Agents, a = job[p].agent
  PROVE  /\ step = "agentsMd" => job[p].version \in {1} \cup accepted[a]
         /\ step = "push" => job[p].version = 1 /\ authority[a] # "none" /\ Housed(a)
         /\ step = "update" => job[p].version # Missing
         /\ step = "succeed" => job[p].version = 1 /\ a = DemoAgent /\ stored[a] # Missing
         /\ step \in {"retire", "revoke", "archive", "remove"} =>
              job[p].kind = "delete" /\ a # DemoAgent /\ authority[a] # "none"
         /\ step = "remove" => authority[a] = "revoked"
         /\ step = "retire" => job[p].todo = Plan["delete"]
<1> DEFINE todo == job[p].todo
           version == job[p].version
<1>1. /\ job[p] \in Jobs /\ todo # <<>> /\ Head(todo) = step
  BY DEF TypeOK, On
<1>4. job[p].kind # "idle"
  BY <1>1 DEF JobOk
<1>5. CASE job[p].kind = "create"
  <2>1. /\ todo \in CreateRest
        /\ version = 1
        /\ todo = Plan["create"] \/ Housed(a)
        /\ todo \in Installed => authority[a] # "none"
    BY <1>5 DEF JobOk
  <2>2. /\ step = "push" => authority[a] # "none" /\ Housed(a)
        /\ step \in {"directory", "agentsMd", "client", "authority", "push"}
    <3>1. CASE todo = <<"directory", "agentsMd", "client", "authority", "push">>
      BY <1>1, <2>1, <3>1, PlanFacts DEF Installed
    <3>2. CASE todo = <<"agentsMd", "client", "authority", "push">>
      BY <1>1, <2>1, <3>2, PlanFacts DEF Installed
    <3>3. CASE todo = <<"client", "authority", "push">>
      BY <1>1, <2>1, <3>3, PlanFacts DEF Installed
    <3>4. CASE todo = <<"authority", "push">>
      BY <1>1, <2>1, <3>4, PlanFacts DEF Installed
    <3>5. CASE todo = <<"push">>
      BY <1>1, <2>1, <3>5, PlanFacts DEF Installed
    <3> QED BY <1>1, <2>1, <3>1, <3>2, <3>3, <3>4, <3>5 DEF CreateRest
  <2> HIDE DEF todo, version
  <2> QED BY <1>5, <2>1, <2>2 DEF todo, version
<1>6. CASE job[p].kind = "update"
  <2>1. /\ todo \in UpdateRest
        /\ version # Missing
        /\ todo = Plan["update"] \/ version \in accepted[a]
    BY <1>6 DEF JobOk
  <2>2. /\ step = "agentsMd" => version \in accepted[a]
        /\ step \in {"update", "directory", "agentsMd"}
    <3>1. CASE todo = <<"update", "directory", "agentsMd">>
      BY <1>1, <2>1, <3>1, PlanFacts
    <3>2. CASE todo = <<"directory", "agentsMd">>
      BY <1>1, <2>1, <3>2, PlanFacts
    <3>3. CASE todo = <<"agentsMd">>
      BY <1>1, <2>1, <3>3, PlanFacts
    <3> QED BY <1>1, <2>1, <3>1, <3>2, <3>3 DEF UpdateRest
  <2> HIDE DEF todo, version
  <2> QED BY <1>6, <2>1, <2>2 DEF todo, version
<1>7. CASE job[p].kind = "rehearse"
  <2>1. /\ todo \in RehearseRest
        /\ version = 1
        /\ a = DemoAgent /\ stored[a] # Missing
    BY <1>7 DEF JobOk
  <2>2. /\ step \in {"succeed", "directory", "agentsMd", "client"}
    <3>1. CASE todo = <<"succeed", "directory", "agentsMd", "client">>
      BY <1>1, <2>1, <3>1, PlanFacts
    <3>2. CASE todo = <<"directory", "agentsMd", "client">>
      BY <1>1, <2>1, <3>2, PlanFacts
    <3>3. CASE todo = <<"agentsMd", "client">>
      BY <1>1, <2>1, <3>3, PlanFacts
    <3>4. CASE todo = <<"client">>
      BY <1>1, <2>1, <3>4, PlanFacts
    <3> QED BY <1>1, <2>1, <3>1, <3>2, <3>3, <3>4 DEF RehearseRest
  <2> HIDE DEF todo, version
  <2> QED BY <1>7, <2>1, <2>2 DEF todo, version
<1>8. CASE job[p].kind = "delete"
  <2>1. /\ todo \in DeleteRest
        /\ a # DemoAgent /\ authority[a] # "none"
        /\ todo \in Retired => authority[a] = "revoked"
    BY <1>8 DEF JobOk
  <2>2. /\ step = "remove" => authority[a] = "revoked"
        /\ step = "retire" => todo = Plan["delete"]
        /\ step \in {"retire", "revoke", "archive", "remove"}
    <3>1. CASE todo = <<"retire", "revoke", "archive", "remove">>
      BY <1>1, <2>1, <3>1, PlanFacts DEF Retired
    <3>2. CASE todo = <<"revoke", "archive", "remove">>
      BY <1>1, <2>1, <3>2, PlanFacts DEF Retired
    <3>3. CASE todo = <<"archive", "remove">>
      BY <1>1, <2>1, <3>3, PlanFacts DEF Retired
    <3>4. CASE todo = <<"remove">>
      BY <1>1, <2>1, <3>4, PlanFacts DEF Retired
    <3> QED BY <1>1, <2>1, <3>1, <3>2, <3>3, <3>4 DEF DeleteRest
  <2> HIDE DEF todo, version
  <2> QED BY <1>8, <2>1, <2>2 DEF todo, version
<1>9. CASE job[p].kind = "ensure"
  <2>1. /\ todo \in EnsureRest
        /\ version \in accepted[a]
    BY <1>9 DEF JobOk
  <2>2. /\ step \in {"authority", "directory", "agentsMd", "client"}
    <3>1. CASE todo = <<"authority", "directory", "agentsMd", "client">>
      BY <1>1, <2>1, <3>1, PlanFacts
    <3>2. CASE todo = <<"directory", "agentsMd", "client">>
      BY <1>1, <2>1, <3>2, PlanFacts
    <3>3. CASE todo = <<"agentsMd", "client">>
      BY <1>1, <2>1, <3>3, PlanFacts
    <3>4. CASE todo = <<"client">>
      BY <1>1, <2>1, <3>4, PlanFacts
    <3> QED BY <1>1, <2>1, <3>1, <3>2, <3>3, <3>4 DEF EnsureRest
  <2> HIDE DEF todo, version
  <2> QED BY <1>9, <2>1, <2>2 DEF todo, version
<1> QED BY <1>1, <1>4, <1>5, <1>6, <1>7, <1>8, <1>9 DEF Jobs, Works

\* A step that a handler completes keeps the invariant if what it does to the data
\* does, and if it takes nothing back.
LEMMA HandlerMoves ==
  ASSUME NEW p \in Procs, IInv, NEW step, On(p, step), job' = Left(p),
         phase' = phase, pending' = pending, DataOk', AgentsOk', RemovedOk', Monotone,
         NEW a \in Agents, a = job[p].agent,
         step = "directory" => Housed(a)',
         step = "authority" => authority'[a] # "none",
         step = "update" => job[p].version \in accepted'[a],
         step = "revoke" => authority'[a] = "revoked",
         \A b \in Agents : stored[b] # Missing => stored'[b] # Missing \/ phase = "serving"
  PROVE  IInv'
<1>1. TypeOK /\ JobOk(p) /\ StartOk
  BY DEF IInv
<1>2. /\ JobOk(p)' /\ job' \in [Procs -> Jobs]
      /\ \A q \in Procs : job'[q].kind = job[q].kind /\ (q # p => job'[q] = job[q])
  BY <1>1, Advance
<1>3. \A q \in Procs : JobOk(q)'
  <2>1. SUFFICES ASSUME NEW q \in Procs, q # p PROVE JobOk(q)'
    BY <1>2
  <2>2. JobOk(q) /\ job[q] \in Jobs /\ job'[q] = job[q]
    BY <1>2, <2>1 DEF IInv, TypeOK
  <2> QED BY <2>2, OthersKeep
<1>4. StartOk'
  <2>1. pending \subseteq Agents
    BY <1>1 DEF TypeOK, DataOk
  <2>2. Server \in Procs /\ Requests \subseteq Procs
    BY DEF Procs
  <2> QED BY <1>1, <1>2, <2>1, <2>2 DEF StartOk
<1> QED BY <1>2, <1>3, <1>4 DEF IInv, TypeOK

\* A process that has nothing to do breaks nothing.
LEMMA IdleOk ==
  /\ Idle \in Jobs /\ Idle.kind = "idle"
  /\ \A q \in Procs : job'[q] = Idle => JobOk(q)'
<1>1. Idle \in Jobs
  BY WorkspacesAssumption DEF Idle, Jobs, CreateRest, Missing
<1>2. Idle.kind = "idle" /\ Idle.todo = <<>>
  BY DEF Idle
<1>3. ASSUME NEW q \in Procs, job'[q] = Idle PROVE JobOk(q)'
  <2>1. job'[q].kind = "idle" /\ job'[q].todo = <<>>
    BY <1>2, <1>3
  <2> QED BY <2>1 DEF JobOk
<1> QED BY <1>1, <1>2, <1>3

\* Neither does a handler that gives up, or the end of the process, if the data
\* stays what it was.
LEMMA DataStays ==
  ASSUME IInv, UNCHANGED <<stored, authority, directory, archives, agentsMd, accepted, removed>>
  PROVE  AgentsOk' /\ RemovedOk' /\ Monotone
<1>1. AgentsOk'
  BY DEF IInv, AgentsOk, Housed
<1>2. RemovedOk'
  BY DEF IInv, RemovedOk
<1>3. Monotone
  BY DEF Monotone, Housed
<1> QED BY <1>1, <1>2, <1>3

LEMMA HandlerThrows ==
  ASSUME NEW p \in Procs, IInv, Throw(p),
         UNCHANGED <<stored, authority, files, startFile, pending, accepted, removed>>,
         calls' \in Nat, failures' \in Nat, crashes' \in Nat
  PROVE  IInv'
<1>1. UNCHANGED <<stored, authority, directory, archives, agentsMd, client, startFile, pending,
                  accepted, removed>>
  BY DEF files
<1>2. TypeOK /\ StartOk /\ \A q \in Procs : JobOk(q)
  BY DEF IInv
<1>3. AgentsOk' /\ RemovedOk' /\ Monotone
  BY <1>1, DataStays
<1>4. /\ job' \in [Procs -> Jobs]
      /\ \A q \in Procs : job'[q] = job[q] \/ job'[q] = Idle
  <2>1. job \in [Procs -> Jobs] /\ Idle \in Jobs
    BY <1>2, IdleOk DEF TypeOK
  <2>2. job' = [q \in Procs |-> Idle] \/ job' = [job EXCEPT ![p] = Idle]
    BY DEF Throw
  <2> QED BY <2>1, <2>2
<1>5. \A q \in Procs : JobOk(q)'
  <2>1. SUFFICES ASSUME NEW q \in Procs PROVE JobOk(q)'
    OBVIOUS
  <2>2. CASE job'[q] = Idle
    BY <2>2, IdleOk
  <2>3. CASE job'[q] = job[q]
    <3>1. JobOk(q) /\ job[q] \in Jobs
      BY <1>2 DEF TypeOK
    <3> QED BY <1>3, <2>3, <3>1, OthersKeep
  <2> QED BY <1>4, <2>2, <2>3
<1>6. StartOk'
  <2>1. phase' = phase \/ (phase' = "down" /\ job' = [q \in Procs |-> Idle])
    <3>1. CASE p = Server
      BY <3>1 DEF Throw
    <3>2. CASE p # Server
      BY <3>2 DEF Throw
    <3> QED BY <3>1, <3>2
  <2>2. Server \in Procs /\ Requests \subseteq Procs
    BY DEF Procs
  <2>3. \A q \in Procs : job'[q].kind = job[q].kind \/ job'[q].kind = "idle"
    BY <1>4, IdleOk
  <2>4. CASE phase' = phase
    BY <1>1, <1>2, <2>2, <2>3, <2>4 DEF StartOk
  <2>5. CASE phase' = "down" /\ job' = [q \in Procs |-> Idle]
    BY <2>2, <2>5, IdleOk DEF StartOk
  <2> QED BY <2>1, <2>4, <2>5
<1>7. DataOk'
  <2>1. phase' \in Phases
    BY <1>2 DEF TypeOK, DataOk, Throw, Phases, Early
  <2> QED BY <1>1, <1>2, <2>1 DEF TypeOK, DataOk
<1> QED BY <1>3, <1>4, <1>5, <1>6, <1>7 DEF IInv, TypeOK

-----------------------------------------------------------------------------
(* One lemma per step: what it does to the data *)

LEMMA Parts ==
  ASSUME IInv, NEW p \in Procs
  PROVE  /\ TypeOK /\ DataOk /\ JobOk(p) /\ AgentsOk /\ RemovedOk /\ StartOk
         /\ job[p] \in Jobs
         /\ \E a \in Agents : a = job[p].agent
         /\ job[p].version \in 0 .. MaxVersion
<1>1. job[p] \in Jobs
  BY DEF IInv, TypeOK
<1>2. job[p].agent \in Agents /\ job[p].version \in 0 .. MaxVersion
  BY <1>1 DEF Jobs
<1> QED BY <1>1, <1>2 DEF IInv, TypeOK

LEMMA MakeDirectoryKeeps ==
  ASSUME IInv, NEW p \in Procs, MakeDirectory(p)
  PROVE  IInv'
<1>1. PICK a \in Agents : a = job[p].agent
  BY Parts
<1>2. /\ DataOk /\ AgentsOk /\ RemovedOk
      /\ On(p, "directory") /\ job' = Left(p)
      /\ UNCHANGED <<stored, authority, agentsMd, client, archives, startFile, phase, pending,
                     accepted, removed, calls, failures, crashes>>
  BY Parts DEF MakeDirectory, bounds
<1>3. directory' = [directory EXCEPT ![a] = TRUE]
  BY <1>1 DEF MakeDirectory
<1>4. directory' \in [Agents -> BOOLEAN]
  BY <1>2, <1>3 DEF DataOk
<1>5. directory'[a] /\ \A b \in Agents : directory[b] => directory'[b]
  BY <1>2, <1>3 DEF DataOk
<1>6. Housed(a)' /\ \A b \in Agents : Housed(b) => Housed(b)'
  BY <1>2, <1>5 DEF Housed
<1>7. DataOk'
  BY <1>2, <1>4 DEF DataOk
<1>8. Monotone
  BY <1>2, <1>6 DEF Monotone
<1>9. AgentsOk'
  BY <1>2, <1>6 DEF AgentsOk
<1>10. RemovedOk'
  BY <1>2 DEF RemovedOk
<1> QED BY <1>1, <1>2, <1>6, <1>7, <1>8, <1>9, <1>10, HandlerMoves

\* A file is written to the workspace that is there, or the handler gives up.
LEMMA WriteInstructionsKeeps ==
  ASSUME IInv, NEW p \in Procs, WriteInstructions(p)
  PROVE  IInv'
<1>1. PICK a \in Agents : a = job[p].agent
  BY Parts
<1>2. /\ TypeOK /\ DataOk /\ JobOk(p) /\ AgentsOk /\ RemovedOk
      /\ job[p].version \in 0 .. MaxVersion
      /\ On(p, "agentsMd")
      /\ UNCHANGED <<stored, authority, directory, client, archives, startFile, pending,
                     accepted, removed, calls, failures, crashes>>
  BY Parts DEF WriteInstructions, bounds
<1>3. CASE ~directory[a]
  <2>1. Throw(p) /\ UNCHANGED agentsMd
    BY <1>1, <1>3 DEF WriteInstructions
  <2>2. /\ UNCHANGED <<stored, authority, files, startFile, pending, accepted, removed>>
        /\ calls' \in Nat /\ failures' \in Nat /\ crashes' \in Nat
    BY <1>2, <2>1 DEF DataOk, files
  <2> QED BY <2>1, <2>2, HandlerThrows
<1>4. CASE directory[a]
  <2>1. /\ agentsMd' = [agentsMd EXCEPT ![a] = job[p].version]
        /\ job' = Left(p) /\ phase' = phase
    BY <1>1, <1>4 DEF WriteInstructions
  <2>2. job[p].version \in {1} \cup accepted[a]
    BY <1>1, <1>2, AtStep
  <2>3. DataOk'
    BY <1>2, <2>1 DEF DataOk
  <2>4. Monotone /\ \A b \in Agents : Housed(b)' = Housed(b)
    BY <1>2 DEF Monotone, Housed
  <2>5. \A b \in Agents : agentsMd'[b] \in {Missing, 1} \cup accepted[b]
    BY <1>2, <2>1, <2>2 DEF AgentsOk, DataOk
  <2>6. AgentsOk'
    BY <1>2, <2>4, <2>5 DEF AgentsOk
  <2>7. RemovedOk'
    BY <1>2 DEF RemovedOk
  <2> QED BY <1>1, <1>2, <2>1, <2>3, <2>4, <2>6, <2>7, HandlerMoves
<1> QED BY <1>3, <1>4

LEMMA WriteClientKeeps ==
  ASSUME IInv, NEW p \in Procs, WriteClient(p)
  PROVE  IInv'
<1>1. PICK a \in Agents : a = job[p].agent
  BY Parts
<1>2. /\ DataOk /\ On(p, "client")
      /\ UNCHANGED <<stored, authority, directory, agentsMd, archives, startFile, pending,
                     accepted, removed, calls, failures, crashes>>
  BY Parts DEF WriteClient, bounds
<1>3. CASE ~directory[a]
  <2>1. Throw(p) /\ UNCHANGED client
    BY <1>1, <1>3 DEF WriteClient
  <2>2. /\ UNCHANGED <<stored, authority, files, startFile, pending, accepted, removed>>
        /\ calls' \in Nat /\ failures' \in Nat /\ crashes' \in Nat
    BY <1>2, <2>1 DEF DataOk, files
  <2> QED BY <2>1, <2>2, HandlerThrows
<1>4. CASE directory[a]
  <2>1. /\ client' = [client EXCEPT ![a] = TRUE]
        /\ job' = Left(p) /\ phase' = phase
    BY <1>1, <1>4 DEF WriteClient
  <2>2. client' \in [Agents -> BOOLEAN]
    BY <1>2, <2>1 DEF DataOk
  <2>3. DataOk'
    BY <1>2, <2>1, <2>2 DEF DataOk
  <2>4. AgentsOk' /\ RemovedOk' /\ Monotone
    BY <1>2, DataStays
  <2> QED BY <1>1, <1>2, <2>1, <2>3, <2>4, HandlerMoves
<1> QED BY <1>3, <1>4

LEMMA InstallAuthorityKeeps ==
  ASSUME IInv, NEW p \in Procs, InstallAuthority(p)
  PROVE  IInv'
<1>1. PICK a \in Agents : a = job[p].agent
  BY Parts
<1>2. /\ DataOk /\ AgentsOk /\ RemovedOk
      /\ On(p, "authority") /\ job' = Left(p)
      /\ UNCHANGED <<stored, directory, agentsMd, client, archives, startFile, phase, pending,
                     accepted, removed, calls, failures, crashes>>
  BY Parts DEF InstallAuthority, files, bounds
<1>3. authority' = [authority EXCEPT ![a] = IF @ = "none" THEN "active" ELSE @]
  BY <1>1 DEF InstallAuthority
<1>4. /\ authority' \in [Agents -> {"none", "active", "revoked"}]
      /\ authority'[a] # "none"
      /\ \A b \in Agents : authority[b] # "none" => authority'[b] = authority[b]
  BY <1>2, <1>3 DEF DataOk
<1>5. DataOk'
  BY <1>2, <1>4 DEF DataOk
<1>6. Monotone /\ \A b \in Agents : Housed(b)' = Housed(b)
  BY <1>2, <1>4 DEF Monotone, Housed
<1>7. AgentsOk'
  BY <1>2, <1>4, <1>6 DEF AgentsOk
<1>8. RemovedOk'
  BY <1>2, <1>4 DEF RemovedOk, DataOk
<1> QED BY <1>1, <1>2, <1>4, <1>5, <1>6, <1>7, <1>8, HandlerMoves

\* The store accepts a configuration of an Agent that is whole.
LEMMA Accepts ==
  ASSUME IInv, NEW a \in Agents, NEW version \in 1 .. MaxVersion,
         stored' = [stored EXCEPT ![a] = version],
         accepted' = [accepted EXCEPT ![a] = @ \cup {version}],
         version = 1 \/ stored[a] # Missing, Housed(a), authority'[a] # "none",
         authority' = authority \/ (a = DemoAgent
                                      /\ authority' = [authority EXCEPT ![a] = "active"]),
         UNCHANGED <<directory, agentsMd, client, archives, startFile, phase, pending, removed,
                     calls, failures, crashes>>
  PROVE  /\ DataOk' /\ AgentsOk' /\ RemovedOk' /\ Monotone
         /\ version \in accepted'[a]
         /\ \A b \in Agents : stored[b] # Missing => stored'[b] # Missing
<1>1. DataOk /\ AgentsOk /\ RemovedOk
  BY DEF IInv, TypeOK
<1>2. version \in 0 .. MaxVersion /\ version # Missing
  BY WorkspacesAssumption DEF Missing
<1>3. /\ stored'[a] = version /\ accepted'[a] = accepted[a] \cup {version}
      /\ \A b \in Agents : b # a => stored'[b] = stored[b] /\ accepted'[b] = accepted[b]
      /\ stored' \in [Agents -> 0 .. MaxVersion]
      /\ accepted' \in [Agents -> SUBSET (0 .. MaxVersion)]
  BY <1>1, <1>2 DEF DataOk
<1>4. /\ authority' \in [Agents -> {"none", "active", "revoked"}]
      /\ \A b \in Agents : authority[b] # "none" => authority'[b] # "none"
      /\ \A b \in Agents : b # DemoAgent => authority'[b] = authority[b]
  BY <1>1 DEF DataOk
<1>5. DataOk'
  BY <1>1, <1>3, <1>4 DEF DataOk
<1>6. \A b \in Agents : Housed(b)' = Housed(b)
  BY DEF Housed
<1>7. Monotone
  <2>1. \A b \in Agents : accepted[b] \subseteq accepted'[b]
    BY <1>3
  <2>2. stored[DemoAgent] # Missing => stored'[DemoAgent] # Missing
    BY <1>2, <1>3, WorkspacesAssumption
  <2> QED BY <1>4, <1>6, <2>1, <2>2 DEF Monotone
<1>8. AgentsOk'
  <2>1. SUFFICES ASSUME NEW b \in Agents
                 PROVE  /\ agentsMd'[b] \in {Missing, 1} \cup accepted'[b]
                        /\ stored'[b] # Missing =>
                             /\ authority'[b] # "none" /\ Housed(b)'
                             /\ stored'[b] \in accepted'[b] /\ 1 \in accepted'[b]
    BY DEF AgentsOk
  <2>2. CASE b = a
    BY <1>1, <1>3, <1>6, <2>2 DEF AgentsOk
  <2>3. CASE b # a
    BY <1>1, <1>3, <1>4, <1>6, <2>3 DEF AgentsOk
  <2> QED BY <2>2, <2>3
<1>9. RemovedOk'
  BY <1>1, <1>4 DEF RemovedOk, DataOk
<1> QED BY <1>2, <1>3, <1>5, <1>7, <1>8, <1>9

LEMMA PushAgentKeeps ==
  ASSUME IInv, NEW p \in Procs, PushAgent(p)
  PROVE  IInv'
<1>1. PICK a \in Agents : a = job[p].agent
  BY Parts
<1>2. /\ TypeOK /\ JobOk(p) /\ On(p, "push") /\ job' = Left(p)
      /\ UNCHANGED <<authority, directory, agentsMd, client, archives, startFile, phase, pending,
                     removed, calls, failures, crashes>>
  BY Parts DEF PushAgent, files, bounds
<1>3. job[p].version = 1 /\ authority[a] # "none" /\ Housed(a)
  BY <1>1, <1>2, AtStep
<1>4. /\ stored' = [stored EXCEPT ![a] = 1]
      /\ accepted' = [accepted EXCEPT ![a] = @ \cup {1}]
  BY <1>1, <1>3 DEF PushAgent
<1>5. 1 \in 1 .. MaxVersion
  BY WorkspacesAssumption
<1>6. /\ DataOk' /\ AgentsOk' /\ RemovedOk' /\ Monotone
      /\ \A b \in Agents : stored[b] # Missing => stored'[b] # Missing
  BY <1>2, <1>3, <1>4, <1>5, Accepts
<1> QED BY <1>1, <1>2, <1>6, HandlerMoves

LEMMA UpdateRecordKeeps ==
  ASSUME IInv, NEW p \in Procs, UpdateRecord(p)
  PROVE  IInv'
<1>1. PICK a \in Agents : a = job[p].agent
  BY Parts
<1>2. /\ TypeOK /\ DataOk /\ AgentsOk /\ JobOk(p) /\ On(p, "update")
      /\ job[p].version \in 0 .. MaxVersion
      /\ UNCHANGED <<authority, directory, agentsMd, client, archives, startFile, pending,
                     removed, calls, failures, crashes>>
  BY Parts DEF UpdateRecord, files, bounds
<1>3. CASE a \notin Known
  <2>1. Throw(p) /\ UNCHANGED <<stored, accepted>>
    BY <1>1, <1>3 DEF UpdateRecord
  <2>2. /\ UNCHANGED <<stored, authority, files, startFile, pending, accepted, removed>>
        /\ calls' \in Nat /\ failures' \in Nat /\ crashes' \in Nat
    BY <1>2, <2>1 DEF DataOk, files
  <2> QED BY <2>1, <2>2, HandlerThrows
<1>4. CASE a \in Known
  <2>1. PICK v : v = job[p].version
    OBVIOUS
  <2>2. v \in 1 .. MaxVersion
    <3>1. v # Missing
      BY <1>1, <1>2, <2>1, AtStep
    <3> QED BY <1>2, <2>1, <3>1, WorkspacesAssumption DEF Missing
  <2>3. /\ stored' = [stored EXCEPT ![a] = v]
        /\ accepted' = [accepted EXCEPT ![a] = @ \cup {v}]
        /\ job' = Left(p) /\ phase' = phase
    BY <1>1, <1>4, <2>1 DEF UpdateRecord
  <2>4. stored[a] # Missing /\ authority[a] # "none" /\ Housed(a)
    BY <1>2, <1>4 DEF Known, AgentsOk
  <2>5. /\ DataOk' /\ AgentsOk' /\ RemovedOk' /\ Monotone /\ v \in accepted'[a]
        /\ \A b \in Agents : stored[b] # Missing => stored'[b] # Missing
    BY <1>2, <2>2, <2>3, <2>4, Accepts
  <2> QED BY <1>1, <1>2, <2>1, <2>3, <2>5, HandlerMoves
<1> QED BY <1>3, <1>4

LEMMA InstallSuccessorKeeps ==
  ASSUME IInv, NEW p \in Procs, InstallSuccessor(p)
  PROVE  IInv'
<1>1. PICK a \in Agents : a = job[p].agent
  BY Parts
<1>2. /\ TypeOK /\ DataOk /\ AgentsOk /\ JobOk(p) /\ On(p, "succeed") /\ job' = Left(p)
      /\ UNCHANGED <<directory, agentsMd, client, archives, startFile, phase, pending,
                     removed, calls, failures, crashes>>
  BY Parts DEF InstallSuccessor, files, bounds
<1>3. job[p].version = 1 /\ a = DemoAgent /\ stored[a] # Missing
  BY <1>1, <1>2, AtStep
<1>4. /\ stored' = [stored EXCEPT ![a] = 1]
      /\ accepted' = [accepted EXCEPT ![a] = @ \cup {1}]
      /\ authority' = [authority EXCEPT ![a] = "active"]
  BY <1>1, <1>3 DEF InstallSuccessor
<1>5. 1 \in 1 .. MaxVersion /\ Housed(a) /\ authority'[a] # "none"
  BY <1>2, <1>3, <1>4, WorkspacesAssumption DEF AgentsOk, DataOk
<1>6. /\ DataOk' /\ AgentsOk' /\ RemovedOk' /\ Monotone
      /\ \A b \in Agents : stored[b] # Missing => stored'[b] # Missing
  BY <1>2, <1>3, <1>4, <1>5, Accepts
<1> QED BY <1>1, <1>2, <1>6, HandlerMoves

LEMMA RefusedKeeps ==
  ASSUME IInv, NEW p \in Procs, Refused(p)
  PROVE  IInv'
<1>1. DataOk
  BY DEF IInv, TypeOK
<1>2. /\ Throw(p)
      /\ UNCHANGED <<stored, authority, files, startFile, pending, accepted, removed>>
      /\ calls' \in Nat /\ failures' \in Nat /\ crashes' \in Nat
  BY <1>1 DEF Refused, bounds, DataOk
<1> QED BY <1>2, HandlerThrows

LEMMA StoreFailsKeeps ==
  ASSUME IInv, NEW p \in Procs, StoreFails(p)
  PROVE  IInv'
<1>1. DataOk
  BY DEF IInv, TypeOK
<1>2. /\ Throw(p)
      /\ UNCHANGED <<stored, authority, files, startFile, pending, accepted, removed>>
      /\ calls' \in Nat /\ failures' \in Nat /\ crashes' \in Nat
  BY <1>1 DEF StoreFails, DataOk
<1> QED BY <1>2, HandlerThrows

\* The steps of a deletion
LEMMA RevokeAuthorityKeeps ==
  ASSUME IInv, NEW p \in Procs, RevokeAuthority(p)
  PROVE  IInv'
<1>1. PICK a \in Agents : a = job[p].agent
  BY Parts
<1>2. /\ TypeOK /\ DataOk /\ AgentsOk /\ RemovedOk /\ JobOk(p) /\ On(p, "revoke")
      /\ UNCHANGED <<stored, directory, agentsMd, client, archives, startFile, pending,
                     accepted, removed, calls, failures, crashes>>
  BY Parts DEF RevokeAuthority, files, bounds
<1>3. CASE authority[a] # "active"
  <2>1. Throw(p) /\ UNCHANGED authority
    BY <1>1, <1>3 DEF RevokeAuthority
  <2>2. /\ UNCHANGED <<stored, authority, files, startFile, pending, accepted, removed>>
        /\ calls' \in Nat /\ failures' \in Nat /\ crashes' \in Nat
    BY <1>2, <2>1 DEF DataOk, files
  <2> QED BY <2>1, <2>2, HandlerThrows
<1>4. CASE authority[a] = "active"
  <2>1. /\ authority' = [authority EXCEPT ![a] = "revoked"]
        /\ job' = Left(p) /\ phase' = phase
    BY <1>1, <1>4 DEF RevokeAuthority
  <2>2. /\ authority' \in [Agents -> {"none", "active", "revoked"}]
        /\ authority'[a] = "revoked"
        /\ \A b \in Agents : b # a => authority'[b] = authority[b]
    BY <1>2, <2>1 DEF DataOk
  <2>3. DataOk'
    BY <1>2, <2>1, <2>2 DEF DataOk
  <2>4. Monotone /\ \A b \in Agents : Housed(b)' = Housed(b)
    BY <1>2, <2>2 DEF Monotone, Housed
  <2>5. AgentsOk'
    BY <1>2, <2>2, <2>4 DEF AgentsOk
  <2>6. RemovedOk'
    BY <1>2, <2>2 DEF RemovedOk, DataOk
  <2> QED BY <1>1, <1>2, <2>1, <2>2, <2>3, <2>4, <2>5, <2>6, HandlerMoves
<1> QED BY <1>3, <1>4

LEMMA ArchiveWorkspaceKeeps ==
  ASSUME IInv, NEW p \in Procs, ArchiveWorkspace(p)
  PROVE  IInv'
<1>1. PICK a \in Agents : a = job[p].agent
  BY Parts
<1>2. /\ TypeOK /\ DataOk /\ AgentsOk /\ RemovedOk /\ On(p, "archive")
      /\ UNCHANGED <<stored, authority, startFile, pending, accepted, removed,
                     calls, failures, crashes>>
  BY Parts DEF ArchiveWorkspace, bounds
<1>3. CASE ~directory[a]
  <2>1. Throw(p) /\ UNCHANGED files
    BY <1>1, <1>3 DEF ArchiveWorkspace
  <2>2. /\ UNCHANGED <<stored, authority, files, startFile, pending, accepted, removed>>
        /\ calls' \in Nat /\ failures' \in Nat /\ crashes' \in Nat
    BY <1>2, <2>1 DEF DataOk
  <2> QED BY <2>1, <2>2, HandlerThrows
<1>4. CASE directory[a]
  <2>1. /\ directory' = [directory EXCEPT ![a] = FALSE]
        /\ agentsMd' = [agentsMd EXCEPT ![a] = Missing]
        /\ client' = [client EXCEPT ![a] = FALSE]
        /\ archives' = [archives EXCEPT ![a] = @ + 1]
        /\ job' = Left(p) /\ phase' = phase
    BY <1>1, <1>4 DEF ArchiveWorkspace
  <2>2. /\ directory' \in [Agents -> BOOLEAN] /\ client' \in [Agents -> BOOLEAN]
    BY <1>2, <2>1 DEF DataOk
  <2>3. /\ agentsMd' \in [Agents -> 0 .. MaxVersion] /\ archives' \in [Agents -> Nat]
        /\ archives'[a] > 0
        /\ \A b \in Agents : b # a => archives'[b] = archives[b]
        /\ \A b \in Agents : agentsMd'[b] \in {Missing, agentsMd[b]}
    BY <1>2, <2>1, WorkspacesAssumption DEF DataOk, Missing
  <2>4. DataOk'
    BY <1>2, <2>1, <2>2, <2>3 DEF DataOk
  <2>5. \A b \in Agents : b # a => directory'[b] = directory[b]
    BY <1>2, <2>1 DEF DataOk
  <2>6. \A b \in Agents : Housed(b) => Housed(b)'
    BY <2>3, <2>5 DEF Housed
  <2>7. Monotone
    BY <1>2, <2>6 DEF Monotone
  <2>8. AgentsOk'
    BY <1>2, <2>3, <2>6 DEF AgentsOk
  <2>9. RemovedOk'
    BY <1>2 DEF RemovedOk
  <2> QED BY <1>1, <1>2, <2>1, <2>4, <2>7, <2>8, <2>9, HandlerMoves
<1> QED BY <1>3, <1>4

LEMMA RemoveAgentKeeps ==
  ASSUME IInv, NEW p \in Procs, RemoveAgent(p)
  PROVE  IInv'
<1>1. PICK a \in Agents : a = job[p].agent
  BY Parts
<1>2. /\ TypeOK /\ DataOk /\ AgentsOk /\ RemovedOk /\ StartOk /\ JobOk(p)
      /\ On(p, "remove") /\ job' = Left(p)
      /\ UNCHANGED <<authority, directory, agentsMd, client, archives, startFile, phase, pending,
                     accepted, calls, failures, crashes>>
  BY Parts DEF RemoveAgent, files, bounds
<1>3. stored' = [stored EXCEPT ![a] = Missing] /\ removed' = removed \cup {a}
  BY <1>1 DEF RemoveAgent
<1>4. job[p].kind = "delete" /\ a # DemoAgent /\ authority[a] = "revoked"
  BY <1>1, <1>2, AtStep
<1>5. phase = "serving"
  BY <1>2, <1>4 DEF StartOk, Procs
<1>6. /\ stored' \in [Agents -> 0 .. MaxVersion]
      /\ stored'[a] = Missing /\ \A b \in Agents : b # a => stored'[b] = stored[b]
  BY <1>2, <1>3, WorkspacesAssumption DEF DataOk, Missing
<1>7. DataOk'
  BY <1>2, <1>3, <1>6 DEF DataOk
<1>8. Monotone /\ \A b \in Agents : Housed(b)' = Housed(b)
  BY <1>2, <1>4, <1>6, WorkspacesAssumption DEF Monotone, Housed
<1>9. AgentsOk'
  BY <1>2, <1>6, <1>8 DEF AgentsOk
<1>10. RemovedOk'
  BY <1>2, <1>3, <1>4 DEF RemovedOk
<1> QED BY <1>1, <1>2, <1>5, <1>7, <1>8, <1>9, <1>10, HandlerMoves

\* retireAgent skips the revocation only if the Mandate is revoked already.
LEMMA RetireAgentKeeps ==
  ASSUME IInv, NEW p \in Procs, RetireAgent(p)
  PROVE  IInv'
<1>1. PICK a \in Agents : a = job[p].agent
  BY Parts
<1>2. /\ TypeOK /\ DataOk /\ JobOk(p) /\ StartOk /\ job[p] \in Jobs
      /\ On(p, "retire")
      /\ UNCHANGED <<stored, authority, directory, agentsMd, client, archives, startFile, phase,
                     pending, accepted, removed, calls, failures, crashes>>
  BY Parts DEF RetireAgent, files, bounds
<1>3. /\ job[p].kind = "delete" /\ a # DemoAgent /\ authority[a] # "none"
      /\ job[p].todo = <<"retire", "revoke", "archive", "remove">>
  BY <1>1, <1>2, AtStep, PlanFacts
<1>4. AgentsOk' /\ RemovedOk' /\ Monotone
  BY <1>2, DataStays
<1>5. DataOk'
  BY <1>2 DEF DataOk
<1>6. CASE authority[a] = "active"
  <2>1. job' = Left(p)
    BY <1>1, <1>6 DEF RetireAgent
  <2> QED BY <1>1, <1>2, <1>4, <1>5, <2>1, HandlerMoves
<1>7. CASE authority[a] # "active"
  <2>1. PICK rest : rest = <<"archive", "remove">>
    OBVIOUS
  <2>2. Tail(Tail(job[p].todo)) = rest
    BY <1>3, <2>1
  <2>3. job' = [job EXCEPT ![p].todo = rest]
    BY <1>1, <1>7, <2>2 DEF RetireAgent
  <2>4. rest \in DeleteRest
    BY <2>1 DEF DeleteRest
  <2>5. job[p].agent = a /\ job \in [Procs -> Jobs]
    BY <1>1, <1>2 DEF TypeOK
  <2>6. job' = [job EXCEPT ![p] = [job[p] EXCEPT !.todo = rest]]
    BY <2>3, <2>5
  <2>7. [job[p] EXCEPT !.todo = rest] \in Jobs
    BY <1>2, <2>4 DEF Jobs
  <2>8. /\ job' \in [Procs -> Jobs]
        /\ job'[p] = [job[p] EXCEPT !.todo = rest]
        /\ \A q \in Procs : q # p => job'[q] = job[q]
    BY <2>5, <2>6, <2>7
  <2>9. /\ job'[p].kind = "delete" /\ job'[p].agent = a /\ job'[p].todo = rest
    BY <1>2, <1>3, <2>5, <2>8 DEF Jobs
  <2>10. authority'[a] = "revoked"
    BY <1>2, <1>3, <1>7 DEF DataOk
  <2>11. JobOk(p)'
    BY <1>3, <2>4, <2>9, <2>10 DEF JobOk
  <2>12. \A q \in Procs : JobOk(q)'
    <3>1. SUFFICES ASSUME NEW q \in Procs, q # p PROVE JobOk(q)'
      BY <2>11
    <3>2. JobOk(q) /\ job[q] \in Jobs /\ job'[q] = job[q]
      BY <2>5, <2>8, <3>1 DEF IInv
    <3> QED BY <1>4, <3>2, OthersKeep
  <2>13. \A q \in Procs : job'[q].kind = job[q].kind
    BY <1>3, <2>8, <2>9
  <2>14. StartOk'
    BY <1>2, <2>13 DEF StartOk, Procs
  <2> QED BY <1>4, <1>5, <2>8, <2>12, <2>14 DEF IInv, TypeOK
<1> QED BY <1>6, <1>7

-----------------------------------------------------------------------------
(* Requests and the start of the server *)

\* What a handler must know when it begins.
MayBegin(kind, a, version) ==
  /\ kind = "create" => version = 1
  /\ kind = "update" => version # Missing
  /\ kind = "rehearse" => version = 1 /\ a = DemoAgent /\ stored[a] # Missing
  /\ kind = "delete" => a # DemoAgent /\ authority[a] # "none"
  /\ kind = "ensure" => version \in accepted[a]

LEMMA Begins ==
  ASSUME IInv, NEW p \in Procs, NEW kind \in Works, NEW a \in Agents,
         NEW version \in 0 .. MaxVersion,
         MayBegin(kind, a, version), Begin(p, kind, a, version),
         UNCHANGED <<stored, authority, directory, archives, agentsMd, accepted, removed>>
  PROVE  /\ job' \in [Procs -> Jobs] /\ \A q \in Procs : JobOk(q)'
         /\ job'[p].kind = kind /\ \A q \in Procs : q # p => job'[q] = job[q]
         /\ AgentsOk' /\ RemovedOk'
<1>1. job \in [Procs -> Jobs]
  BY DEF IInv, TypeOK
<1>2. AgentsOk' /\ RemovedOk' /\ Monotone
  BY DataStays
<1>3. /\ kind = "create" => Plan[kind] \in CreateRest /\ Plan[kind] \notin Installed
      /\ kind = "update" => Plan[kind] \in UpdateRest
      /\ kind = "rehearse" => Plan[kind] \in RehearseRest
      /\ kind = "delete" => Plan[kind] \in DeleteRest /\ Plan[kind] \notin Retired
      /\ kind = "ensure" => Plan[kind] \in EnsureRest
  <2>1. kind = "create" => Plan[kind] \in CreateRest /\ Plan[kind] \notin Installed
    <3>1. <<"directory", "agentsMd", "client", "authority", "push">> \notin Installed
      BY DEF Installed
    <3> QED BY <3>1, PlanFacts DEF CreateRest
  <2>2. kind = "update" => Plan[kind] \in UpdateRest
    BY PlanFacts DEF UpdateRest
  <2>3. kind = "rehearse" => Plan[kind] \in RehearseRest
    BY PlanFacts DEF RehearseRest
  <2>4. kind = "delete" => Plan[kind] \in DeleteRest /\ Plan[kind] \notin Retired
    <3>1. <<"retire", "revoke", "archive", "remove">> \notin Retired
      BY DEF Retired
    <3> QED BY <3>1, PlanFacts DEF DeleteRest
  <2>5. kind = "ensure" => Plan[kind] \in EnsureRest
    BY PlanFacts DEF EnsureRest
  <2> QED BY <2>1, <2>2, <2>3, <2>4, <2>5
<1>4. PICK todo : todo = Plan[kind]
  OBVIOUS
<1>5. [kind |-> kind, agent |-> a, version |-> version, todo |-> todo] \in Jobs
  BY <1>3, <1>4 DEF Jobs, Works
<1>6. job' = [job EXCEPT ![p] = [kind |-> kind, agent |-> a, version |-> version,
                                 todo |-> todo]]
  BY <1>4 DEF Begin
<1>7. /\ job' \in [Procs -> Jobs] /\ \A q \in Procs : q # p => job'[q] = job[q]
      /\ job'[p].kind = kind /\ job'[p].agent = a /\ job'[p].version = version
      /\ job'[p].todo = todo
  BY <1>1, <1>5, <1>6
<1>8. JobOk(p)'
  <2>1. stored' = stored /\ authority' = authority /\ accepted' = accepted
    OBVIOUS
  <2>2. todo \in CreateRest \/ kind # "create"
    BY <1>3, <1>4
  <2> QED BY <1>3, <1>4, <1>7, <2>1 DEF JobOk, MayBegin, Works
<1>9. \A q \in Procs : JobOk(q)'
  <2>1. SUFFICES ASSUME NEW q \in Procs, q # p PROVE JobOk(q)'
    BY <1>8
  <2>2. JobOk(q) /\ job[q] \in Jobs /\ job'[q] = job[q]
    BY <1>1, <1>7, <2>1 DEF IInv
  <2> QED BY <1>2, <2>2, OthersKeep
<1> QED BY <1>2, <1>7, <1>9

LEMMA ReceiveKeeps ==
  ASSUME IInv, NEW p \in Procs, Receive(p)
  PROVE  IInv'
<1>1. /\ DataOk /\ AgentsOk /\ StartOk /\ p \in Requests /\ phase = "serving"
      /\ UNCHANGED <<stored, authority, directory, agentsMd, client, archives, startFile, phase,
                     pending, accepted, removed, failures, crashes>>
      /\ calls' = calls + 1
  BY Parts DEF Receive, files
<1>2. PICK kind \in Works, a \in Agents, version \in 0 .. MaxVersion :
        MayBegin(kind, a, version) /\ Begin(p, kind, a, version)
  <2>1. /\ 1 \in 0 .. MaxVersion /\ Missing \in 0 .. MaxVersion
        /\ \A v \in Versions \ {1} : v \in 0 .. MaxVersion /\ v # Missing
        /\ DemoAgent \in Agents
    BY WorkspacesAssumption DEF Versions, Missing
  <2>2. {"create", "update", "rehearse", "delete"} \subseteq Works
    BY DEF Works
  <2>3. CASE \E a \in Fresh : Begin(p, "create", a, 1)
    <3>1. PICK a \in Fresh : Begin(p, "create", a, 1)
      BY <2>3
    <3>2. MayBegin("create", a, 1) /\ a \in Agents
      BY DEF MayBegin, Fresh
    <3> QED BY <2>1, <2>2, <3>1, <3>2
  <2>4. CASE \E a \in Known, v \in Versions \ {1} : Begin(p, "update", a, v)
    <3>1. PICK a \in Known, v \in Versions \ {1} : Begin(p, "update", a, v)
      BY <2>4
    <3>2. MayBegin("update", a, v) /\ a \in Agents
      BY <2>1 DEF MayBegin, Known
    <3> QED BY <2>1, <2>2, <3>1, <3>2
  <2>5. CASE \E a \in Known \ {DemoAgent} : Begin(p, "delete", a, Missing)
    <3>1. PICK a \in Known \ {DemoAgent} : Begin(p, "delete", a, Missing)
      BY <2>5
    <3>2. MayBegin("delete", a, Missing) /\ a \in Agents
      BY <1>1 DEF MayBegin, Known, AgentsOk
    <3> QED BY <2>1, <2>2, <3>1, <3>2
  <2>6. CASE DemoAgent \in Known /\ Begin(p, "rehearse", DemoAgent, 1)
    <3>1. MayBegin("rehearse", DemoAgent, 1)
      BY <2>6 DEF MayBegin, Known
    <3> QED BY <2>1, <2>2, <2>6, <3>1
  <2> QED BY <2>3, <2>4, <2>5, <2>6 DEF Receive
<1>3. /\ job' \in [Procs -> Jobs] /\ \A q \in Procs : JobOk(q)'
      /\ \A q \in Procs : q # p => job'[q] = job[q]
      /\ AgentsOk' /\ RemovedOk'
  BY <1>1, <1>2, Begins
<1>4. StartOk'
  <2>1. Server \in Procs /\ Server # p
    BY <1>1, WorkspacesAssumption DEF Procs
  <2> QED BY <1>1, <1>3, <2>1 DEF StartOk
<1>5. DataOk'
  BY <1>1 DEF DataOk
<1> QED BY <1>3, <1>4, <1>5 DEF IInv, TypeOK

\* A process that has done its work, and nothing else changes.
LEMMA GoesIdle ==
  ASSUME IInv, NEW p \in Procs, job' = [job EXCEPT ![p] = Idle],
         UNCHANGED <<stored, authority, files, startFile, pending, accepted, removed, bounds>>,
         phase' = phase \/ (phase' = "serving" /\ p = Server)
  PROVE  IInv'
<1>1. /\ TypeOK /\ DataOk /\ StartOk /\ \A q \in Procs : JobOk(q)
      /\ UNCHANGED <<stored, authority, directory, archives, agentsMd, client, startFile, pending,
                     accepted, removed, calls, failures, crashes>>
  BY DEF IInv, TypeOK, files, bounds
<1>2. AgentsOk' /\ RemovedOk' /\ Monotone
  BY <1>1, DataStays
<1>3. /\ job' \in [Procs -> Jobs] /\ job'[p] = Idle
      /\ \A q \in Procs : q # p => job'[q] = job[q]
  BY <1>1, IdleOk DEF TypeOK
<1>4. \A q \in Procs : JobOk(q)'
  <2>1. SUFFICES ASSUME NEW q \in Procs PROVE JobOk(q)'
    OBVIOUS
  <2>2. CASE q = p
    BY <1>3, <2>2, IdleOk
  <2>3. CASE q # p
    <3>1. JobOk(q) /\ job[q] \in Jobs
      BY <1>1 DEF TypeOK
    <3> QED BY <1>2, <1>3, <2>3, <3>1, OthersKeep
  <2> QED BY <2>2, <2>3
<1>5. StartOk'
  <2>1. Server \in Procs /\ Requests \subseteq Procs
    BY DEF Procs
  <2>2. \A q \in Procs : job'[q].kind = job[q].kind \/ job'[q].kind = "idle"
    BY <1>3, IdleOk
  <2> QED BY <1>1, <2>1, <2>2 DEF StartOk
<1>6. DataOk'
  BY <1>1 DEF DataOk, Phases
<1> QED BY <1>2, <1>3, <1>4, <1>5, <1>6 DEF IInv, TypeOK

\* The start leaves the Agents and the jobs alone.
LEMMA StartGoesOn ==
  ASSUME IInv,
         UNCHANGED <<stored, authority, files, job, accepted, removed, calls, crashes>>,
         failures' \in Nat,
         phase' \in Phases,
         startFile' \in [StartFiles -> {"absent", "opened", "short", "whole"}],
         pending' \subseteq Agents,
         phase' # "serving" => phase # "serving",
         phase' = "agents" => \A a \in pending' : stored[a] # Missing
  PROVE  IInv'
<1>1. /\ TypeOK /\ DataOk /\ StartOk /\ \A q \in Procs : JobOk(q)
      /\ UNCHANGED <<stored, authority, directory, archives, agentsMd, client, job,
                     accepted, removed, calls, crashes>>
  BY DEF IInv, TypeOK, files
<1>2. AgentsOk' /\ RemovedOk' /\ Monotone
  BY <1>1, DataStays
<1>3. \A q \in Procs : JobOk(q)'
  <2>1. SUFFICES ASSUME NEW q \in Procs PROVE JobOk(q)'
    OBVIOUS
  <2>2. JobOk(q) /\ job[q] \in Jobs /\ job'[q] = job[q]
    BY <1>1 DEF TypeOK
  <2> QED BY <1>2, <2>2, OthersKeep
<1>4. StartOk'
  BY <1>1 DEF StartOk
<1>5. DataOk'
  BY <1>1 DEF DataOk
<1>6. job' \in [Procs -> Jobs]
  BY <1>1 DEF TypeOK
<1> QED BY <1>2, <1>3, <1>4, <1>5, <1>6 DEF IInv, TypeOK

\* The start hands an Agent to itself.
LEMMA ServerBegins ==
  ASSUME IInv, NEW kind \in {"create", "ensure"}, NEW a \in Agents,
         NEW version \in 0 .. MaxVersion,
         MayBegin(kind, a, version), Begin(Server, kind, a, version),
         UNCHANGED <<stored, authority, files, startFile, accepted, removed, bounds>>,
         phase = "agents", phase' \in {"agents", "demo"}, pending' \subseteq pending
  PROVE  IInv'
<1>1. /\ TypeOK /\ DataOk /\ StartOk
      /\ UNCHANGED <<stored, authority, directory, archives, agentsMd, client, startFile,
                     accepted, removed, calls, failures, crashes>>
  BY DEF IInv, TypeOK, files, bounds
<1>2. Server \in Procs /\ \A q \in Requests : q \in Procs /\ q # Server
  BY WorkspacesAssumption DEF Procs
<1>3. /\ job' \in [Procs -> Jobs] /\ \A q \in Procs : JobOk(q)'
      /\ job'[Server].kind = kind /\ \A q \in Procs : q # Server => job'[q] = job[q]
      /\ AgentsOk' /\ RemovedOk'
  BY <1>1, <1>2, Begins DEF Works
<1>4. StartOk'
  BY <1>1, <1>2, <1>3 DEF StartOk
<1>5. DataOk'
  BY <1>1 DEF DataOk, Phases
<1> QED BY <1>3, <1>4, <1>5 DEF IInv, TypeOK

LEMMA EnsureNextKeeps ==
  ASSUME IInv, EnsureNext
  PROVE  IInv'
<1>1. PICK a \in pending : /\ Begin(Server, "ensure", a, stored[a])
                           /\ pending' = pending \ {a}
  BY DEF EnsureNext
<1>2. /\ TypeOK /\ DataOk /\ StartOk /\ AgentsOk /\ phase = "agents"
      /\ UNCHANGED <<stored, authority, files, startFile, phase, accepted, removed, bounds>>
  BY DEF IInv, TypeOK, EnsureNext
<1>3. a \in Agents /\ stored[a] # Missing /\ stored[a] \in 0 .. MaxVersion
  BY <1>1, <1>2 DEF DataOk, StartOk
<1>4. MayBegin("ensure", a, stored[a])
  BY <1>2, <1>3 DEF AgentsOk, MayBegin
<1> QED BY <1>1, <1>2, <1>3, <1>4, ServerBegins

LEMMA EnsureDemoKeeps ==
  ASSUME IInv, EnsureDemo
  PROVE  IInv'
<1>1. /\ DataOk /\ AgentsOk /\ phase = "agents" /\ phase' = "demo" /\ pending' = pending
      /\ UNCHANGED <<stored, authority, files, startFile, pending, accepted, removed, bounds>>
      /\ DemoAgent \in Agents /\ 1 \in 0 .. MaxVersion
  BY WorkspacesAssumption DEF IInv, TypeOK, EnsureDemo
<1>2. CASE DemoAgent \in Known
  <2>1. Begin(Server, "ensure", DemoAgent, stored[DemoAgent])
    BY <1>2 DEF EnsureDemo
  <2>2. stored[DemoAgent] \in 0 .. MaxVersion
    BY <1>1 DEF DataOk
  <2>3. MayBegin("ensure", DemoAgent, stored[DemoAgent])
    BY <1>1, <1>2 DEF AgentsOk, MayBegin, Known
  <2> QED BY <1>1, <2>1, <2>2, <2>3, ServerBegins
<1>3. CASE DemoAgent \notin Known
  <2>1. Begin(Server, "create", DemoAgent, 1)
    BY <1>3 DEF EnsureDemo
  <2>2. MayBegin("create", DemoAgent, 1)
    BY DEF MayBegin
  <2> QED BY <1>1, <2>1, <2>2, ServerBegins
<1> QED BY <1>2, <1>3

\* The steps before the Agents are looked at
LEMMA EarlyKeep ==
  ASSUME IInv, \/ Boot \/ KeysLoaded \/ ListAgents \/ InitializeFails
               \/ \E f \in StartFiles : CreateFile(f) \/ WriteFile(f) \/ RejectFile(f)
  PROVE  IInv'
<1>1. DataOk
  BY DEF IInv, TypeOK
<1>2. /\ UNCHANGED <<stored, authority, files, job, accepted, removed, calls, crashes>>
      /\ failures' \in Nat
  BY <1>1 DEF Boot, KeysLoaded, ListAgents, InitializeFails, CreateFile, WriteFile,
              RejectFile, bounds, DataOk
<1>3. CASE Boot \/ KeysLoaded \/ InitializeFails
  <2>1. /\ phase # "serving" /\ phase' \in Early /\ startFile' = startFile
        /\ pending' = pending
    BY <1>3 DEF Boot, KeysLoaded, InitializeFails, Early
  <2>2. /\ pending' \subseteq Agents
        /\ startFile' \in [StartFiles -> {"absent", "opened", "short", "whole"}]
    BY <1>1, <2>1 DEF DataOk
  <2>3. phase' \in Phases /\ phase' # "agents"
    BY <2>1 DEF Phases, Early
  <2> QED BY <1>2, <2>1, <2>2, <2>3, StartGoesOn
<1>4. CASE ListAgents
  <2>1. /\ phase = "recovery" /\ phase' = "agents" /\ startFile' = startFile
        /\ pending' = Known /\ phase' \in Phases
    BY <1>4 DEF ListAgents, Phases
  <2>2. pending' \subseteq Agents /\ \A a \in pending' : stored[a] # Missing
    BY <2>1 DEF Known
  <2>3. startFile' \in [StartFiles -> {"absent", "opened", "short", "whole"}]
    BY <1>1, <2>1 DEF DataOk
  <2> QED BY <1>2, <2>1, <2>2, <2>3, StartGoesOn
<1>5. CASE \E f \in StartFiles : CreateFile(f) \/ WriteFile(f) \/ RejectFile(f)
  <2>1. PICK f \in StartFiles : CreateFile(f) \/ WriteFile(f) \/ RejectFile(f)
    BY <1>5
  <2>2. /\ phase \in {"keys", "content"} /\ phase' \in {"keys", "content", "down"}
        /\ pending' = pending
    BY <2>1 DEF CreateFile, WriteFile, RejectFile, LoadedIn
  <2>3. startFile' \in [StartFiles -> {"absent", "opened", "short", "whole"}]
    BY <1>1, <2>1 DEF DataOk, CreateFile, WriteFile, RejectFile, CutShort
  <2>4. pending' \subseteq Agents /\ phase' \in Phases
    BY <1>1, <2>2 DEF DataOk, Phases, Early
  <2> QED BY <1>2, <2>2, <2>3, <2>4, StartGoesOn
<1> QED BY <1>3, <1>4, <1>5

LEMMA InstallDemoAuthorityKeeps ==
  ASSUME IInv, InstallDemoAuthority
  PROVE  IInv'
<1>1. /\ TypeOK /\ DataOk /\ AgentsOk /\ RemovedOk /\ StartOk
      /\ phase # "serving" /\ phase' = "recovery" /\ DemoAgent \in Agents
      /\ UNCHANGED <<stored, directory, agentsMd, client, archives, startFile, job,
                     pending, accepted, removed, calls, failures, crashes>>
  BY WorkspacesAssumption DEF IInv, TypeOK, InstallDemoAuthority, files, bounds
<1>2. /\ authority' \in [Agents -> {"none", "active", "revoked"}]
      /\ \A a \in Agents : authority[a] # "none" => authority'[a] = authority[a]
  BY <1>1 DEF InstallDemoAuthority, DataOk
<1>3. DataOk'
  BY <1>1, <1>2 DEF DataOk, Phases, Early
<1>4. Monotone /\ \A a \in Agents : Housed(a)' = Housed(a)
  BY <1>1, <1>2 DEF Monotone, Housed
<1>5. AgentsOk'
  BY <1>1, <1>2, <1>4 DEF AgentsOk
<1>6. RemovedOk'
  BY <1>1, <1>2 DEF RemovedOk, DataOk
<1>7. StartOk'
  BY <1>1 DEF StartOk
<1>8. \A p \in Procs : JobOk(p)'
  <2>1. SUFFICES ASSUME NEW p \in Procs PROVE JobOk(p)'
    OBVIOUS
  <2>2. JobOk(p) /\ job[p] \in Jobs /\ job'[p] = job[p]
    BY <1>1 DEF IInv, TypeOK
  <2> QED BY <1>4, <2>2, OthersKeep
<1>9. job' \in [Procs -> Jobs]
  BY <1>1 DEF TypeOK
<1> QED BY <1>3, <1>5, <1>6, <1>7, <1>8, <1>9 DEF IInv, TypeOK

LEMMA CrashKeeps ==
  ASSUME IInv, Crash
  PROVE  IInv'
<1>1. /\ DataOk /\ phase' = "down" /\ job' = [p \in Procs |-> Idle] /\ pending' = {}
      /\ startFile' = CutShort /\ crashes' = crashes + 1
      /\ UNCHANGED <<stored, authority, directory, archives, agentsMd, client,
                     accepted, removed, calls, failures>>
  BY DEF IInv, TypeOK, Crash, files
<1>2. AgentsOk' /\ RemovedOk'
  BY <1>1, DataStays
<1>3. /\ job' \in [Procs -> Jobs] /\ \A p \in Procs : job'[p] = Idle
  BY <1>1, IdleOk
<1>4. \A p \in Procs : JobOk(p)'
  BY <1>3, IdleOk
<1>5. StartOk'
  <2>1. Server \in Procs /\ Requests \subseteq Procs
    BY DEF Procs
  <2> QED BY <1>1, <1>3, <2>1, IdleOk DEF StartOk
<1>6. startFile' \in [StartFiles -> {"absent", "opened", "short", "whole"}]
  BY <1>1 DEF DataOk, CutShort
<1>7. DataOk'
  BY <1>1, <1>6 DEF DataOk, Phases, Early
<1> QED BY <1>2, <1>3, <1>4, <1>5, <1>7 DEF IInv, TypeOK

LEMMA StepKeeps ==
  ASSUME IInv, NEW p \in Procs, Step(p) \/ StoreFails(p) \/ Receive(p)
  PROVE  IInv'
<1>1. CASE Return(p)
  <2>1. /\ job' = [job EXCEPT ![p] = Idle] /\ phase' = phase
        /\ UNCHANGED <<stored, authority, files, startFile, pending, accepted, removed, bounds>>
    BY <1>1 DEF Return
  <2> QED BY <2>1, GoesIdle
<1>2. CASE MakeDirectory(p) \/ WriteInstructions(p) \/ WriteClient(p) \/ InstallAuthority(p)
  BY <1>2, MakeDirectoryKeeps, WriteInstructionsKeeps, WriteClientKeeps, InstallAuthorityKeeps
<1>3. CASE PushAgent(p) \/ UpdateRecord(p) \/ InstallSuccessor(p) \/ Refused(p)
  BY <1>3, PushAgentKeeps, UpdateRecordKeeps, InstallSuccessorKeeps, RefusedKeeps
<1>4. CASE RetireAgent(p) \/ RevokeAuthority(p) \/ ArchiveWorkspace(p) \/ RemoveAgent(p)
  BY <1>4, RetireAgentKeeps, RevokeAuthorityKeeps, ArchiveWorkspaceKeeps, RemoveAgentKeeps
<1>5. CASE StoreFails(p) \/ Receive(p)
  BY <1>5, StoreFailsKeeps, ReceiveKeeps
<1> QED BY <1>1, <1>2, <1>3, <1>4, <1>5 DEF Step

LEMMA StartKeeps ==
  ASSUME IInv, Start
  PROVE  IInv'
<1>1. CASE Listen
  <2>1. /\ job' = [job EXCEPT ![Server] = Idle] /\ phase' = "serving"
        /\ UNCHANGED <<stored, authority, files, startFile, pending, accepted, removed, bounds>>
        /\ Server \in Procs
    BY <1>1 DEF Listen, Procs
  <2> QED BY <2>1, GoesIdle
<1> QED BY <1>1, EarlyKeep, InstallDemoAuthorityKeeps, EnsureNextKeeps, EnsureDemoKeeps
        DEF Start

LEMMA StutterKeeps ==
  ASSUME IInv, UNCHANGED vars
  PROVE  IInv'
<1>1. /\ TypeOK /\ DataOk /\ StartOk /\ UNCHANGED <<phase, startFile, pending, job>>
      /\ UNCHANGED <<stored, authority, files, accepted, removed, calls, failures, crashes>>
  BY DEF IInv, TypeOK, vars, bounds
<1>2. /\ phase' \in Phases /\ failures' \in Nat
      /\ startFile' \in [StartFiles -> {"absent", "opened", "short", "whole"}]
      /\ pending' \subseteq Agents
      /\ phase' = "agents" => \A a \in pending' : stored[a] # Missing
  BY <1>1 DEF DataOk, StartOk
<1> QED BY <1>1, <1>2, StartGoesOn

LEMMA InitInv ==
  ASSUME Init
  PROVE  IInv
<1>1. \A p \in Procs : job[p] = Idle
  BY DEF Init
<1>2. DataOk
  BY WorkspacesAssumption DEF Init, DataOk, Missing, Phases, Early
<1>3. job \in [Procs -> Jobs]
  BY IdleOk DEF Init
<1>4. AgentsOk /\ RemovedOk
  BY DEF Init, AgentsOk, RemovedOk
<1>5. StartOk
  <2>1. Server \in Procs /\ Requests \subseteq Procs
    BY DEF Procs
  <2> QED BY <1>1, <2>1, IdleOk DEF Init, StartOk
<1>6. ASSUME NEW p \in Procs PROVE JobOk(p)
  <2>1. job[p].kind = "idle" /\ job[p].todo = <<>>
    BY <1>1 DEF Idle
  <2> QED BY <2>1 DEF JobOk
<1> QED BY <1>2, <1>3, <1>4, <1>5, <1>6 DEF IInv, TypeOK

-----------------------------------------------------------------------------
(* What the start repairs *)

Repaired(a) == directory[a] /\ agentsMd[a] = stored[a] /\ client[a]

\* The work left before the directory, AGENTS.md and the client are in place.
BeforeDirectory == {<<"authority", "directory", "agentsMd", "client">>,
                    <<"directory", "agentsMd", "client">>,
                    <<"directory", "agentsMd", "client", "authority", "push">>}
BeforeInstructions == BeforeDirectory \cup {<<"agentsMd", "client">>,
                                            <<"agentsMd", "client", "authority", "push">>}
BeforeClient == BeforeInstructions \cup {<<"client">>, <<"client", "authority", "push">>}

\* What the start has made for the Agent it is looking at.
ServerMade ==
  LET a == job[Server].agent
      version == job[Server].version
      todo == job[Server].todo
  IN job[Server].kind # "idle" =>
       /\ todo \notin BeforeDirectory => directory[a]
       /\ todo \notin BeforeInstructions => agentsMd[a] = version
       /\ todo \notin BeforeClient => client[a]
       /\ IF job[Server].kind = "create" /\ todo # <<>>
            THEN stored[a] = Missing
            ELSE stored[a] = version

\* Every Agent that the start has dealt with is repaired, or is the one it looks at.
RepairOk ==
  /\ phase \in Early => job[Server].kind = "idle"
  /\ phase \in {"agents", "demo"} =>
       /\ ServerMade
       /\ \A a \in Agents : stored[a] # Missing =>
            a \in pending \/ Repaired(a) \/ (job[Server].kind # "idle" /\ job[Server].agent = a)
  /\ phase = "demo" => pending = {}

\* The order in which the start does its work
LEMMA StartOrder ==
  ASSUME NEW todo \in CreateRest \cup EnsureRest, todo # <<>>,
         NEW step, step = Head(todo), NEW rest, rest = Tail(todo)
  PROVE  /\ step \in {"directory", "agentsMd", "client", "authority", "push"}
         /\ rest \notin BeforeDirectory => step = "directory" \/ todo \notin BeforeDirectory
         /\ rest \notin BeforeInstructions =>
              step = "agentsMd" \/ todo \notin BeforeInstructions
         /\ rest \notin BeforeClient => step = "client" \/ todo \notin BeforeClient
         /\ todo \in CreateRest => (rest = <<>> <=> step = "push")
         /\ todo \in EnsureRest => step # "push"
<1>1. CASE todo = <<"directory", "agentsMd", "client", "authority", "push">>
  <2>1. step = "directory" /\ rest = <<"agentsMd", "client", "authority", "push">>
    BY <1>1
  <2> QED BY <1>1, <2>1
        DEF BeforeDirectory, BeforeInstructions, BeforeClient, CreateRest, EnsureRest
<1>2. CASE todo = <<"agentsMd", "client", "authority", "push">>
  <2>1. step = "agentsMd" /\ rest = <<"client", "authority", "push">>
    BY <1>2
  <2> QED BY <1>2, <2>1
        DEF BeforeDirectory, BeforeInstructions, BeforeClient, CreateRest, EnsureRest
<1>3. CASE todo = <<"client", "authority", "push">>
  <2>1. step = "client" /\ rest = <<"authority", "push">>
    BY <1>3
  <2> QED BY <1>3, <2>1
        DEF BeforeDirectory, BeforeInstructions, BeforeClient, CreateRest, EnsureRest
<1>4. CASE todo = <<"authority", "push">>
  <2>1. step = "authority" /\ rest = <<"push">>
    BY <1>4
  <2> QED BY <1>4, <2>1
        DEF BeforeDirectory, BeforeInstructions, BeforeClient, CreateRest, EnsureRest
<1>5. CASE todo = <<"push">>
  <2>1. step = "push" /\ rest = <<>>
    BY <1>5
  <2> QED BY <1>5, <2>1
        DEF BeforeDirectory, BeforeInstructions, BeforeClient, CreateRest, EnsureRest
<1>6. CASE todo = <<"authority", "directory", "agentsMd", "client">>
  <2>1. step = "authority" /\ rest = <<"directory", "agentsMd", "client">>
    BY <1>6
  <2> QED BY <1>6, <2>1
        DEF BeforeDirectory, BeforeInstructions, BeforeClient, CreateRest, EnsureRest
<1>7. CASE todo = <<"directory", "agentsMd", "client">>
  <2>1. step = "directory" /\ rest = <<"agentsMd", "client">>
    BY <1>7
  <2> QED BY <1>7, <2>1
        DEF BeforeDirectory, BeforeInstructions, BeforeClient, CreateRest, EnsureRest
<1>8. CASE todo = <<"agentsMd", "client">>
  <2>1. step = "agentsMd" /\ rest = <<"client">>
    BY <1>8
  <2> QED BY <1>8, <2>1
        DEF BeforeDirectory, BeforeInstructions, BeforeClient, CreateRest, EnsureRest
<1>9. CASE todo = <<"client">>
  <2>1. step = "client" /\ rest = <<>>
    BY <1>9
  <2> QED BY <1>9, <2>1
        DEF BeforeDirectory, BeforeInstructions, BeforeClient, CreateRest, EnsureRest
<1> QED BY <1>1, <1>2, <1>3, <1>4, <1>5, <1>6, <1>7, <1>8, <1>9 DEF CreateRest, EnsureRest

\* The handlers of requests have nothing to do before the server listens.
LEMMA OnlyTheServer ==
  ASSUME IInv, phase # "serving", NEW p \in Procs, NEW step, On(p, step)
  PROVE  p = Server
<1>1. SUFFICES ASSUME p \in Requests PROVE FALSE
  BY DEF Procs
<1>2. job[p].kind = "idle" /\ JobOk(p)
  BY <1>1 DEF IInv, StartOk
<1> QED BY <1>2 DEF JobOk, On

\* A step of the start adds to what it has made.
LEMMA ServerMoves ==
  ASSUME IInv, RepairOk, phase \in {"agents", "demo"},
         NEW step, On(Server, step), job' = Left(Server),
         phase' = phase, pending' = pending, NEW a \in Agents, a = job[Server].agent,
         directory[a] => directory'[a], step = "directory" => directory'[a],
         agentsMd'[a] = IF step = "agentsMd" THEN job[Server].version ELSE agentsMd[a],
         client[a] => client'[a], step = "client" => client'[a],
         stored'[a] = IF step = "push" THEN job[Server].version ELSE stored[a],
         \A b \in Agents : b # a => /\ Repaired(b) => Repaired(b)'
                                   /\ stored'[b] = stored[b]
  PROVE  RepairOk'
<1>1. /\ Server \in Procs /\ TypeOK /\ JobOk(Server) /\ StartOk
      /\ job[Server] \in Jobs /\ job \in [Procs -> Jobs]
  BY DEF IInv, TypeOK, Procs
<1>2. PICK todo, rest, version : todo = job[Server].todo /\ rest = Tail(todo)
                                 /\ version = job[Server].version
  OBVIOUS
<1>3. /\ todo # <<>> /\ step = Head(todo)
      /\ job[Server].kind \in {"create", "ensure"}
      /\ job[Server].kind = "create" => todo \in CreateRest
      /\ job[Server].kind = "ensure" => todo \in EnsureRest
  BY <1>1, <1>2 DEF On, JobOk, StartOk
<1>4. /\ rest \notin BeforeDirectory => step = "directory" \/ todo \notin BeforeDirectory
      /\ rest \notin BeforeInstructions => step = "agentsMd" \/ todo \notin BeforeInstructions
      /\ rest \notin BeforeClient => step = "client" \/ todo \notin BeforeClient
      /\ job[Server].kind = "create" => (rest = <<>> <=> step = "push")
      /\ job[Server].kind = "ensure" => step # "push"
  BY <1>2, <1>3, StartOrder
<1>5. /\ job'[Server].kind = job[Server].kind /\ job'[Server].agent = a
      /\ job'[Server].version = version /\ job'[Server].todo = rest
  <2>1. job' = [job EXCEPT ![Server].todo = rest]
    BY <1>2 DEF Left
  <2>2. job'[Server] = [job[Server] EXCEPT !.todo = rest]
    BY <1>1, <2>1
  <2> QED BY <1>1, <1>2, <2>2 DEF Jobs
<1>6. /\ todo \notin BeforeDirectory => directory[a]
      /\ todo \notin BeforeInstructions => agentsMd[a] = version
      /\ todo \notin BeforeClient => client[a]
      /\ IF job[Server].kind = "create" THEN stored[a] = Missing ELSE stored[a] = version
  BY <1>2, <1>3 DEF RepairOk, ServerMade
<1>7. rest \notin BeforeDirectory => directory'[a]
  BY <1>4, <1>6
<1>8. rest \notin BeforeInstructions => agentsMd'[a] = version
  BY <1>2, <1>4, <1>6
<1>9. rest \notin BeforeClient => client'[a]
  BY <1>4, <1>6
<1>10. IF job[Server].kind = "create" /\ rest # <<>> THEN stored'[a] = Missing
                                                     ELSE stored'[a] = version
  BY <1>2, <1>3, <1>4, <1>6
<1>11. ServerMade'
  BY <1>5, <1>7, <1>8, <1>9, <1>10 DEF ServerMade
<1>12. ASSUME NEW b \in Agents, stored'[b] # Missing
       PROVE  \/ b \in pending' \/ Repaired(b)'
              \/ (job'[Server].kind # "idle" /\ job'[Server].agent = b)
  <2>1. CASE b = a
    BY <1>3, <1>5, <2>1
  <2>2. CASE b # a
    <3>1. stored[b] # Missing
      BY <1>12, <2>2
    <3>2. b \in pending \/ Repaired(b)
      BY <2>2, <3>1 DEF RepairOk
    <3> QED BY <2>2, <3>2
  <2> QED BY <2>1, <2>2
<1> QED BY <1>11, <1>12 DEF RepairOk, Early

\* A handler that gives up, and the end of the process, leave no start under way.
LEMMA StartEnds ==
  ASSUME phase' = "down", job' = [p \in Procs |-> Idle]
  PROVE  RepairOk'
<1>1. Server \in Procs /\ job'[Server] = Idle
  BY DEF Procs
<1> QED BY <1>1, IdleOk DEF RepairOk

LEMMA ThrowRepairs ==
  ASSUME IInv, RepairOk, NEW p \in Procs, Throw(p), phase = "serving" \/ p = Server
  PROVE  RepairOk'
<1>1. CASE p = Server
  <2>1. phase' = "down" /\ job' = [q \in Procs |-> Idle]
    BY <1>1 DEF Throw
  <2> QED BY <2>1, StartEnds
<1>2. CASE p # Server
  <2>1. phase' = "serving"
    BY <1>2 DEF Throw
  <2> QED BY <2>1 DEF RepairOk, Early
<1> QED BY <1>1, <1>2

LEMMA StepRepairs ==
  ASSUME IInv, RepairOk, NEW p \in Procs, Step(p) \/ StoreFails(p) \/ Receive(p)
  PROVE  RepairOk'
<1>1. CASE phase = "serving"
  <2>1. \/ phase' = phase
        \/ (phase' = "down" /\ job' = [q \in Procs |-> Idle])
    BY DEF Step, StoreFails, Receive, Throw, MakeDirectory, WriteInstructions, WriteClient,
           InstallAuthority, PushAgent, UpdateRecord, InstallSuccessor, Refused, RetireAgent,
           RevokeAuthority, ArchiveWorkspace, RemoveAgent, Return
  <2>2. CASE phase' = phase
    BY <1>1, <2>2 DEF RepairOk, Early
  <2> QED BY <2>1, <2>2, StartEnds
<1>2. CASE phase # "serving"
  <2>1. ~Receive(p)
    BY <1>2 DEF Receive
  <2>2. CASE Return(p)
    <3>1. /\ p \in Requests /\ job' = [job EXCEPT ![p] = Idle] /\ phase' = phase
          /\ UNCHANGED <<stored, directory, agentsMd, client, pending>>
      BY <2>2 DEF Return, files
    <3>2. job'[Server] = job[Server]
      BY <3>1, WorkspacesAssumption DEF IInv, TypeOK, Procs
    <3> QED BY <3>1, <3>2 DEF RepairOk, ServerMade, Repaired
  <2>3. CASE \E step : On(p, step)
    <3>1. p = Server
      BY <1>2, <2>3, OnlyTheServer
    <3>2. PICK a \in Agents : a = job[Server].agent
      BY <3>1, Parts
    <3>3. DataOk /\ StartOk /\ JobOk(Server) /\ TypeOK
      BY <3>1, Parts
    <3>4. job[Server].kind \in {"create", "ensure"} /\ phase \in {"agents", "demo"}
      <4>1. job[Server].kind # "idle"
        BY <2>3, <3>1, <3>3 DEF JobOk, On
      <4>2. phase \notin Early
        BY <4>1 DEF RepairOk
      <4> QED BY <1>2, <3>3, <4>1, <4>2 DEF StartOk, DataOk, Phases
    <3>5. CASE Throw(p)
      BY <3>1, <3>5, ThrowRepairs
    <3>6. CASE MakeDirectory(p)
      <4>1. /\ On(Server, "directory") /\ job' = Left(Server) /\ phase' = phase
            /\ pending' = pending /\ stored' = stored /\ agentsMd' = agentsMd
            /\ client' = client /\ directory' = [directory EXCEPT ![a] = TRUE]
        BY <3>1, <3>2, <3>6 DEF MakeDirectory
      <4>2. directory'[a] /\ \A b \in Agents : directory[b] => directory'[b]
        BY <3>3, <4>1 DEF DataOk
      <4>3. \A b \in Agents : Repaired(b) => Repaired(b)'
        BY <4>1, <4>2 DEF Repaired
      <4> QED BY <3>2, <3>4, <4>1, <4>2, <4>3, ServerMoves
    <3>7. CASE WriteInstructions(p) /\ ~Throw(p)
      <4>1. /\ On(Server, "agentsMd") /\ job' = Left(Server) /\ phase' = phase
            /\ pending' = pending /\ stored' = stored /\ directory' = directory
            /\ client' = client /\ agentsMd' = [agentsMd EXCEPT ![a] = job[Server].version]
        BY <3>1, <3>2, <3>7 DEF WriteInstructions
      <4>2. /\ agentsMd'[a] = job[Server].version
            /\ \A b \in Agents : b # a => agentsMd'[b] = agentsMd[b]
        BY <3>3, <4>1 DEF DataOk
      <4>3. \A b \in Agents : b # a => (Repaired(b) => Repaired(b)')
        BY <4>1, <4>2 DEF Repaired
      <4> QED BY <3>2, <3>4, <4>1, <4>2, <4>3, ServerMoves
    <3>8. CASE WriteClient(p) /\ ~Throw(p)
      <4>1. /\ On(Server, "client") /\ job' = Left(Server) /\ phase' = phase
            /\ pending' = pending /\ stored' = stored /\ directory' = directory
            /\ agentsMd' = agentsMd /\ client' = [client EXCEPT ![a] = TRUE]
        BY <3>1, <3>2, <3>8 DEF WriteClient
      <4>2. client'[a] /\ \A b \in Agents : client[b] => client'[b]
        BY <3>3, <4>1 DEF DataOk
      <4>3. \A b \in Agents : Repaired(b) => Repaired(b)'
        BY <4>1, <4>2 DEF Repaired
      <4> QED BY <3>2, <3>4, <4>1, <4>2, <4>3, ServerMoves
    <3>9. CASE InstallAuthority(p)
      <4>1. /\ On(Server, "authority") /\ job' = Left(Server)
            /\ UNCHANGED <<phase, pending, stored, directory, agentsMd, client>>
        BY <3>1, <3>9 DEF InstallAuthority, files
      <4>2. \A b \in Agents : Repaired(b) => Repaired(b)'
        BY <4>1 DEF Repaired
      <4> QED BY <3>2, <3>4, <4>1, <4>2, ServerMoves
    <3>10. CASE PushAgent(p)
      <4>1. /\ On(Server, "push") /\ job' = Left(Server)
            /\ stored' = [stored EXCEPT ![a] = job[Server].version]
            /\ UNCHANGED <<phase, pending, directory, agentsMd, client>>
        BY <3>1, <3>2, <3>10 DEF PushAgent, files
      <4>2. /\ stored'[a] = job[Server].version
            /\ \A b \in Agents : b # a => stored'[b] = stored[b]
        BY <3>3, <4>1 DEF DataOk
      <4>3. \A b \in Agents : b # a => (Repaired(b) => Repaired(b)')
        BY <4>1, <4>2 DEF Repaired
      <4> QED BY <3>2, <3>4, <4>1, <4>2, <4>3, ServerMoves
    <3>11. ASSUME NEW step, On(Server, step)
           PROVE  step \notin {"update", "succeed", "retire", "revoke", "archive", "remove"}
      <4>1. PICK todo : todo = job[Server].todo
        OBVIOUS
      <4>2. todo \in CreateRest \cup EnsureRest /\ todo # <<>> /\ step = Head(todo)
        BY <3>3, <3>4, <3>11, <4>1 DEF JobOk, On
      <4>3. PICK rest : rest = Tail(todo)
        OBVIOUS
      <4>4. step \in {"directory", "agentsMd", "client", "authority", "push"}
        BY <4>2, <4>3, StartOrder
      <4> QED BY <4>4
    <3>12. ~(\/ UpdateRecord(p) \/ InstallSuccessor(p) \/ RetireAgent(p)
             \/ RevokeAuthority(p) \/ ArchiveWorkspace(p) \/ RemoveAgent(p))
      BY <3>1, <3>11 DEF UpdateRecord, InstallSuccessor, RetireAgent, RevokeAuthority,
                         ArchiveWorkspace, RemoveAgent
    <3>13. Refused(p) \/ StoreFails(p) => Throw(p)
      BY DEF Refused, StoreFails
    <3> QED BY <2>1, <2>2, <3>5, <3>6, <3>7, <3>8, <3>9, <3>10, <3>12, <3>13 DEF Step
  <2>4. Step(p) \/ StoreFails(p) => Return(p) \/ \E step : On(p, step)
    BY DEF Step, StoreFails, Mutating, MakeDirectory, WriteInstructions, WriteClient,
           InstallAuthority, PushAgent, UpdateRecord, InstallSuccessor, Refused, RetireAgent,
           RevokeAuthority, ArchiveWorkspace, RemoveAgent
  <2> QED BY <2>1, <2>2, <2>3, <2>4
<1> QED BY <1>1, <1>2

LEMMA StartRepairOk ==
  ASSUME IInv, RepairOk, Start
  PROVE  RepairOk'
<1>1. /\ Server \in Procs /\ TypeOK /\ DataOk /\ StartOk /\ JobOk(Server)
      /\ job \in [Procs -> Jobs]
      /\ UNCHANGED <<stored, directory, agentsMd, client>>
  BY DEF IInv, TypeOK, Procs, Start, Boot, KeysLoaded, InstallDemoAuthority, ListAgents,
         EnsureNext, EnsureDemo, Listen, CreateFile, WriteFile, RejectFile, files
<1>2. CASE \/ Boot \/ KeysLoaded \/ InstallDemoAuthority
           \/ \E f \in StartFiles : CreateFile(f) \/ WriteFile(f) \/ RejectFile(f)
  <2>1. phase \in Early /\ phase' \in Early /\ job' = job
    BY <1>2 DEF Boot, KeysLoaded, InstallDemoAuthority, CreateFile, WriteFile, RejectFile,
                LoadedIn, Early
  <2>2. phase' \notin {"agents", "demo"}
    BY <2>1 DEF Early
  <2> QED BY <2>1, <2>2 DEF RepairOk
<1>3. CASE ListAgents
  <2>1. phase \in Early /\ phase' = "agents" /\ job' = job /\ pending' = Known
    BY <1>3 DEF ListAgents, Early
  <2>2. job'[Server].kind = "idle" /\ phase' \notin Early
    BY <2>1 DEF RepairOk, Early
  <2> QED BY <1>1, <2>1, <2>2 DEF RepairOk, ServerMade, Known
<1>4. CASE Listen
  <2>1. phase' = "serving"
    BY <1>4 DEF Listen
  <2> QED BY <2>1 DEF RepairOk, Early
<1>5. CASE EnsureNext \/ EnsureDemo
  <2>1. phase = "agents" /\ job[Server].todo = <<>>
    BY <1>5 DEF EnsureNext, EnsureDemo
  <2>2. \A a \in Agents : stored[a] # Missing => a \in pending \/ Repaired(a)
    <3>1. SUFFICES ASSUME NEW a \in Agents, stored[a] # Missing, a \notin pending,
                          job[Server].kind # "idle", job[Server].agent = a
                   PROVE  Repaired(a)
      BY <2>1 DEF RepairOk
    <3>2. /\ <<>> \notin BeforeDirectory /\ <<>> \notin BeforeInstructions
          /\ <<>> \notin BeforeClient
      BY DEF BeforeDirectory, BeforeInstructions, BeforeClient
    <3>3. /\ directory[a] /\ agentsMd[a] = job[Server].version /\ client[a]
          /\ stored[a] = job[Server].version
      BY <2>1, <3>1, <3>2 DEF RepairOk, ServerMade
    <3> QED BY <3>3 DEF Repaired
  <2>3. PICK kind \in {"create", "ensure"}, a \in Agents, version \in 0 .. MaxVersion :
          /\ Begin(Server, kind, a, version)
          /\ IF kind = "create" THEN stored[a] = Missing ELSE stored[a] = version
          /\ phase' = "agents" \/ (phase' = "demo" /\ pending' = {} /\ pending = {})
          /\ pending' = pending \ {a}
    <3>1. CASE EnsureNext
      <4>1. PICK a \in pending : /\ Begin(Server, "ensure", a, stored[a])
                                 /\ pending' = pending \ {a}
        BY <3>1 DEF EnsureNext
      <4>2. a \in Agents /\ stored[a] \in 0 .. MaxVersion /\ phase' = "agents"
        BY <1>1, <2>1, <3>1, <4>1 DEF EnsureNext, DataOk
      <4> QED BY <4>1, <4>2
    <3>2. CASE EnsureDemo
      <4>1. /\ DemoAgent \in Agents /\ stored[DemoAgent] \in 0 .. MaxVersion
            /\ 1 \in 0 .. MaxVersion
        BY <1>1, WorkspacesAssumption DEF DataOk
      <4>2. phase' = "demo" /\ pending = {} /\ pending' = {}
        BY <3>2 DEF EnsureDemo
      <4>3. CASE DemoAgent \in Known
        BY <3>2, <4>1, <4>2, <4>3 DEF EnsureDemo
      <4>4. CASE DemoAgent \notin Known
        BY <3>2, <4>1, <4>2, <4>4 DEF EnsureDemo, Known
      <4> QED BY <4>3, <4>4
    <3> QED BY <1>5, <3>1, <3>2
  <2>4. PICK todo : todo = Plan[kind]
    OBVIOUS
  <2>5. /\ todo \in BeforeDirectory /\ todo # <<>>
        /\ BeforeDirectory \subseteq BeforeInstructions
        /\ BeforeInstructions \subseteq BeforeClient
    <3>1. todo \in BeforeDirectory
      BY <2>4, PlanFacts DEF BeforeDirectory
    <3>2. <<>> \notin BeforeDirectory
      BY DEF BeforeDirectory
    <3> QED BY <3>1, <3>2 DEF BeforeInstructions, BeforeClient
  <2>6. job'[Server] = [kind |-> kind, agent |-> a, version |-> version, todo |-> todo]
    BY <1>1, <2>3, <2>4 DEF Begin
  <2>7. /\ job'[Server].kind = kind /\ job'[Server].agent = a
        /\ job'[Server].version = version /\ job'[Server].todo = todo /\ kind # "idle"
    BY <2>6
  <2>8. ServerMade'
    BY <1>1, <2>3, <2>5, <2>7 DEF ServerMade
  <2>9. ASSUME NEW b \in Agents, stored'[b] # Missing
        PROVE  \/ b \in pending' \/ Repaired(b)'
               \/ (job'[Server].kind # "idle" /\ job'[Server].agent = b)
    BY <1>1, <2>2, <2>3, <2>7, <2>9 DEF Repaired
  <2> QED BY <2>3, <2>8, <2>9 DEF RepairOk, Early
<1> QED BY <1>2, <1>3, <1>4, <1>5 DEF Start

\* Nothing is pending, and the start has finished with the Agent it looked at last.
LEMMA ListenRepairs ==
  ASSUME IInv, RepairOk, [Next]_vars
  PROVE  StartRepairs
<1>1. SUFFICES ASSUME phase # "serving", phase' = "serving"
               PROVE  \A a \in Known' : /\ directory'[a] /\ agentsMd'[a] = stored'[a]
                                        /\ client'[a]
  BY DEF StartRepairs
<1>2. Listen
  BY <1>1 DEF Next, vars, Start, Boot, KeysLoaded, InstallDemoAuthority, ListAgents,
              InitializeFails, EnsureNext, EnsureDemo, CreateFile, WriteFile, RejectFile,
              Crash, Step, StoreFails, Receive, Throw, MakeDirectory,
              WriteInstructions, WriteClient, InstallAuthority, PushAgent, UpdateRecord,
              InstallSuccessor, Refused, RetireAgent, RevokeAuthority, ArchiveWorkspace,
              RemoveAgent, Return
<1>3. /\ phase = "demo" /\ job[Server].todo = <<>>
      /\ UNCHANGED <<stored, directory, agentsMd, client>>
  BY <1>2 DEF Listen, files
<1>4. SUFFICES ASSUME NEW a \in Agents, stored[a] # Missing PROVE Repaired(a)
  BY <1>3 DEF Known, Repaired
<1>5. Repaired(a) \/ (job[Server].kind # "idle" /\ job[Server].agent = a)
  BY <1>3, <1>4 DEF RepairOk
<1>6. CASE job[Server].kind # "idle" /\ job[Server].agent = a
  <2>1. /\ <<>> \notin BeforeDirectory /\ <<>> \notin BeforeInstructions
        /\ <<>> \notin BeforeClient
    BY DEF BeforeDirectory, BeforeInstructions, BeforeClient
  <2>2. /\ directory[a] /\ agentsMd[a] = job[Server].version /\ client[a]
        /\ stored[a] = job[Server].version
    BY <1>3, <1>6, <2>1 DEF RepairOk, ServerMade
  <2> QED BY <2>2 DEF Repaired
<1> QED BY <1>5, <1>6

-----------------------------------------------------------------------------
(* The theorems *)

\* The invariant behind the properties: every reachable state satisfies it, for any
\* Agents, requests, versions, failures and crashes.
THEOREM WorkspacesInvariant == Spec => []IInv
<1>1. Init => IInv
  BY InitInv
<1>2. IInv /\ [Next]_vars => IInv'
  <2>1. SUFFICES ASSUME IInv, [Next]_vars PROVE IInv'
    OBVIOUS
  <2>2. CASE Start
    BY <2>1, <2>2, StartKeeps
  <2>3. CASE InitializeFails \/ Crash
    BY <2>1, <2>3, EarlyKeep, CrashKeeps
  <2>4. CASE \E p \in Procs : Step(p) \/ StoreFails(p) \/ Receive(p)
    BY <2>1, <2>4, StepKeeps
  <2>5. CASE UNCHANGED vars
    BY <2>1, <2>5, StutterKeeps
  <2> QED BY <2>1, <2>2, <2>3, <2>4, <2>5 DEF Next
<1> QED BY <1>1, <1>2, PTL DEF Spec

\* An Agent in the store has an authority record, and a workspace unless a deletion
\* has archived it, whatever requests overlap, fail or are cut short (createAgent
\* stores the Agent last, deleteAgent removes it last).
THEOREM StoredAgentIsWholeHolds == Spec => []StoredAgentIsWhole
<1>1. IInv => StoredAgentIsWhole
  BY DEF IInv, AgentsOk, StoredAgentIsWhole, Known, Housed
<1> QED BY <1>1, WorkspacesInvariant, PTL

\* The Mandate of a deleted Agent is never in force again, whichever requests
\* overlapped the deletion (deleteAgent retires the Agent before it removes it).
THEOREM DeletedAgentHasNoAuthorityHolds == Spec => []DeletedAgentHasNoAuthority
<1>1. IInv => DeletedAgentHasNoAuthority
  BY DEF IInv, RemovedOk, DeletedAgentHasNoAuthority
<1> QED BY <1>1, WorkspacesInvariant, PTL

\* AGENTS.md of a stored Agent holds a configuration that the store has accepted
\* (updateAgent writes the file after the mutation).
THEOREM InstructionsWereAcceptedHolds == Spec => []InstructionsWereAccepted
<1>1. IInv => InstructionsWereAccepted
  BY DEF IInv, AgentsOk, InstructionsWereAccepted, Known
<1> QED BY <1>1, WorkspacesInvariant, PTL

\* Whenever the server begins to serve, every stored Agent has its workspace with the
\* current configuration and the client, whatever was left behind (initialize looks at
\* every Agent before the server listens, and no request is under way meanwhile).
THEOREM StartsRepairHolds == Spec => StartsRepair
<1>1. Init => RepairOk
  BY IdleOk DEF Init, RepairOk, Procs
<1>2. IInv /\ RepairOk /\ [Next]_vars => RepairOk'
  <2>1. SUFFICES ASSUME IInv, RepairOk, [Next]_vars PROVE RepairOk'
    OBVIOUS
  <2>2. CASE Start
    BY <2>1, <2>2, StartRepairOk
  <2>3. CASE InitializeFails
    <3>1. phase \in Early /\ phase' = "down" /\ job' = job
      BY <2>3 DEF InitializeFails, Early
    <3> QED BY <2>1, <3>1 DEF RepairOk, Early
  <2>6. CASE Crash
    BY <2>6, StartEnds DEF Crash
  <2>4. CASE \E p \in Procs : Step(p) \/ StoreFails(p) \/ Receive(p)
    BY <2>1, <2>4, StepRepairs
  <2>5. CASE UNCHANGED vars
    BY <2>1, <2>5 DEF RepairOk, ServerMade, Repaired, vars, files
  <2> QED BY <2>1, <2>2, <2>3, <2>4, <2>5, <2>6 DEF Next
<1>3. IInv /\ RepairOk /\ [Next]_vars => [StartRepairs]_vars
  BY ListenRepairs
<1> QED BY <1>1, <1>2, <1>3, WorkspacesInvariant, PTL DEF Spec, StartsRepair

=============================================================================
