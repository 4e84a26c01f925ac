----------------------------- MODULE WebClient -----------------------------
(***************************************************************************)
(* One browser tab of the web client (apps/web/src/App.tsx) and the HTTP   *)
(* surface it talks to (apps/server/src/app.ts).                           *)
(*                                                                         *)
(* The tab keeps React state: the session, the listed Agents, the selected *)
(* Agent and what is shown of it.  Every request is sent, handled by the   *)
(* server and applied by the tab in separate steps, and the requests of    *)
(* different callbacks overlap: the load that follows a change of the      *)
(* selection, the evidence interval, the poller of each Run, and the       *)
(* handlers of the buttons.  A request or its answer may be lost, and the  *)
(* Human session may expire.                                               *)
(*                                                                         *)
(* The lists of messages and Runs are left out: they are set like the      *)
(* evidence, under the same comparison with selectedIdRef.                 *)
(***************************************************************************)
EXTENDS Naturals, Functions

CONSTANTS
  Agents,        \* the Agents of Alice, positive numbers
  SeededAgent,   \* DEMO_AGENT_ID
  Statuses,      \* what the other Agents may be when the page is opened
  Nothing,       \* null
  Timers,        \* concurrent evidence refreshes of the interval
  Loads,         \* concurrent loads of the selection effect
  Kinds,         \* the buttons Alice uses besides signing in
  MaxRuns,       \* Runs per Agent
  MaxEvents,     \* audited events per Mandate
  MaxSelects,    \* clicks on an Agent
  MaxCalls,      \* clicks on the buttons, the sign-in included
  MaxFailures    \* lost requests and expiries of the session

NoAgent == 0

Slots == {"sessionBusy", "busy", "revoking", "resetting"}
Load(l) == <<"load", l>>
Timer(t) == <<"timer", t>>
Click(s) == <<"click", s>>
Send(a) == <<"send", a>>
Poll(a, n) == <<"poll", a, n>>

Procs == {Load(l) : l \in Loads} \cup {Timer(t) : t \in Timers}
           \cup {Click(s) : s \in Slots} \cup {Send(a) : a \in Agents}
           \cup {Poll(a, n) : a \in Agents, n \in 1 .. MaxRuns}

\* The requests that read; "evidence" stands for the pair of requests that
\* refreshSecurityAndAudit sends and waits for together.
Reads == {"evidence", "runs", "run", "agents"}

ASSUME ClientAssumption ==
  /\ Agents \subseteq Nat \ {NoAgent} /\ SeededAgent \in Agents
  /\ Statuses \subseteq {"unborn", "ready", "stopped", "busy"}
  /\ Kinds \subseteq {"create", "save", "stop", "start", "delete", "revoke",
                      "rehearse", "send", "signOut"}
  /\ MaxRuns \in Nat /\ MaxEvents \in Nat /\ MaxSelects \in Nat
  /\ MaxCalls \in Nat /\ MaxFailures \in Nat

VARIABLES
  status,      \* server: an Agent is unborn, ready, busy, stopped or deleted
  lastRun,     \* server: Runs reserved for an Agent
  earlier,     \* server: how many of them belong to earlier Mandates
  record,      \* server: the Mandate, whether it is revoked, audited events
  live,        \* server: the cookie of the tab names a session in force
  session, agents, selectedId,                       \* tab: the account
  security, auditEvents, activeRun, evidenceStale,   \* tab: what is shown
  pollingRunIds,            \* tab: the Runs being polled
  sent, answer, rejected,   \* requests under way, answered, failed
  pc,          \* where each callback is, and the Agent or Run it is for
  expected,    \* the authority that a rehearsal was asked to replace
  clicks, calls, failures   \* the bounds used up; sign-outs are failures, too

server == <<status, lastRun, earlier, record, live>>
account == <<session, agents, selectedId>>
evidence == <<security, auditEvents, evidenceStale>>
tab == <<account, evidence, activeRun, pollingRunIds>>
bounds == <<clicks, calls, failures>>
vars == <<server, tab, sent, answer, rejected, pc, expected, bounds>>

----------------------------------------------------------------------------
\* Callbacks and their requests

Idle == [at |-> "idle", for |-> NoAgent]
At(p, places) == pc[p].at \in places
Goto(p, place) == [pc EXCEPT ![p].at = place]
Finish(p) == [pc EXCEPT ![p] = Idle]

\* The Agent a callback is about.
AgentOf(p) == IF p[1] \in {"poll", "send"} THEN p[2] ELSE pc[p].for

Arrived(p, k) == <<p, k>> \in DOMAIN answer
Awaits(p, k) == <<p, k>> \in sent \cup rejected \/ Arrived(p, k)
Rejections(p) == {k \in Reads \cup {"post"} : <<p, k>> \in rejected}

\* The answers when that to k has been given, and those that remain when p has used
\* those to ks.
With(p, k, result) == [x \in DOMAIN answer \cup {<<p, k>>} |->
                         IF x = <<p, k>> THEN result ELSE answer[x]]
Without(p, ks) == Restrict(answer, DOMAIN answer \ ({p} \X ks))

\* A rejection of p is handled.
Caught(p) == /\ Rejections(p) # {}
             /\ rejected' = rejected \ ({p} \X Rejections(p))

----------------------------------------------------------------------------
\* The server

Absent == {"unborn", "deleted"}
Listed(statuses) == {a \in Agents : statuses[a] \notin Absent}

RunIsOpen(a, n) == n = lastRun[a] /\ status[a] = "busy"
RunView(a, n) == [agent |-> a, run |-> n, open |-> RunIsOpen(a, n)]

\* The newest Run that GET /api/agents/:id/runs returns: Runs of earlier
\* Mandates are filtered out.
LatestRun(a) == IF lastRun[a] > earlier[a] THEN RunView(a, lastRun[a]) ELSE Nothing

Evidence(a) == [agent |-> a, version |-> record[a]]

\* requireHuman and the lookup of the Agent, and the content of the answer.
AnswerRead(p, k) ==
  LET a == AgentOf(p) IN
  /\ <<p, k>> \in sent
  /\ sent' = sent \ {<<p, k>>}
  /\ IF live /\ (k # "agents" => status[a] \notin Absent)
       THEN /\ answer' = With(p, k, CASE k = "evidence" -> Evidence(a)
                                      [] k = "runs" -> LatestRun(a)
                                      [] k = "run" -> RunView(a, p[3])
                                      [] k = "agents" -> status)
            /\ UNCHANGED rejected
       ELSE /\ rejected' = rejected \cup {<<p, k>>}
            /\ UNCHANGED answer
  /\ UNCHANGED <<server, tab, pc, expected, bounds>>

\* A mutating request was handled or refused.
Accept(p, result) ==
  /\ answer' = With(p, "post", result)
  /\ UNCHANGED rejected

Refuse(p) ==
  /\ rejected' = rejected \cup {<<p, "post">>}
  /\ UNCHANGED <<answer, server>>

Serve(p) ==
  /\ <<p, "post">> \in sent
  /\ sent' = sent \ {<<p, "post">>}
  /\ UNCHANGED <<tab, pc, expected, clicks, calls>>

\* POST /api/session needs no session; DELETE /api/session does.
ServeSession(p) ==
  /\ At(p, {"signIn", "signOut"}) /\ Serve(p)
  /\ IF live \/ At(p, {"signIn"})
       THEN /\ Accept(p, Nothing)
            /\ live' = At(p, {"signIn"})
            /\ failures' = failures + (IF live' THEN 0 ELSE 1)
            /\ UNCHANGED <<status, lastRun, earlier, record>>
       ELSE Refuse(p) /\ UNCHANGED failures

\* The routes that change an Agent.  A stop or delete ends its open Run.
ServeLifecycle(p) ==
  LET a == pc[p].for
      kind == pc[p].at IN
  /\ At(p, {"create", "start", "stop", "delete", "save"}) /\ Serve(p) /\ UNCHANGED failures
  /\ IF /\ live
        /\ kind = "create" \/ status[a] \notin Absent
        /\ kind \in {"save", "start"} => status[a] # "busy"
       THEN /\ Accept(p, Nothing)
            /\ status' = [status EXCEPT ![a] = CASE kind = "stop" -> "stopped"
                                                 [] kind = "delete" -> "deleted"
                                                 [] kind = "save" -> @
                                                 [] OTHER -> "ready"]
            /\ UNCHANGED <<lastRun, earlier, record, live>>
       ELSE Refuse(p)

ServeSend(a) ==
  /\ Serve(Send(a)) /\ UNCHANGED failures
  /\ IF live /\ status[a] = "ready"
       THEN /\ Accept(Send(a), [agent |-> a, run |-> lastRun[a] + 1, open |-> TRUE])
            /\ lastRun' = [lastRun EXCEPT ![a] = @ + 1]
            /\ status' = [status EXCEPT ![a] = "busy"]
            /\ UNCHANGED <<earlier, record, live>>
       ELSE Refuse(Send(a))

ServeRevoke(p) ==
  LET a == pc[p].for IN
  /\ At(p, {"revoke"}) /\ Serve(p) /\ UNCHANGED failures
  /\ IF live /\ status[a] \notin Absent /\ ~record[a].revoked
       THEN /\ record' = [record EXCEPT ![a].revoked = TRUE]
            /\ Accept(p, [agent |-> a, version |-> record'[a]])
            /\ UNCHANGED <<status, lastRun, earlier, live>>
       ELSE Refuse(p)

\* A rehearsal is refused unless the Mandate and the revision that the tab
\* sent are current (agent-service.ts, startFreshDemoRehearsal).
ServeRehearse(p) ==
  LET a == pc[p].for
      shown == expected.version IN
  /\ At(p, {"rehearse"}) /\ Serve(p) /\ UNCHANGED failures
  /\ IF /\ live /\ a = SeededAgent /\ status[a] # "busy"
        /\ expected.agent = a
        /\ shown.mandate = record[a].mandate /\ shown.revoked = record[a].revoked
       THEN /\ record' = [record EXCEPT ![a] = [mandate |-> @.mandate + 1,
                                                revoked |-> FALSE, events |-> 0]]
            /\ Accept(p, [agent |-> a, version |-> record'[a]])
            /\ status' = [status EXCEPT ![a] = "ready"]
            /\ earlier' = [earlier EXCEPT ![a] = lastRun[a]]
            /\ UNCHANGED <<lastRun, live>>
       ELSE Refuse(p)

----------------------------------------------------------------------------
\* The tab: what the callbacks share

InProgress == activeRun # Nothing /\ activeRun.open

\* The setter of selectedId, and the effect that runs when it has changed: the
\* pane is cleared and the new Agent loaded.  pcs is what the calling step has
\* made of pc.
SetSelected(next, pcs) ==
  /\ selectedId' = next
  /\ IF next = selectedId
       THEN pc' = pcs /\ UNCHANGED <<sent, security, auditEvents, activeRun>>
       ELSE /\ security' = Nothing /\ auditEvents' = Nothing /\ activeRun' = Nothing
            /\ IF next = NoAgent
                 THEN pc' = pcs /\ UNCHANGED sent
                 ELSE \E l \in Loads :
                        /\ pc[Load(l)] = Idle
                        /\ \A m \in Loads : m < l => pc[Load(m)] # Idle
                        /\ pc' = [pcs EXCEPT ![Load(l)] = [at |-> "loading",
                                                           for |-> next]]
                        /\ sent' = sent \cup ({Load(l)} \X {"evidence", "runs"})

\* The Agent that stays or becomes selected when a list arrives: the first of
\* the list is the one updated last, which may be any of them.
Selectable(list) == IF selectedId \in Listed(list) THEN {selectedId}
                    ELSE IF Listed(list) = {} THEN {NoAgent} ELSE Listed(list)

\* refreshAgents, and loadDashboard.  createAgent selects the Agent it has
\* created after it.
AgentsArrive(p) ==
  /\ Arrived(p, "agents")
  /\ agents' = answer[<<p, "agents">>]
  /\ \E next \in IF At(p, {"created"}) THEN {pc[p].for} ELSE Selectable(agents') :
       SetSelected(next, IF p[1] = "poll" THEN pc ELSE Finish(p))
  /\ answer' = Without(p, {"agents"})
  /\ UNCHANGED <<server, session, evidenceStale, pollingRunIds, rejected, expected, bounds>>

\* mutant: whichever Agent is selected by now
EvidenceAlwaysArrives(p) ==
  /\ Arrived(p, "evidence")
  /\ security' = answer[<<p, "evidence">>]
  /\ auditEvents' = answer[<<p, "evidence">>]
  /\ evidenceStale' = FALSE
  /\ answer' = Without(p, {"evidence"})
  /\ UNCHANGED <<server, account, activeRun, rejected, expected, bounds>>
\* mutant: a warning that evidence is stale stays
EvidenceStaysStale(p) ==
  /\ Arrived(p, "evidence")
  /\ IF selectedId = AgentOf(p)
       THEN /\ security' = answer[<<p, "evidence">>]
            /\ auditEvents' = answer[<<p, "evidence">>]
            /\ UNCHANGED evidenceStale
       ELSE UNCHANGED evidence
  /\ answer' = Without(p, {"evidence"})
  /\ UNCHANGED <<server, account, activeRun, rejected, expected, bounds>>
\* refreshSecurityAndAudit applies its answer only if the Agent it asked about
\* is still selected.
EvidenceArrives(p) ==
  /\ Arrived(p, "evidence")
  /\ IF selectedId = AgentOf(p)
       THEN /\ security' = answer[<<p, "evidence">>]
            /\ auditEvents' = answer[<<p, "evidence">>]
            /\ evidenceStale' = FALSE
       ELSE UNCHANGED evidence
  /\ answer' = Without(p, {"evidence"})
  /\ UNCHANGED <<server, account, activeRun, rejected, expected, bounds>>

\* pollRun returns at once for a Run that is being polled.
PollingNow(r) == <<r.agent, r.run>> \in pollingRunIds

StartPoll(r, pcs) ==
  IF PollingNow(r)
    THEN pc' = pcs /\ UNCHANGED <<sent, pollingRunIds>>
    ELSE /\ pc' = [pcs EXCEPT ![Poll(r.agent, r.run)].at = "get"]
         /\ sent' = sent \cup {<<Poll(r.agent, r.run), "run">>}
         /\ pollingRunIds' = pollingRunIds \cup {<<r.agent, r.run>>}

----------------------------------------------------------------------------
\* The effect of a new selection, and the interval

LoadEvidence(p) ==
  /\ EvidenceArrives(p)
  /\ UNCHANGED <<pc, sent, pollingRunIds>>

\* mutant: the newest Run is shown and never polled
LoadShows(p) ==
  /\ At(p, {"loading"}) /\ Arrived(p, "runs") /\ ~Awaits(p, "evidence")
  /\ activeRun' = IF selectedId = pc[p].for THEN answer[<<p, "runs">>] ELSE activeRun
  /\ pc' = Finish(p)
  /\ answer' = Without(p, {"runs"})
  /\ UNCHANGED <<server, account, evidence, pollingRunIds, sent, rejected, expected, bounds>>
\* All parts are in: the newest Run is shown and, if it is open, polled.
LoadJoins(p) ==
  LET latest == answer[<<p, "runs">>] IN
  /\ At(p, {"loading"}) /\ Arrived(p, "runs") /\ ~Awaits(p, "evidence")
  /\ IF selectedId # pc[p].for
       THEN pc' = Finish(p) /\ UNCHANGED <<activeRun, sent, pollingRunIds>>
       ELSE /\ activeRun' = latest
            /\ IF latest # Nothing /\ latest.open
                 THEN StartPoll(latest, Finish(p))
                 ELSE pc' = Finish(p) /\ UNCHANGED <<sent, pollingRunIds>>
  /\ answer' = Without(p, {"runs"})
  /\ UNCHANGED <<server, account, evidence, rejected, expected, bounds>>

\* The first failure shows an error; the other part still arrives.
LoadRejected(p) ==
  /\ Caught(p)
  /\ pc' = Goto(p, "failed")
  /\ UNCHANGED <<server, tab, sent, answer, expected, bounds>>

LoadGivenUp(p) ==
  /\ At(p, {"failed"}) /\ ~Awaits(p, "evidence")
  /\ <<p, "runs">> \notin sent \cup rejected
  /\ pc' = Finish(p)
  /\ answer' = Without(p, {"runs"})
  /\ UNCHANGED <<server, tab, sent, rejected, expected, bounds>>

\* setInterval: set anew for each selected Agent, it does not wait for the
\* refresh before.
Tick(p) ==
  /\ pc[p] = Idle /\ selectedId # NoAgent
  /\ pc' = [pc EXCEPT ![p] = [at |-> "refresh", for |-> selectedId]]
  /\ sent' = sent \cup {<<p, "evidence">>}
  /\ UNCHANGED <<server, tab, answer, rejected, expected, bounds>>

TimerEvidence(p) ==
  /\ EvidenceArrives(p)
  /\ pc' = Finish(p)
  /\ UNCHANGED <<sent, pollingRunIds>>

\* Not guarded by the selection: the refresh may be of an Agent left since.
TimerRejected(p) ==
  /\ Caught(p)
  /\ evidenceStale' = TRUE
  /\ pc' = Finish(p)
  /\ UNCHANGED <<server, account, security, auditEvents, activeRun, pollingRunIds,
                 sent, answer, expected, bounds>>

----------------------------------------------------------------------------
\* pollRun

PollAnswered(p) ==
  LET run == answer[<<p, "run">>] IN
  /\ Arrived(p, "run")
  /\ activeRun' = IF selectedId = AgentOf(p) THEN run ELSE activeRun
  /\ pc' = Goto(p, IF run.open THEN "refresh" ELSE "lastRefresh")
  /\ sent' = sent \cup {<<p, "evidence">>}
  /\ answer' = Without(p, {"run"})
  /\ UNCHANGED <<server, account, evidence, pollingRunIds, rejected, expected, bounds>>

PollEvidence(p) ==
  /\ EvidenceArrives(p)
  /\ CASE At(p, {"refresh"}) ->
            pc' = Goto(p, "get") /\ sent' = sent \cup {<<p, "run">>}
       [] At(p, {"lastRefresh"}) ->
            /\ pc' = Goto(p, "final")
            /\ sent' = sent \cup ({p} \X {"evidence", "agents"})
       [] OTHER -> UNCHANGED <<pc, sent>>
  /\ UNCHANGED pollingRunIds

\* sendMessage awaits the poller it has started.
OwnedBySend(p) == pc[Send(p[2])] = [at |-> "polling", for |-> p[3]]

PollEnds(p) ==
  /\ At(p, {"final"}) /\ \A k \in Reads : ~Awaits(p, k)
  /\ pc' = IF OwnedBySend(p) THEN [Finish(p) EXCEPT ![Send(p[2])] = Idle] ELSE Finish(p)
  /\ pollingRunIds' = pollingRunIds \ {<<p[2], p[3]>>}
  /\ UNCHANGED <<server, account, evidence, activeRun, sent, answer, rejected,
                 expected, bounds>>

\* Any failure ends the poller: the Run is not polled until it is loaded again.
PollRejected(p) ==
  /\ Caught(p)
  /\ IF OwnedBySend(p)
       THEN /\ pc' = [Finish(p) EXCEPT ![Send(p[2])].at = "recover"]
            /\ sent' = sent \cup {<<Send(p[2]), "agents">>}
            /\ activeRun' = Nothing
       ELSE pc' = Finish(p) /\ UNCHANGED <<sent, activeRun>>
  /\ pollingRunIds' = pollingRunIds \ {<<p[2], p[3]>>}
  /\ UNCHANGED <<server, account, evidence, answer, expected, bounds>>

----------------------------------------------------------------------------
\* sendMessage

SendClicked(a) ==
  /\ "send" \in Kinds /\ calls < MaxCalls /\ lastRun[a] < MaxRuns
  /\ session /\ selectedId = a /\ agents[a] \notin {"stopped", "busy"} \cup Absent
  /\ ~InProgress /\ pc[Send(a)] = Idle
  /\ pc' = Goto(Send(a), "post")
  /\ sent' = sent \cup {<<Send(a), "post">>}
  /\ calls' = calls + 1
  /\ UNCHANGED <<server, tab, answer, rejected, expected, clicks, failures>>

SendAnswered(p) ==
  LET run == answer[<<p, "post">>] IN
  /\ Arrived(p, "post")
  /\ activeRun' = IF selectedId = p[2] THEN run ELSE activeRun
  /\ agents' = [agents EXCEPT ![p[2]] = IF @ \in Absent THEN @ ELSE "busy"]
  /\ pc' = [pc EXCEPT ![p] = [at |-> "refresh", for |-> run.run]]
  /\ sent' = sent \cup {<<p, "evidence">>}
  /\ answer' = Without(p, {"post"})
  /\ UNCHANGED <<server, session, selectedId, evidence, pollingRunIds, rejected,
                 expected, bounds>>

\* The evidence is in; the handler goes on to poll the Run.
SendEvidence(p) ==
  LET run == [agent |-> p[2], run |-> pc[p].for] IN
  /\ EvidenceArrives(p)
  /\ StartPoll(run, IF PollingNow(run) THEN Finish(p) ELSE Goto(p, "polling"))

\* The catch clause: no Run is shown any more, whichever Agent is selected.
SendRejected(p) ==
  /\ Caught(p)
  /\ IF At(p, {"recover"})
       THEN pc' = Finish(p) /\ UNCHANGED <<sent, activeRun>>
       ELSE /\ pc' = Goto(p, "recover")
            /\ sent' = sent \cup {<<p, "agents">>}
            /\ activeRun' = Nothing
  /\ UNCHANGED <<server, account, evidence, pollingRunIds, answer, expected, bounds>>

----------------------------------------------------------------------------
\* The other buttons

\* The handler of a button starts with one mutating request about Agent a.
Clicked(slot, kind, a) ==
  /\ calls < MaxCalls /\ pc[Click(slot)] = Idle
  /\ pc' = [pc EXCEPT ![Click(slot)] = [at |-> kind, for |-> a]]
  /\ sent' = sent \cup {<<Click(slot), "post">>}
  /\ calls' = calls + 1
  /\ UNCHANGED <<server, tab, answer, rejected, clicks, failures>>

SelectClicked(a) ==
  /\ session /\ a \in Listed(agents) \ {selectedId} /\ clicks < MaxSelects
  /\ SetSelected(a, pc)
  /\ clicks' = clicks + 1
  /\ UNCHANGED <<server, session, agents, evidenceStale, pollingRunIds, answer,
                 rejected, expected, calls, failures>>

SignInClicked ==
  /\ ~session
  /\ Clicked("sessionBusy", "signIn", NoAgent) /\ UNCHANGED expected

\* The Agents a button is enabled for.
EnabledFor(kind) ==
  LET shown == Listed(agents) \cap {selectedId} IN
  CASE kind = "signOut" -> {NoAgent}
    [] kind = "create" -> {a \in Agents : status[a] = "unborn"}
    [] kind = "save" -> shown
    [] kind = "stop" -> {a \in shown : agents[a] # "stopped"}
    [] kind = "start" -> {a \in shown : agents[a] = "stopped"}
    [] kind = "delete" -> {a \in shown \ {SeededAgent} : agents[a] # "busy"}
    [] OTHER -> {}

BusyClicked(kind) ==
  /\ session
  /\ \E a \in EnabledFor(kind) : Clicked("busy", kind, a)
  /\ UNCHANGED expected

RevokeClicked ==
  /\ "revoke" \in Kinds
  /\ session /\ selectedId \in Listed(agents)
  /\ security # Nothing /\ ~security.version.revoked
  /\ Clicked("revoking", "revoke", selectedId) /\ UNCHANGED expected

\* The Mandate and the revision sent are those shown, of whichever Agent.
RehearseClicked ==
  /\ "rehearse" \in Kinds
  /\ session /\ selectedId \in Listed(agents) \cap {SeededAgent}
  /\ security # Nothing /\ ~InProgress /\ agents[selectedId] # "busy"
  /\ Clicked("resetting", "rehearse", selectedId)
  /\ expected' = security

\* applySession(next); loadDashboard follows.
SignInAnswered(p) ==
  /\ At(p, {"signIn"}) /\ Arrived(p, "post")
  /\ session' = TRUE
  /\ pc' = Goto(p, "dashboard")
  /\ sent' = sent \cup {<<p, "agents">>}
  /\ answer' = Without(p, {"post"})
  /\ UNCHANGED <<server, agents, selectedId, evidence, activeRun, pollingRunIds,
                 rejected, expected, bounds>>

\* applySession(null).
SignOutAnswered(p) ==
  /\ At(p, {"signOut"}) /\ Arrived(p, "post")
  /\ session' = FALSE
  /\ agents' = [a \in Agents |-> "unborn"]
  /\ evidenceStale' = FALSE
  /\ SetSelected(NoAgent, Finish(p))
  /\ answer' = Without(p, {"post"})
  /\ UNCHANGED <<server, pollingRunIds, rejected, expected, bounds>>

\* createAgent, saveAgent, toggleAgent and deleteAgent go on to refreshAgents.
LifecycleAnswered(p) ==
  /\ At(p, {"create", "save", "stop", "start", "delete"}) /\ Arrived(p, "post")
  /\ pc' = Goto(p, IF At(p, {"create"}) THEN "created" ELSE "changed")
  /\ sent' = sent \cup {<<p, "agents">>}
  /\ answer' = Without(p, {"post"})
  /\ UNCHANGED <<server, tab, rejected, expected, bounds>>

\* setSecurity(result.security), whichever Agent is selected by now; a
\* rehearsal also sets its Agent and shows no Run any more.
AuthorityAnswered(p) ==
  /\ At(p, {"revoke", "rehearse"}) /\ Arrived(p, "post")
  /\ security' = answer[<<p, "post">>]
  /\ IF At(p, {"revoke"})
       THEN UNCHANGED <<agents, activeRun, expected>>
       ELSE /\ agents' = [agents EXCEPT ![pc[p].for] = IF @ \in Absent THEN @ ELSE "ready"]
            /\ activeRun' = Nothing
            /\ expected' = Nothing
  /\ pc' = Goto(p, "refresh")
  /\ sent' = sent \cup {<<p, "evidence">>}
  /\ answer' = Without(p, {"post"})
  /\ UNCHANGED <<server, session, selectedId, auditEvents, evidenceStale, pollingRunIds,
                 rejected, bounds>>

AuthorityEvidence(p) ==
  /\ EvidenceArrives(p)
  /\ pc' = Finish(p)
  /\ UNCHANGED <<sent, pollingRunIds>>

\* The catch clause shows the error, and the finally clause frees the button.
ClickRejected(p) ==
  /\ Caught(p)
  /\ pc' = Finish(p)
  /\ expected' = IF p = Click("resetting") THEN Nothing ELSE expected
  /\ UNCHANGED <<server, tab, sent, answer, bounds>>

----------------------------------------------------------------------------
\* What happens without the tab

\* The Gateway audits a request of the Run.
EventRecorded(a) ==
  /\ status[a] = "busy" /\ record[a].events < MaxEvents
  /\ record' = [record EXCEPT ![a].events = @ + 1]
  /\ UNCHANGED <<status, lastRun, earlier, live, tab, sent, answer, rejected, pc,
                 expected, bounds>>

RunEnds(a) ==
  /\ status[a] = "busy"
  /\ status' = [status EXCEPT ![a] = "ready"]
  /\ UNCHANGED <<lastRun, earlier, record, live, tab, sent, answer, rejected, pc,
                 expected, bounds>>

\* Two hours after the sign-in (demo-session.ts, resolve).
SessionExpires ==
  /\ live /\ failures < MaxFailures
  /\ live' = FALSE
  /\ failures' = failures + 1
  /\ UNCHANGED <<status, lastRun, earlier, record, tab, sent, answer, rejected, pc,
                 expected, clicks, calls>>

\* A request, or its answer, is lost.
NetworkFails(p, k) ==
  /\ failures < MaxFailures
  /\ <<p, k>> \in sent \/ Arrived(p, k)
  /\ sent' = sent \ {<<p, k>>}
  /\ answer' = Without(p, {k})
  /\ rejected' = rejected \cup {<<p, k>>}
  /\ failures' = failures + 1
  /\ UNCHANGED <<server, tab, pc, expected, clicks, calls>>

----------------------------------------------------------------------------
\* Specification

\* The page is opened, maybe while Runs of an earlier tab are in progress.
Init ==
  /\ status \in [Agents -> Statuses \cup {"ready"}] /\ status[SeededAgent] = "ready"
  /\ lastRun = [a \in Agents |-> IF status[a] = "busy" THEN 1 ELSE 0]
  /\ earlier = [a \in Agents |-> 0]
  /\ record = [a \in Agents |-> [mandate |-> 1, revoked |-> FALSE, events |-> 0]]
  /\ live = FALSE
  /\ session = FALSE /\ agents = [a \in Agents |-> "unborn"] /\ selectedId = NoAgent
  /\ security = Nothing /\ auditEvents = Nothing /\ evidenceStale = FALSE
  /\ activeRun = Nothing /\ pollingRunIds = {}
  /\ sent = {} /\ answer = << >> /\ rejected = {}
  /\ pc = [p \in Procs |-> Idle]
  /\ expected = Nothing
  /\ clicks = 0 /\ calls = 0 /\ failures = 0

\* What the server and the tab do for a callback that is under way.
Own(p) ==
  CASE p[1] = "load" -> LoadEvidence(p) \/ LoadJoins(p) \/ LoadRejected(p) \/ LoadGivenUp(p)
    [] p[1] = "timer" -> Tick(p) \/ TimerEvidence(p) \/ TimerRejected(p)
    [] p[1] = "poll" -> PollAnswered(p) \/ PollEvidence(p) \/ PollEnds(p) \/ PollRejected(p)
    [] p[1] = "send" -> \/ ServeSend(p[2]) \/ SendAnswered(p) \/ SendEvidence(p)
                        \/ SendRejected(p)
    [] p[1] = "click" -> \/ ServeSession(p) \/ SignInAnswered(p) \/ SignOutAnswered(p)
                         \/ ServeLifecycle(p) \/ LifecycleAnswered(p)
                         \/ ServeRevoke(p) \/ ServeRehearse(p)
                         \/ AuthorityAnswered(p) \/ AuthorityEvidence(p)
                         \/ ClickRejected(p)

Progress(p) == (\E k \in Reads : AnswerRead(p, k)) \/ AgentsArrive(p) \/ Own(p)

Human ==
  \/ SignInClicked \/ RevokeClicked \/ RehearseClicked
  \/ \E a \in Agents : SelectClicked(a) \/ SendClicked(a)
  \/ \E kind \in Kinds : BusyClicked(kind)

World ==
  \/ \E a \in Agents : EventRecorded(a) \/ RunEnds(a)
  \/ SessionExpires
  \/ \E p \in Procs, k \in Reads \cup {"post"} : NetworkFails(p, k)

Next == (\E p \in Procs : Progress(p)) \/ Human \/ World

\* Requests are answered and answers delivered, and the interval fires; Alice
\* and the Runs need not do anything.
Fairness == \A p \in Procs : WF_vars(Progress(p))

Spec == Init /\ [][Next]_vars /\ Fairness

----------------------------------------------------------------------------
\* Properties

\* What is shown of Runs and audited events is of the selected Agent, however
\* late the answers about an Agent left meanwhile arrive (App.tsx, the
\* comparisons with selectedIdRef).
ShownBelongsToSelected ==
  /\ auditEvents # Nothing => auditEvents.agent = selectedId
  /\ activeRun # Nothing => activeRun.agent = selectedId

\* A Run shown as in progress that is in progress is being polled, or about to
\* be, so that its end will be seen (App.tsx, pollRun), while no request was lost
\* and the session in which the tab signed in goes on.
OpenRunIsWatched ==
  InProgress /\ RunIsOpen(activeRun.agent, activeRun.run)
    => \/ PollingNow(activeRun)
       \/ At(Send(activeRun.agent), {"refresh"})
       \/ failures > 0

\* Once nothing changes any more, the pane shows the current authority and the
\* current trail of the selected Agent and does not call them stale, although
\* older answers may be applied after newer ones before (App.tsx:223).
EvidenceCatchesUp ==
  <>[](session /\ live /\ selectedId \in Listed(status)
         => /\ security = Evidence(selectedId)
            /\ auditEvents = Evidence(selectedId)
            /\ ~evidenceStale)

=============================================================================
