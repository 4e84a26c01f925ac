# PrincipalLatch: TLA+ models, checks and proofs

PrincipalLatch lets AI Agents run in disposable containers and read protected documents
through a gateway that decides, per request, whether a Human has delegated that read. These
modules model the parts whose correctness depends on the order in which things happen: the
enforcement gateway, the per-Mandate lease, the store, the life of an Agent and its Runs, the
Runtime that starts and removes their containers, the workspaces and the start of the server, the
proof of its own enforcement that the server derives from its audit trail, and the web client that
shows it all. TLC checks small instances; TLAPS proves the safety properties of the lease, the
gateway, the summary, the store, the Agent's Runs, the container Runtime, the workspaces and the web
client for every instance.

Paths below are relative to the repository; `server/` stands for `apps/server/src/`.

## 1. The system

The server is one Node.js process. Nothing runs in parallel in it, but every `await` lets
other requests in, so a handler is a sequence of atomic steps with anything in between.

| Component | State | Operations | Talks to |
| --- | --- | --- | --- |
| JSON store (`server/store.ts`) | `data` in memory, the promise chain `queue`, the database file and its `.tmp` | `initialize` (with migration), `snapshot`, `mutate`, `persist` | everything durable goes through `mutate` |
| Authority (`server/principallatch/authority.ts`, `packages/principallatch-core`) | authority records (in the store), `mandateOperations` (a promise chain per Mandate) | `installInitialAuthority`, `verifyCurrent`, `withVerifiedCurrentLease`, `revoke`, `issueSuccessor` | store |
| Passport broker (`server/principallatch/passport.ts`) | `sessions`: one live Passport per Agent, in memory only | `getOrIssue`, `invalidate`, `verifyAuthorization` | called inside the store's mutations and under the lease |
| Gateway (`server/principallatch/gateway.ts`, `audit.ts`, `resources.ts`) | none; audit events in the store | `readDocument` | broker, authority, content provider, store |
| Agent service (`server/agent-service.ts`) | Agents, Runs, messages (store), `activeExecutions` (memory) | create, update, delete, start, stop, `sendMessage`, `executeRun`, revoke, fresh rehearsal, `initialize`, `shutdown` | store, broker, authority, Runtime, workspaces |
| Security summary (`server/principallatch/service.ts`) | none; reads audit, sessions and records | `securitySummary`, `auditForAgent`, `deriveDemoProof` | audit, broker, authority |
| Container Runtime (`server/container-codex-runner.ts`) | `active`: one container per Agent | `run`, `cancel`, `shutdown` | container engine |
| Child-process Runtime (`server/codex-runner.ts`) | one child per Agent | the same interface, insecure preview | - |
| Human sessions, HTTP (`server/app.ts`, `principallatch/demo-session.ts`) | session cookies in memory | login, logout, CSRF and origin checks, routing | all services |
| Process (`server/index.ts`, `config.ts`) | shutdown flag | start, signals | all |
| Keys, content, workspaces (`principallatch/keys.ts`, `resources.ts`, `workspace.ts`, `safe-files.ts`) | files | create if missing, replace, archive | file system |
| Web client (`apps/web/src`) | what the browser shows: the session, the Agents, the selected one, its evidence and its newest Run; `pollingRunIds` | loads, an interval, pollers of Runs, commands | HTTP |

What makes it hard:

- *Check, await, use.* A request is decided, its decision is made durable, and only then is
  the content read; in between the Mandate may be revoked, replaced or expire and the Passport
  session may end. The gateway repeats the checks under a lease.
- *Hand-made mutual exclusion* out of chained promises, in the authority and in the store.
- *One queue for everything durable.* A call that acts on memory (`activeExecutions`, the
  session) can overtake a mutation that is still queued.
- *Failure of any write*, including the one that records what has already happened.
- *Restarts*, which forget sessions, leases, executions and the queue, but not the file; and
  handlers that a crash cuts short between the store and the file system.
- *Late answers in the browser*: the callbacks of the tab overlap, and each applies its answer
  to whatever is selected when it arrives.

What makes each component correct: the lease never overlaps two operations on a Mandate, leaks
no entry and strands nobody; the store applies mutations one by one, whole or not at all, and
never shows what a crash can take away; the gateway reads only under live authority, and its
trail and its answers are true; authority records only move forward, and one Mandate of an
Agent is active at most; of an Agent's Runs one is open at most, each ends once, a stop is
final, and an Agent is not left busy on behalf of nobody; the Runtime forgets a container only
when it is gone, and everything that waits for one is answered; a stored Agent has its Mandate and
its workspace, a deleted one has no Mandate in force, and a start repairs what is missing; the tab
never shows one Agent's evidence or Run under another, and what it shows becomes current.

## 2. Modules

| Module | Models | Kind |
| --- | --- | --- |
| `FifoLock` | what the lease promises: a first-come first-served lock per Mandate | abstract |
| `MandateLease` | `AuthorityService.withMandateOperation` | detailed, implements `FifoLock` |
| `MandateLeaseProofs` | proofs about `MandateLease` | proofs |
| `DurableLog` | what the store promises: a durable log with atomic, ordered, truthful mutations | abstract |
| `JsonStore` | `server/store.ts` with its file operations and crashes | detailed, implements `DurableLog` |
| `JsonStoreProofs` | proofs about `JsonStore` | proofs |
| `Gateway`, `MCGateway` | `readDocument`, revocation, retirement, rehearsal, Passport session, clock, restart | composition over the promises of `FifoLock` and of the store |
| `GatewayProofs` | proofs about `Gateway` | proofs |
| `DemoProof`, `MCDemoProof` | `securitySummary` and `deriveDemoProof`, derived in every state of `Gateway` | extends `Gateway` |
| `DemoProofProofs` | proofs about `DemoProof` | proofs |
| `AgentRuns`, `MCAgentRuns` | `AgentService` for one Agent: messages, Runs, start, stop, delete, rehearsal, shutdown, restart | composition over the promise of the store and a small Runtime |
| `AgentRunsProofs` | proofs about `AgentRuns` | proofs |
| `AgentRuntime` | what the Runtime promises `AgentService`: Runs with a container each, cancel, shutdown | abstract |
| `ContainerRunner` | `ContainerCodexRunner` for one Agent: Runs, timeouts, output overruns, cancel, shutdown | detailed, implements `AgentRuntime`, over an external container engine |
| `ContainerRunnerProofs` | proofs about `ContainerRunner` | proofs |
| `Workspaces` | create, update, delete, rehearse and the start of the server, over the store, the Mandates, the workspace directories, the seeds and the protected content | composition over the promise of the store |
| `WorkspacesProofs` | proofs about `Workspaces` | proofs |
| `WebClient` | the callbacks of `App.tsx` and the routes they call | composition over a small server |
| `WebClientProofs` | proofs about `WebClient` | proofs |

### MandateLease

A promise is named by the operation that made it: `mandateOperations[k]` is the operation whose
`tail` is in the map, `previous[o]` the one `o` awaits. `Begin` is lines 466-473 up to the
await, `Proceed` the resolution of `previous`, `Finish` the `finally` block. A body that throws
reaches the same `finally`, so success and failure are one action. `Restart` drops everything.
`arrivals` is a history variable, the queue that the refinement to `FifoLock` uses.

### JsonStore

`pc` follows a writer through `mutate` and `persist`: queued on the chain, cloned and mutating,
writing (the temporary file is torn), written, renaming, publishing. `initialize` is the writer
`Boot`. A document is its version, its application history (what an older version held, then the
mutations it contains in order), and its security evidence (authority records and audit events),
which is enough to see a lost, doubled or reordered mutation. `Recording` are the mutations that
add evidence. `Fail` covers a throwing mutation, a failed write
and a failed rename. `Crash` can come between any two steps; what is modelled is the death of
the process. There is no `fsync` in `persist`, so nothing is claimed about a power failure. The
migration of an older version (`Migrated`) keeps the application history and empties the security
evidence (`store.ts:158-163`, asserted in `store.test.ts:59-89`); `FileMovesForward` states both. The
fields that it fills in per record are abstracted. `DurableLog` is about the history alone.

### Gateway

One Agent, a set of requests and a set of administrative calls. Every call has a `pc` that names
what it awaits; each action is the code between two awaits. `seen` and `at` are the record and
the instant that a signature check captured before its awaits; `leases` are the queues of
`FifoLock`; `records`, `agentMandate` and `audit` are durable. `passports` are the Passports
the broker ever signed, `session` the live one; a presented token is one of them or 0, which
stands for whatever does not verify. A resource is its owner's relation to the Passport's
principal. `Permanent` says whether the Agent is the demo Agent, which is rehearsed and never
deleted, or an ordinary one, which is deleted and never rehearsed.

A mutation commits and its caller goes on in one step (the store's promise, checked in
`JsonStore`); a crash that falls between the two differs only in the caller's answer, `lost`.
`reads` is a history variable: the calls of the provider for each request.

### DemoProof

The summary is computed without an await, so it is an operator on the state: `AuditForAgent`,
`SuccessfulReadCount` and `Phase` translate `service.ts:159-175` and `185-285`. `DemoSpec` adds to
`Gateway` what its trails leave out and the phase looks at: the order in which requests arrived,
by which `listForAgent` sorts, and which requests were refused with `DENY_MANDATE_LIFECYCLE`. Two
requests of one millisecond, which are ordered by append, are left out. Without fairness.

### AgentRuns

One Agent. Each call of `sendMessage` is named together with the Run it may start. A mutation
is an entry of `queue` and takes effect, or fails, at its head. The reservation is two steps
(`Reserve`, then `Launch` or `ReserveFails`), since its callback issues a Passport before
anything is persisted. `Begin` to `EndFails` are `executeRun`; `SpawnContainer`,
`ContainerCloses`, `CleanUp` and `CleanUpFails` are what `ContainerCodexRunner` does to it,
including a clean-up that cannot be verified. `CallCancel`, `Cancelled`, `CancelThrows`,
`Cancel` are `cancelExecution` inside stop and delete. When there is neither an execution nor a
container, no event of another call fits between the call and the end of the session
(`CallIdle`). `session` is whether the broker has a live Passport; the Mandate is a counter of
rehearsals. Availability checks and ownership checks that read nothing mutable are left out, and
so are messages.

A shutdown is a call like a stop (`CallShutdown`): from it on no Run is admitted, it waits for the
requests that the server has taken (`app.close`, `Answered`), then aborts and awaits the executions
that `activeExecutions` holds at that instant, waits for the queue and has the Runtime remove what
is left. That closing the HTTP server fails is left out.

### ContainerRunner

The containers of one Agent, which all get the same name. `pc` names what a call awaits; the
shutdown is the call `None`. `removal[r]` is the termination of the entry of `r`, which
`removeContainer` shares among all who ask for it: `Remove` is the engine's `rm`, `Inspect` the
inspection after it, with its three outcomes (absent, present, not answered) and the retries,
`Settle` what the settled promise does to those who await it, in the same tick. `Check` and
`Recheck` are the two inspections of the `finally` block. The flags of an entry (`cancelled`,
`timedOut`, `outputExceeded`) are read once, when the child closes, and only through the outcome
they lead to; so `result` of an open Run is the outcome that is already certain. The 3-second
`SIGKILL` and the pauses between attempts only delay, and are left out.

The engine is external. Its command may end before it has created the container, be told to end
and create it nevertheless, or end and leave it behind; a container of an earlier process may
have the name at the start. A command that has ended creates nothing any more.

`AgentRuntime` is what is left of this for `AgentService`: a Run is set up, has a container, is closed
and cleaned up; it starts only when no other container is there or can come; a clean-up that cannot be
verified leaves the entry behind, which refuses the next Run; cancel returns only after what it found
has closed, or throws; a shutdown that reports success leaves no container. `ImplementsAgentRuntime` maps
`ContainerRunner` to it: a Run is `open` while it is `spawned`, `closed` from the end of its command to
the last inspection, a cancel or the shutdown `waiting` while it awaits a removal or the end of the
command; `entry` is `active`, `held` is `found`, and the `live` Runs are those whose container
exists or whose command can still create it. The actions of `AgentRuns` named above, `SpawnContainer`
to `CleanUpFails` and `Cancelled`, were written to allow what this promises, and admit overlapping Runs
besides; that they do is by reading, not checked.

### Workspaces

Several Agents. A request, or the start (`Server`), is a job: the Agent and the configuration it
holds and the steps it has still to do, which `Plan` lists in the order of the code. Each step is
one await: a directory, AGENTS.md, the client and the files written with it, `installInitialAuthority`,
one mutation, the archiving rename. `Throw` is an error at any of them; in the start it ends the
process. A configuration is a number, 1 the one an Agent is created with. `StoreFails` is a mutation
that cannot be persisted, `Refused` one that refuses because of what `AgentRuns` and `Gateway`
model. `Boot` to `Listen` are `index.ts` and what it calls: the two seeds, then the protected content,
each created and written in two steps and refused when it is short (`startFile`), the Mandate of the
demo Agent, the mutation that closes what a restart left open, the list of Agents, read once, each of
them ensured, and the demo Agent. `InitializeFails` is the store refusing one of the two mutations
before the list; it ends the start as any throw does. `Crash` is the death of the
process. `accepted` and `removed` are history variables.

### WebClient

One tab. Each callback that can be under way is a process: a load of the selected Agent, a refresh
by the interval, a poller per Run, a `sendMessage` per Agent, and one handler for each of the four
busy flags that disable the buttons. A request is sent, handled by the server and its answer applied
in three steps; `rejected` holds the requests that failed. `SetSelected` is the setter together with
the effect that clears the pane and loads. Evidence is the version of the Agent's authority and trail;
the pair of requests of `refreshSecurityAndAudit` is answered as one. The server is reduced to what
the tab can see, `session` and `live` are the two sides of the Human session. `initialize` with a
session in force takes the path of a sign-in. Messages and the list of Runs are set like the
evidence, under the same comparison, and are left out.

## 3. Runs

`tlc -workers 2 -config X.cfg M` from this directory, with `M` and `X` from the table.

| Run | Module, configuration | Checks | States |
| --- | --- | --- | --- |
| `lease` | `MandateLease` | `MutualExclusion`, `MapTracksPending`, `ImplementsFifoLock`, `EveryCallCompletes` | 20 thousand |
| `gateway_authority` | `MCGateway`, `GatewayAuthority` | `OneActiveMandate`, `LeaseProtectsRecord`, `ReadsOnlyUnderLiveAuthority`, `NoReadAfterRevocation`, `RecordsMoveForward`, `LeaseDiscipline` | 1.2 million |
| `gateway_liveness` | `MCGateway`, `GatewayLiveness` | `AuditTruth`, `AnswerTruth`, `EveryCallReturns` | 180 thousand |
| `demo_proof` | `MCDemoProof`, `DemoProof` | `SummaryIsReal`, `PhaseAdvances` | 1.3 million |
| `store` | `JsonStore` | `MemoryIsDurable`, `OutcomesAreTrue`, `FileMovesForward`, `ImplementsDurableLog`, `EveryMutationSettles` | 25 thousand |
| `agent_runs` | `MCAgentRuns`, `AgentRuns` | `BusyHasOpenRun`, `RunsEndOnce`, `StopIsFinal`, `ShutdownIsComplete`; `SerialUntilStop`, `ThreadIsCurrentUntilStop` | 2.1 million |
| `agent_runs_liveness` | `MCAgentRuns`, `AgentRunsLiveness` | `EveryCallReturns`, `EveryRunEnds` | 55 thousand |
| `agent_runs_one_active` | `MCAgentRuns`, `AgentRunsOneActive` | finding: `OneActiveRun` is violated with stop | - |
| `container_runner` | `ContainerRunner` | `ContainersAreTracked`, `ShutdownIsClean`, `ImplementsAgentRuntime`, `EveryCallReturns` | 170 thousand |
| `workspaces` | `Workspaces` | `StoredAgentIsWhole`, `DeletedAgentHasNoAuthority`, `InstructionsWereAccepted`, `StartsRepair`, `ServerComesUp` | 176 thousand |
| `web_client` | `WebClient` | `ShownBelongsToSelected`, `OpenRunIsWatched` | 880 thousand |
| `web_client_liveness` | `WebClient`, `WebClientLiveness` | `EvidenceCatchesUp` | 390 thousand |

`gateway_authority` and `demo_proof` are the demo Agent (rehearsal), `gateway_liveness` an ordinary
one (deletion); all have revocation. Calls happen once each, so every finite run of these models ends with no
call left to make: deadlock checking is off everywhere, and liveness properties say instead
that nothing is left waiting. Symmetry is used only in runs without liveness, over requests,
administrative calls, unused Mandates, messages and controls, none of which the code tells apart.

### Bounds

- *Lease:* four operations on two Mandates give chains of length four, two chains at once, and
  an entry deleted between an arrival and the next.
- *Gateway:* one request against two administrative calls is every pair of revoke and rehearse
  around every step of a read; three Mandates let two rehearsals succeed one after the other.
  Two requests against one administrative call put a read behind a read in the lease. Lifetimes
  of two ticks with `MaxTime = 2` reach expiry before, between and after the two checks, and the
  reuse margin; two Passports make a superseded token. One restart can fall anywhere.
  `gateway_liveness` has lifetimes of one tick and one Passport. `MaxTime`, `MaxPassports` and
  `MaxRestarts` bound TLC only: the proofs hold for any values.
- *Demo proof:* a complete proof takes three requests and a revocation; with a second Passport the
  evidence can be mixed, with a rehearsal it can belong to a predecessor. At most two requests run
  at once (`MaxInFlight`), at most one ends without an outcome in the Agent's audit
  (`MaxSilent`). Time stands still: an expired Passport enters the phase as a missing one does.
- *Store:* three mutations distinguish the tail of the chain from the one before it, two crashes
  allow a crash during recovery, and one while an old document is being migrated. Two of
  the mutations add evidence, so that what a migration drops and what comes after it are told apart.
- *Agent runs:* three messages and two controls cover a Run, its competitor, a third after
  either, and a pair of calls such as stop and start, or a stop and a shutdown. Failures are at most
  one or two (`MaxFailures`), restarts at most one (`MaxRestarts`).
- *Container Runtime:* a Run and the next one, so that what the first leaves behind meets the
  second; one cancel and one shutdown, which can meet each other, a timeout and an output overrun
  on one termination; three removal attempts, as in the code. `MayOverlap` is `FALSE`: see below.
- *Workspaces:* the demo Agent and another one, three requests that may overlap, three
  configurations, so that two updates can cross; one failing mutation and two crashes, so that
  a crash can meet the start that repairs what the one before left behind.
- *Web client:* the seeded Agent and another one, two overlapping loads, one refresh by the
  interval beside them, one Run for each Agent. `web_client` has every button (two clicks, the sign-in
  being one of them) and a change of the selection, on a page that may be opened while Runs are in
  progress; the two safety properties compare what is shown with the selection and the pollers, so
  neither audited events nor revocations matter there (`MaxEvents` 0). `web_client_liveness` is
  about evidence that changes: an audited event, a revocation, a Run and a deletion, and one lost
  request or expiry of the session. The selection does not change in it (`MaxSelects` 0; with 1 it has
  more than a million states), so a revocation answered under another selection is not part of it.

### Fairness

Weak fairness for the steps that a running call takes by itself. It is what the event loop and
the awaited services provide: a resolved promise runs its continuation, a signature check, a file
operation and a store mutation settle with success or error, the container engine's commands
have timeouts (`container-codex-runner.ts:206,233`) and a container is removed when its time is
over (315-320). In `ContainerRunner` that is spelled out: the timer of a Run fires, and the engine's
command ends when its container is gone or it was sent a signal; a container that runs on is
ended by nothing but the code. No fairness is assumed of callers, of the clock, of crashes, nor of the choice
between success and failure. `EveryRunEnds` speaks of executions in which the store refuses
nothing, since a refused last mutation does leave a Run open (`agent-service.ts:450-456,508`). In
`Workspaces` the operator starts the server again when it is down, and file operations settle. In
`WebClient` requests are answered, the answers delivered and the interval fires (`App.tsx:339`);
nothing is assumed of Alice, of the Runs, nor of the network beyond that a request fails or not.

### Finding

`OneActiveRun`: `stopAgent` finds no execution while a reservation is still queued, and cancels
nothing. The Run goes on under an Agent that is `stopped`, a start makes it `ready`, and a second
message starts a second Run. `docs/ARCHITECTURE.md:115` names one-active-Run serialization.
`SerialUntilStop` says that it holds until somebody calls stop or delete: the window in
`cancelExecution` is the cause.

### Observations

What else the models show. In the same window as the finding:

- The reservation that a stop overlooked issues a Passport after the stop has ended the session, so
  that a stopped Agent has one (`docs/ARCHITECTURE.md:136` says that stop invalidates it).
- The overlooked Run completes after a rehearsal and writes its Codex thread under the successor
  Mandate, which `docs/ARCHITECTURE.md:147` says is cleared. `ThreadIsCurrentUntilStop` is what holds.
- An overlooked Run that loses its place in `activeExecutions` to a later one escapes a shutdown;
  `ShutdownIsComplete` excludes exactly that.
- `ContainerCodexRunner` depends on `AgentService` to keep Runs of an Agent apart: with
  `MayOverlap = TRUE` two calls pass the check of `active` before either has made its entry
  (`container-codex-runner.ts:248,280`), the second entry replaces the first, and
  `ContainersAreTracked` fails.

On the server:

- `getOrIssue` replaces a live Passport up to five seconds before it expires, where
  `docs/ARCHITECTURE.md:135` says that it is reused until then.
- A removal started by a timeout (`container-codex-runner.ts:317`) is not awaited by its Run, so that
  an engine slow to answer can let it remove the container of the next Run, which has the same name.
- A proved turn 1 can become `invalid`: when a request with an earlier Passport is recorded late,
  its denial sorts before the others and is taken for the first (`service.ts:233`). `PhaseAdvances`
  therefore excludes other Passports under the same Mandate, and fails without that condition.
- Two updates that overlap can leave the older configuration in AGENTS.md, until the next start; it
  is always one the store has accepted (`InstructionsWereAccepted`).
- A deletion whose last mutation fails leaves a stored Agent without a workspace; a second attempt
  fails as well, at the rename of the missing directory, until a start has made it again. An
  update that overlaps a deletion may make the directory anew, with no Agent to own it, and a creation
  that is cut short leaves a workspace and an active Mandate without an Agent.
- A seed, or the protected content, that a crash cut short between its creation and its write keeps
  the server down until somebody removes it (`keys.ts:60`, `resources.ts:57`): every later start
  refuses its length, or fails to parse it. `ServerComesUp` says that nothing else does.

In the web client:

- A Run that has ended can be shown as in progress for good, with the composer disabled: a load that was
  answered before the end joins the poller that has just seen it and will not look again.
  `OpenRunIsWatched` therefore speaks of Runs that are in progress. A poller that fails leaves its
  Run unpolled until it is loaded again, and one that was refused after a sign-out may do so only when
  the Run has been loaded under the next session and has joined it: sign-outs count as failures.
- A refresh of the Agents that is answered after a sign-out fills the list again. A sign-out after the
  session has expired is refused, and the tab keeps the dead session until it is reloaded.
- `setSecurity` after a revocation or rehearsal, the reset of the Run in the catch clause of
  `sendMessage` and the mark of stale evidence are applied whichever Agent is selected by then. The
  next refresh by the interval replaces the evidence. No run includes the first case; with nothing but
  revocations and one change of the selection (`Kinds = {"revoke"}`, `MaxSelects = 1`, `MaxRuns`,
  `MaxEvents` and `MaxFailures` 0) the evidence is shown under the wrong Agent for a while, and
  `EvidenceCatchesUp` holds.

## 4. Proofs

`tlapm M.tla` for each of the eight modules below proves its theorems for any finite or infinite
sets of operations, Mandates, requests, calls, Runs and Agents and any values of the other constants.

| Module | Theorems | States |
| --- | --- | --- |
| `MandateLeaseProofs` | `ChainInvariant`, `MutualExclusionHolds`, `MapTracksPendingHolds` | safety of the lease |
| | `LeaseImplementsFifoLock` | the promise chain implements `FifoLock` |
| | `PendingIsServedHolds` | nobody is stranded in a chain |
| `GatewayProofs` | `Invariant`, `TypeCorrect` | the inductive invariant and typing |
| | `LeaseProtectsRecordHolds`, `OneActiveMandateHolds`, `AuditTruthHolds`, `AnswerTruthHolds` | the state properties |
| | `ReadsOnlyUnderLiveAuthorityHolds`, `NoReadAfterRevocationHolds`, `RecordsMoveForwardHolds` | the action properties |
| | `QueueInvariant`, `LeaseDisciplineHolds` | the calls use the leases as `FifoLock` |
| | `LeaseIsServedHolds` | no lease is left behind with calls waiting for it |
| `DemoProofProofs` | `DemoInvariant`, `SummaryIsRealHolds` | the summary shows what happened |
| | `PhaseAdvancesHolds` | its phase only advances |
| `JsonStoreProofs` | `StoreInvariant`, `StoreTypeCorrect`, `MemoryIsDurableHolds`, `OutcomesAreTrueHolds`, `FileMovesForwardHolds` | safety of the store |
| | `StoreImplementsDurableLog` | the store implements `DurableLog` |
| | `NeverStallsHolds` | one of the calls under way waits for no other |
| `AgentRunsProofs` | `AgentRunsInvariant`, `AgentRunsTypeCorrect`, `BusyHasOpenRunHolds`, `SerialUntilStopHolds`, `ThreadIsCurrentUntilStopHolds`, `ShutdownIsCompleteHolds` | the state properties |
| | `RunsEndOnceHolds`, `StopIsFinalHolds` | the action properties |
| | `RunsKeptApartHolds` | when the Runtime may assume that Runs do not overlap |
| | `SomeoneCanGoHolds` | one of the calls under way waits for no other |
| `ContainerRunnerProofs` | `RunnerInvariant`, `RunnerTypeCorrect`, `ContainersAreTrackedHolds`, `CleanEndHolds`, `ShutdownIsCleanHolds` | its safety, given `~MayOverlap` |
| | `RuntimeInvariant`, `RunnerImplementsAgentRuntime` | it implements `AgentRuntime`, given the same |
| | `AwaitedIsUnderWayHolds` | what anybody awaits is under way, given the same |
| `WorkspacesProofs` | `WorkspacesInvariant`, `StoredAgentIsWholeHolds`, `DeletedAgentHasNoAuthorityHolds`, `InstructionsWereAcceptedHolds` | the state properties |
| | `StartsRepairHolds` | the action property |
| `WebClientProofs` | `WebClientInvariant`, `ShownBelongsToSelectedHolds` | what the tab shows is of the selected Agent |
| | `WatchInvariant`, `OpenRunIsWatchedHolds` | an open Run that it shows is being polled |

The assumptions are those the modules declare, `NoneAssumption`, `GatewayAssumption`,
`StoreAssumption`, `AgentAssumption`, `RunnerAssumption`, `WorkspacesAssumption` and `ClientAssumption`: the sets are
disjoint, `None` and the other markers are in none of them, numbers are natural, a Mandate is valid
for at least one instant. TLC evaluates them in the runs. The theorems about the container Runtime
assume `~MayOverlap` besides: that `AgentService` keeps the Runs of an Agent apart. `RunsKeptApartHolds`
says when it does: always, except after both a stop or a delete and a start or a rehearsal have been
called, the window of the finding.

*Lease.* `MutualExclusion` is not inductive: an operation may start when `previous` is resolved,
and nothing in the state says that the operation before it was the only one. `Chain` supplies it:
`arrivals` lists the pending operations, each awaits its predecessor, the map holds the last, and
all but the first wait. So only the first can run, and `Finish` leaves a chain again, whether the
entry was still its own or not. The refinement to `FifoLock` follows step by step. `PendingIsServed`
adds `ChainFirst`: what the first of a chain awaited is resolved, because an entry that the map holds is
that of a pending call and a call resolves what its successor awaits before it goes.

*Gateway.* The argument has four parts, the conjuncts of `IInv` beyond typing. `Wiring` ties a
call's progress to what it refers to. `LeaseOwned` says that whoever works under a lease is at the
head of its queue. `LeaseProtectsRecord` follows from it: records change only in `CommitRevoke`
and `CommitSuccessor`, whose call is at the head, so any other call on that Mandate is not at work
and the record it captured cannot become stale. `OneActiveMandate` is kept because a successor is
installed in the step that revokes its predecessor. `Trails` fixes, for each progress of a request,
the audit trail and the provider calls there can be. The action properties follow from one step:
`ReadContent` checks the captured record, which is the stored one, and the live Passport in the
same step. A committed revocation leaves a revoked record, records never become active again, so
no later read on it is authorized. A last part adds what `FifoLock` needs: a queue holds calls
that asked for that lease and have not given it back, each once (`QInv`). Every step is then one of
four things to the leases (a call asks, its turn comes, it gives back, the process dies) or nothing.
Conversely whoever has asked is in the queue, and the head of a queue can always go on (`LeaseIsServed`).

*Summary.* `DInv` adds to the gateway's invariant that every authenticated request has its place in the
order of arrival, that nothing but the principal's own document was read, and that nobody is answered
before the end. What is quoted by `find` is then a member of the set it searches (a set of positions has a
least one, `LeastNatural`), and `Trails` says for each member what its events mean (`KindCases`): a success
recorded is a content returned, a denial is a refusal without a read. The phase only advances because a
trail only grows and keeps what it is about (`RequestKept`), and because under `SameStory` all that is quoted
before and after a step was presented with the one live Passport, whichever request comes first.

*Store.* `ChainOrder` says that the writers wait in the order in which they came and that only the
first of them works; so the clone a writer mutates is of the document that is published last
(`CloneOfData`), and the file is that document or one call ahead of it (`FileOfData`). A crash then
loses nothing that was shown, and what a writer is told agrees with the file. `FileMovesForward` follows from
the same: only `Rename` touches the file, and what it puts there is the file and one call, or, while
`initialize` works, the document migrated from the file, or an empty one if there is none. The refinement
maps the log to the history of the published document; every step is one of `DurableLog` or a stutter.
`NeverStalls` adds, as for the lease, that what the first of the chain waits for has settled.

*Agent runs.* The state properties are not inductive without the progress of the calls. `CallProgress`
and `RunFollowsCall` tie each call to the queue and to its Run, `ReservedIsHead` says that a
reservation between its two steps is at the head of the queue, `DeletedIsEmpty` that a deleted Agent
has nothing open, `ExecutionIsLive` that an execution in the map has not settled, `FoundIsSettled` that
what a returned stop found has. `Serial` is the main one: until a stop or a delete, every
unsettled execution is that of the one open Run. Most steps leave the Agent and the Runs alone; two
lemmas cover those, and there is one lemma for each mutation. `RunsEndOnce` and `StopIsFinal` follow
from one fact about steps, that a Run with an end keeps it.
The shutdown needs a second invariant, `SInv`: without a start or a rehearsal, too, one execution at
most has not settled (`SerialToo`), the queue holds just the calls that wait for it, each once
(`QueueIsWaited`), what the shutdown has found when `app.close` returned stays so (`ShutdownKnows`),
and there is one shutdown (`ShutdownIsOne`). `SomeoneCanGo` follows by cases: the head of the queue can
go; if the queue is empty, an execution that has not settled is with the Runtime, and can go; if there
is none, whatever a stop or a shutdown awaits is over, and a shutdown that waits for the answers of
others is the only call left.

*Container Runtime.* `ChildFollowsRun` ties the engine's command to its Run, `Serial` keeps the Runs
apart (this is where `~MayOverlap` is used), `EntryIsOfRun` says whose termination the entry may await,
`ShutdownKnows` what a shutdown has found. A container is then always reachable through an entry, and
a Run forgets its entry only after it has seen the container gone and the command closed. For the
refinement `RInv` adds that a timer is armed only while its Run is open and that whoever awaits a
removal has found a Run; each step is then one of `AgentRuntime` or a stutter, and the end of a shared
removal, which settles everybody who awaits it at once, is one step of it (`StopReturns` when it is the
command that closes, `Unverified` when the removal is given up). `AwaitedIsUnderWay` follows whoever awaits something
to what will end it: no removal is awaited that nobody performs, no open Run is left without a timer, a
signal or a removal, and a cancel waits for a command that has closed or was sent a signal.

*Workspaces.* The invariant says of each handler what it has established by the step it is at
(`JobOk`): a creation that has made the directory, an update whose mutation was accepted, a deletion
that has revoked the Mandate. No step of another handler takes such a fact back (`Monotone`), since
authority, once there, stays there, a revoked Mandate of an ordinary Agent stays revoked, and a
workspace is left only by archiving it. Then each step needs only what it does to the data.
For `StartsRepair` a second invariant, `RepairOk`, says that every Agent the start has dealt with is
repaired: requests are not under way before the server listens, so nothing undoes it.

*Web client.* The invariant says of each callback what it may be waiting for at its step (`Expected`), and
of each answer under way that it is about the Agent its callback works for (`AnswerOk`); where a callback may
change its Agent, each of its requests is in one place at most, so no old answer can come for the new. A change of
the selection clears what is shown; any other change of it is guarded by the comparison the callback
makes after its `await`, or belongs to a callback of the selected Agent. One lemma for each action.
`OpenRunIsWatched` needs a second invariant, `WInv`, which holds as long as nothing has failed. A Run that
has been and has ended (`Past`) is never in progress again; a poller at its last refresh, or whose
request was refused, polled such a Run, and otherwise its Run is in `pollingRunIds` (`PollOk`);
sendMessage has one request under way and is about the newest Run of its Agent (`SendOk`); before the
sign-in nothing is asked (`Fresh`). Most steps leave pollers and senders alone: one lemma covers those.

Only model-checked: all liveness, which is out of the prover's reach. What can be proved of it is its safety
part: `PendingIsServedHolds`, `LeaseIsServedHolds`, `NeverStallsHolds`, `SomeoneCanGoHolds` and
`AwaitedIsUnderWayHolds` say that nobody waits for what cannot come, for any number of calls. Their terms are
the guards of actions, not `ENABLED`, which the prover does not know. That the calls under way then come
to an end, under fairness, is what `EveryCallCompletes`, `EveryCallReturns`, `EveryMutationSettles` and the other
liveness properties check on small instances.

## 5. Not modelled

`PROJECT.json` lists every component and, under `hazards`, what can go wrong there. Left out for
good: the child-process Runtime (the preview twin of the container Runtime), cryptography and
canonical JSON (assumed correct), configuration, the parsing and routing of HTTP, scripts, rendering
and forms. Left out of a model that covers their surroundings: `installInitialAuthority` racing with
itself (two calls for one Agent do not overlap, since an id is created once), message lists, the fields that a
migration of the store fills in, path and symbolic-link checks, a shutdown whose `app.close` fails.

## 6. Plan

Done: `FifoLock`, `MandateLease`, `DurableLog`, `JsonStore`, `Gateway`, `DemoProof`, `AgentRuns` with the
shutdown, `AgentRuntime`, `ContainerRunner`, `Workspaces` with the files of the start, `WebClient`; the proofs about all
of them.

What would come next: the fields that a migration fills in, record by record, and a run of the web
client in which the selection changes while a revocation is under way, once that fits.
