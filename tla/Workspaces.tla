----------------------------- MODULE Workspaces -----------------------------
(***************************************************************************)
(* The life of an Agent outside its Runs: its record in the store, its     *)
(* Mandate and its workspace directory, which createAgent, updateAgent,    *)
(* deleteAgent, a rehearsal and the start of the server change one after   *)
(* the other (agent-service.ts, workspace.ts, safe-files.ts), and the      *)
(* files without which the server does not start: the seeds of the keys    *)
(* (keys.ts) and the protected content (resources.ts).                     *)
(*                                                                         *)
(* Requests overlap at every await; the store may refuse a mutation, and   *)
(* the process may die between two steps.  A mutation of the store is one  *)
(* step (module JsonStore), and so is the replacement of a managed file,   *)
(* which ends in a rename.                                                 *)
(***************************************************************************)
EXTENDS Naturals, Sequences

CONSTANTS
  Agents,        \* ids of Agents; an id is never used twice
  DemoAgent,     \* DEMO_AGENT_ID
  Requests,      \* requests the server handles at the same time
  Server,        \* the start of the server, a process like a request
  MaxVersion,    \* configurations of an Agent; 1 is the one it is created with
  MaxCalls,      \* requests in all
  MaxFailures,   \* mutations of the store that fail
  MaxCrashes     \* deaths of the process

ASSUME WorkspacesAssumption ==
  /\ DemoAgent \in Agents /\ Server \notin Requests
  /\ MaxVersion \in Nat \ {0} /\ MaxCalls \in Nat
  /\ MaxFailures \in Nat /\ MaxCrashes \in Nat

Procs == Requests \cup {Server}
Versions == 1 .. MaxVersion
Missing == 0   \* no record, or no file
Seeds == {"passport", "mandate"}
StartFiles == Seeds \cup {"content"}

VARIABLES
  stored,      \* the configuration of each Agent in the store
  authority,   \* the authority record of each Agent's Mandate
  directory,   \* whether the workspace directory exists
  agentsMd,    \* the configuration in its AGENTS.md
  client,      \* whether its tools/read-document.mjs is in place
  archives,    \* how often its workspace was moved to .deleted
  startFile,   \* the seeds and the content: absent, opened, short or whole
  phase,       \* how far the start of the server is, or that it is down or serving
  job,         \* what each request, or the start, has still to do
  pending,     \* the Agents that the start has still to look at
  accepted,    \* the configurations the store has ever accepted
  removed,     \* the Agents that were deleted
  calls, failures, crashes

files == <<directory, agentsMd, client, archives>>
bounds == <<calls, failures, crashes>>
vars == <<stored, authority, files, startFile, phase, job, pending, accepted, removed, bounds>>

Idle == [kind |-> "idle", agent |-> DemoAgent, version |-> Missing, todo |-> <<>>]

\* The order in which each handler does its work.
Ensure == <<"directory", "agentsMd", "client">>
Create == Ensure \o <<"authority", "push">>
Update == <<"update", "directory", "agentsMd">>
Rehearse == <<"succeed">> \o Ensure
Delete == <<"retire", "revoke", "archive", "remove">>
EnsureKnown == <<"authority">> \o Ensure

\* mutant: createAgent stores the Agent before its Mandate
StoreFirst == [create |-> Ensure \o <<"push", "authority">>, update |-> Update,
               rehearse |-> Rehearse, delete |-> Delete, ensure |-> EnsureKnown]
\* mutant: updateAgent writes AGENTS.md before the mutation
FileFirst == [create |-> Create, update |-> <<"directory", "agentsMd", "update">>,
              rehearse |-> Rehearse, delete |-> Delete, ensure |-> EnsureKnown]
\* mutant: deleteAgent removes the Agent before it retires it
RemoveFirst == [create |-> Create, update |-> Update, rehearse |-> Rehearse,
                delete |-> <<"archive", "remove", "retire", "revoke">>,
                ensure |-> EnsureKnown]
Plan == [create |-> Create, update |-> Update, rehearse |-> Rehearse,
         delete |-> Delete, ensure |-> EnsureKnown]

Known == {a \in Agents : stored[a] # Missing}

\* p is at the step, which is done as soon as it is left.
On(p, step) == job[p].todo # <<>> /\ Head(job[p].todo) = step
Left(p) == [job EXCEPT ![p].todo = Tail(@)]

\* The handler throws: a request is answered with an error, the start ends the
\* process.
Throw(p) ==
  IF p = Server
    THEN /\ phase' = "down"
         /\ job' = [q \in Procs |-> Idle]
    ELSE /\ job' = [job EXCEPT ![p] = Idle]
         /\ UNCHANGED phase

\* p is about to call a mutation of the store; installInitialAuthority calls one
\* only if there is no record yet.
Mutating(p) ==
  \/ \E step \in {"push", "update", "succeed", "revoke", "remove"} : On(p, step)
  \/ On(p, "authority") /\ authority[job[p].agent] = "none"

\* The store cannot persist the mutation.
StoreFails(p) ==
  /\ failures < MaxFailures /\ Mutating(p)
  /\ failures' = failures + 1
  /\ Throw(p)
  /\ UNCHANGED <<stored, authority, files, startFile, pending, accepted, removed,
                 calls, crashes>>

\* The mutation refuses: a Run has started meanwhile, or the Mandate that a
\* rehearsal names has been replaced (modules AgentRuns and Gateway).
Refused(p) ==
  /\ On(p, "update") \/ On(p, "succeed")
  /\ Throw(p)
  /\ UNCHANGED <<stored, authority, files, startFile, pending, accepted, removed, bounds>>

----------------------------------------------------------------------------
\* The steps of the handlers

\* mutant: an existing directory is an error
MakeNewDirectory(p) ==
  LET a == job[p].agent IN
  /\ On(p, "directory")
  /\ directory' = [directory EXCEPT ![a] = TRUE]
  /\ IF directory[a] THEN Throw(p) ELSE job' = Left(p) /\ UNCHANGED phase
  /\ UNCHANGED <<stored, authority, agentsMd, client, archives, startFile, pending,
                 accepted, removed, bounds>>
\* ensureManagedChildDirectory: an existing directory will do.
MakeDirectory(p) ==
  LET a == job[p].agent IN
  /\ On(p, "directory")
  /\ directory' = [directory EXCEPT ![a] = TRUE]
  /\ job' = Left(p)
  /\ UNCHANGED <<stored, authority, agentsMd, client, archives, startFile, phase, pending,
                 accepted, removed, bounds>>

\* writeInstructions: the content is that of the record the handler holds.  The
\* directory may have been archived since.
WriteInstructions(p) ==
  LET a == job[p].agent IN
  /\ On(p, "agentsMd")
  /\ IF directory[a]
       THEN /\ agentsMd' = [agentsMd EXCEPT ![a] = job[p].version]
            /\ job' = Left(p)
            /\ UNCHANGED phase
       ELSE Throw(p) /\ UNCHANGED agentsMd
  /\ UNCHANGED <<stored, authority, directory, client, archives, startFile, pending,
                 accepted, removed, bounds>>

\* The tools directory, its client and the files written only if missing.
WriteClient(p) ==
  LET a == job[p].agent IN
  /\ On(p, "client")
  /\ IF directory[a]
       THEN /\ client' = [client EXCEPT ![a] = TRUE]
            /\ job' = Left(p)
            /\ UNCHANGED phase
       ELSE Throw(p) /\ UNCHANGED client
  /\ UNCHANGED <<stored, authority, directory, agentsMd, archives, startFile, pending,
                 accepted, removed, bounds>>

\* installInitialAuthority: an existing record will do.
InstallAuthority(p) ==
  LET a == job[p].agent IN
  /\ On(p, "authority")
  /\ authority' = [authority EXCEPT ![a] = IF @ = "none" THEN "active" ELSE @]
  /\ job' = Left(p)
  /\ UNCHANGED <<stored, files, startFile, phase, pending, accepted, removed, bounds>>

PushAgent(p) ==
  LET a == job[p].agent IN
  /\ On(p, "push")
  /\ stored' = [stored EXCEPT ![a] = job[p].version]
  /\ accepted' = [accepted EXCEPT ![a] = @ \cup {job[p].version}]
  /\ job' = Left(p)
  /\ UNCHANGED <<authority, files, startFile, phase, pending, removed, bounds>>

\* The mutation of updateAgent; the clone it returns is written to AGENTS.md.
UpdateRecord(p) ==
  LET a == job[p].agent IN
  /\ On(p, "update")
  /\ IF a \in Known
       THEN /\ stored' = [stored EXCEPT ![a] = job[p].version]
            /\ accepted' = [accepted EXCEPT ![a] = @ \cup {job[p].version}]
            /\ job' = Left(p)
            /\ UNCHANGED phase
       ELSE Throw(p) /\ UNCHANGED <<stored, accepted>>
  /\ UNCHANGED <<authority, files, startFile, pending, removed, bounds>>

\* The mutation of a rehearsal: a successor Mandate, and the seeded
\* configuration again.
InstallSuccessor(p) ==
  LET a == job[p].agent IN
  /\ On(p, "succeed")
  /\ authority' = [authority EXCEPT ![a] = "active"]
  /\ stored' = [stored EXCEPT ![a] = job[p].version]
  /\ accepted' = [accepted EXCEPT ![a] = @ \cup {job[p].version}]
  /\ job' = Left(p)
  /\ UNCHANGED <<files, startFile, phase, pending, removed, bounds>>

\* retireAgent: nothing to revoke unless the Mandate is active.
RetireAgent(p) ==
  /\ On(p, "retire")
  /\ job' = IF authority[job[p].agent] = "active" THEN Left(p)
            ELSE [job EXCEPT ![p].todo = Tail(Tail(@))]
  /\ UNCHANGED <<stored, authority, files, startFile, phase, pending, accepted, removed, bounds>>

RevokeAuthority(p) ==
  LET a == job[p].agent IN
  /\ On(p, "revoke")
  /\ IF authority[a] = "active"
       THEN /\ authority' = [authority EXCEPT ![a] = "revoked"]
            /\ job' = Left(p)
            /\ UNCHANGED phase
       ELSE Throw(p) /\ UNCHANGED authority
  /\ UNCHANGED <<stored, files, startFile, pending, accepted, removed, bounds>>

\* archive: a rename, which fails if the directory is gone.
ArchiveWorkspace(p) ==
  LET a == job[p].agent IN
  /\ On(p, "archive")
  /\ IF directory[a]
       THEN /\ directory' = [directory EXCEPT ![a] = FALSE]
            /\ agentsMd' = [agentsMd EXCEPT ![a] = Missing]
            /\ client' = [client EXCEPT ![a] = FALSE]
            /\ archives' = [archives EXCEPT ![a] = @ + 1]
            /\ job' = Left(p)
            /\ UNCHANGED phase
       ELSE Throw(p) /\ UNCHANGED files
  /\ UNCHANGED <<stored, authority, startFile, pending, accepted, removed, bounds>>

RemoveAgent(p) ==
  LET a == job[p].agent IN
  /\ On(p, "remove")
  /\ stored' = [stored EXCEPT ![a] = Missing]
  /\ removed' = removed \cup {a}
  /\ job' = Left(p)
  /\ UNCHANGED <<authority, files, startFile, phase, pending, accepted, bounds>>

----------------------------------------------------------------------------
\* Requests

Begin(p, kind, a, version) ==
  job' = [job EXCEPT ![p] = [kind |-> kind, agent |-> a, version |-> version,
                             todo |-> Plan[kind]]]

\* An id that was never used, which takes a random UUID.
Fresh == {a \in Agents \ {DemoAgent} :
            /\ stored[a] = Missing /\ accepted[a] = {}
            /\ authority[a] = "none" /\ ~directory[a]
            /\ \A p \in Procs : job[p].kind # "idle" => job[p].agent # a}

\* The routes, with the checks made before the first await.
Receive(p) ==
  /\ phase = "serving" /\ p \in Requests /\ job[p] = Idle /\ calls < MaxCalls
  /\ \/ \E a \in Fresh : Begin(p, "create", a, 1)
     \/ \E a \in Known, v \in Versions \ {1} : Begin(p, "update", a, v)
     \/ \E a \in Known \ {DemoAgent} : Begin(p, "delete", a, Missing)
     \/ DemoAgent \in Known /\ Begin(p, "rehearse", DemoAgent, 1)
  /\ calls' = calls + 1
  /\ UNCHANGED <<stored, authority, files, startFile, phase, pending, accepted, removed,
                 failures, crashes>>

Return(p) ==
  /\ p \in Requests /\ job[p] # Idle /\ job[p].todo = <<>>
  /\ job' = [job EXCEPT ![p] = Idle]
  /\ UNCHANGED <<stored, authority, files, startFile, phase, pending, accepted, removed, bounds>>

----------------------------------------------------------------------------
\* The start of the server (index.ts, keys.ts, resources.ts, initialize)

\* Where in the start a file is needed.
LoadedIn(f) == IF f \in Seeds THEN "keys" ELSE "content"

Boot ==
  /\ phase = "down"
  /\ phase' = "keys"
  /\ UNCHANGED <<stored, authority, files, startFile, job, pending, accepted, removed, bounds>>

\* loadOrCreateSeed, and contentProvider.initialize once the keys are loaded: a file
\* that is missing is created and written in two steps.
CreateFile(f) ==
  /\ phase = LoadedIn(f) /\ startFile[f] = "absent"
  /\ startFile' = [startFile EXCEPT ![f] = "opened"]
  /\ UNCHANGED <<stored, authority, files, phase, job, pending, accepted, removed, bounds>>

WriteFile(f) ==
  /\ phase = LoadedIn(f) /\ startFile[f] = "opened"
  /\ startFile' = [startFile EXCEPT ![f] = "whole"]
  /\ UNCHANGED <<stored, authority, files, phase, job, pending, accepted, removed, bounds>>

\* A file that was created and not written stays short when the process ends.
CutShort == [f \in StartFiles |-> IF startFile[f] = "opened" THEN "short" ELSE startFile[f]]

\* assertSeed, parseProtectedContent: a short file ends the start.
RejectFile(f) ==
  /\ phase = LoadedIn(f) /\ startFile[f] = "short"
  /\ phase' = "down"
  /\ startFile' = CutShort
  /\ UNCHANGED <<stored, authority, files, job, pending, accepted, removed, bounds>>

\* The services are made once both keys are loaded; the content comes next.
KeysLoaded ==
  /\ phase = "keys" /\ \A f \in Seeds : startFile[f] = "whole"
  /\ phase' = "content"
  /\ UNCHANGED <<stored, authority, files, startFile, job, pending, accepted, removed, bounds>>

\* authority.initialize, once the content is loaded: the Mandate of the demo Agent is
\* installed if there is none yet.
InstallDemoAuthority ==
  /\ phase = "content" /\ startFile["content"] = "whole"
  /\ phase' = "recovery"
  /\ authority' = [authority EXCEPT ![DemoAgent] = IF @ = "none" THEN "active" ELSE @]
  /\ UNCHANGED <<stored, files, startFile, job, pending, accepted, removed, bounds>>

\* Runs left open are closed (module AgentRuns) and the list of Agents is read once.
ListAgents ==
  /\ phase = "recovery"
  /\ phase' = "agents"
  /\ pending' = Known
  /\ UNCHANGED <<stored, authority, files, startFile, job, accepted, removed, bounds>>

\* The store cannot persist the mutation of either: the start ends.
InitializeFails ==
  /\ failures < MaxFailures
  /\ \/ phase = "content" /\ startFile["content"] = "whole" /\ authority[DemoAgent] = "none"
     \/ phase = "recovery"
  /\ failures' = failures + 1
  /\ phase' = "down"
  /\ UNCHANGED <<stored, authority, files, startFile, job, pending, accepted, removed,
                 calls, crashes>>

\* mutant: an Agent whose directory exists is skipped
EnsureMissing ==
  /\ phase = "agents" /\ job[Server].todo = <<>>
  /\ \E a \in pending :
       /\ IF directory[a] THEN UNCHANGED job ELSE Begin(Server, "ensure", a, stored[a])
       /\ pending' = pending \ {a}
  /\ UNCHANGED <<stored, authority, files, startFile, phase, accepted, removed, bounds>>
EnsureNext ==
  /\ phase = "agents" /\ job[Server].todo = <<>>
  /\ \E a \in pending :
       /\ Begin(Server, "ensure", a, stored[a])
       /\ pending' = pending \ {a}
  /\ UNCHANGED <<stored, authority, files, startFile, phase, accepted, removed, bounds>>

\* ensureDemoAgent: ensured once more, or created.
EnsureDemo ==
  /\ phase = "agents" /\ job[Server].todo = <<>> /\ pending = {}
  /\ phase' = "demo"
  /\ IF DemoAgent \in Known
       THEN Begin(Server, "ensure", DemoAgent, stored[DemoAgent])
       ELSE Begin(Server, "create", DemoAgent, 1)
  /\ UNCHANGED <<stored, authority, files, startFile, pending, accepted, removed, bounds>>

Listen ==
  /\ phase = "demo" /\ job[Server].todo = <<>>
  /\ phase' = "serving"
  /\ job' = [job EXCEPT ![Server] = Idle]
  /\ UNCHANGED <<stored, authority, files, startFile, pending, accepted, removed, bounds>>

\* The process dies.
Crash ==
  /\ phase # "down" /\ crashes < MaxCrashes
  /\ phase' = "down"
  /\ job' = [p \in Procs |-> Idle]
  /\ pending' = {}
  /\ startFile' = CutShort
  /\ crashes' = crashes + 1
  /\ UNCHANGED <<stored, authority, files, accepted, removed, calls, failures>>

----------------------------------------------------------------------------
\* Specification

Init ==
  /\ stored = [a \in Agents |-> Missing]
  /\ authority = [a \in Agents |-> "none"]
  /\ directory = [a \in Agents |-> FALSE]
  /\ agentsMd = [a \in Agents |-> Missing]
  /\ client = [a \in Agents |-> FALSE]
  /\ archives = [a \in Agents |-> 0]
  /\ startFile = [f \in StartFiles |-> "absent"]
  /\ phase = "down"
  /\ job = [p \in Procs |-> Idle]
  /\ pending = {}
  /\ accepted = [a \in Agents |-> {}]
  /\ removed = {}
  /\ calls = 0 /\ failures = 0 /\ crashes = 0

\* The next step of a handler that is under way.
Step(p) ==
  \/ MakeDirectory(p) \/ WriteInstructions(p) \/ WriteClient(p)
  \/ InstallAuthority(p) \/ PushAgent(p) \/ UpdateRecord(p) \/ InstallSuccessor(p)
  \/ Refused(p) \/ RetireAgent(p) \/ RevokeAuthority(p) \/ ArchiveWorkspace(p) \/ RemoveAgent(p)
  \/ Return(p)

Start == \/ Boot \/ KeysLoaded \/ InstallDemoAuthority \/ ListAgents
         \/ EnsureNext \/ EnsureDemo \/ Listen
         \/ \E f \in StartFiles : CreateFile(f) \/ WriteFile(f) \/ RejectFile(f)

Next == \/ Start \/ InitializeFails \/ Crash
        \/ \E p \in Procs : Step(p) \/ StoreFails(p) \/ Receive(p)

\* The start and the handlers go on, and the operator starts the server again.
Fairness == WF_vars(Start) /\ \A p \in Procs : WF_vars(Step(p))

Spec == Init /\ [][Next]_vars /\ Fairness

----------------------------------------------------------------------------
\* Properties

\* While the server takes requests, every Agent in the store has an authority
\* record, and a workspace unless a deletion has archived it (agent-service.ts,
\* the order of createAgent and of deleteAgent).
StoredAgentIsWhole ==
  \A a \in Known : /\ authority[a] # "none"
                   /\ phase = "serving" => directory[a] \/ archives[a] > 0

\* A deleted Agent leaves no Mandate in force, whatever overlapped its deletion
\* (deleteAgent, which retires the Agent before it removes it).
DeletedAgentHasNoAuthority == \A a \in removed : authority[a] # "active"

\* AGENTS.md of an Agent in the store never holds a configuration that the store
\* has refused or lost (updateAgent, which writes the file after the mutation).
InstructionsWereAccepted ==
  \A a \in Known : agentsMd[a] # Missing => agentsMd[a] \in accepted[a]

\* Whenever the server begins to serve, every Agent in the store has its
\* workspace with the current configuration and the client, whatever crashes,
\* failures and overlapping requests have left behind (initialize).
StartRepairs ==
  phase # "serving" /\ phase' = "serving"
    => \A a \in Known' : directory'[a] /\ agentsMd'[a] = stored'[a] /\ client'[a]
StartsRepair == [][StartRepairs]_vars

\* The server comes up again after crashes and failures: nothing they leave
\* behind keeps it down, except a seed or the content cut short by a crash between the
\* creation of the file and its write (keys.ts:60, resources.ts:57).
ServerComesUp == <>[](phase = "serving" \/ \E f \in StartFiles : startFile[f] = "short")

=============================================================================
