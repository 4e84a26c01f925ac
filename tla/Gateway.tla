------------------------------ MODULE Gateway -------------------------------
(***************************************************************************)
(* The enforcement path: PrincipalLatchGateway.readDocument together with  *)
(* everything it races with on one Agent's authority, namely revocation,   *)
(* fresh rehearsal (issueSuccessor), retirement, the end of the Passport   *)
(* session, expiry, store failures and a restart of the server.            *)
(*                                                                         *)
(* An operation is one call: a request of the Agent, or an administrative  *)
(* call of its owner.  What runs between two awaits is one action.  A      *)
(* signature check ends after an arbitrary delay and judges the record     *)
(* and the instant captured before it.  A store mutation commits or fails  *)
(* as a whole (JsonStore shows why).  The promise chain of a Mandate is    *)
(* used through its promise, a queue whose head owns the lease (FifoLock,  *)
(* which MandateLease implements).                                         *)
(*                                                                         *)
(* Cryptography is abstract: a token is the index of a Passport the broker *)
(* signed, or 0 for anything that does not verify; a record is what its    *)
(* signed Mandate says.                                                    *)
(***************************************************************************)
EXTENDS Naturals, Sequences

CONSTANTS Requests,      \* calls of readDocument
          Admins,        \* calls of revokeMandate, deleteAgent, startFreshDemoRehearsal
          Mandates,      \* Mandate identifiers; a successor takes an unused one
          FirstMandate,  \* the Mandate installed for the Agent at first start
          Permanent,     \* the demo Agent: rehearsed, never deleted
          None,
          PassportTTL,   \* lifetime of a Passport
          ReuseMargin,   \* a cached Passport this close to expiry is not reused
          MandateTTL,    \* validity of an issued Mandate (7 days)
          MaxTime, MaxPassports, MaxRestarts  \* bounds of the model

Record == [rev : Nat, status : {"active", "revoked"}, until : Nat,
           replacedBy : Mandates \cup {None}]

ASSUME GatewayAssumption ==
  /\ Requests \cap Admins = {} /\ None \notin Requests \cup Admins
  /\ FirstMandate \in Mandates /\ None \notin Mandates \cup Record
  /\ Permanent \in BOOLEAN
  /\ PassportTTL \in Nat /\ ReuseMargin \in Nat /\ MandateTTL \in Nat \ {0}
  /\ MaxTime \in Nat /\ MaxPassports \in Nat /\ MaxRestarts \in Nat

VARIABLES now,           \* the clock
          session,       \* PassportBroker.sessions of the Agent: a Passport, or 0
          passports,     \* every Passport issued so far
          agentMandate,  \* durable: mandateId of the Agent
          records,       \* durable: current authority record of each Mandate
          audit,         \* durable: events appended for each request, in order
          leases,        \* operations queued on each Mandate
          pc, kind, target, seen, at, rev, result,  \* locals of each operation
          token, resource,                          \* what a request presents
          reads,         \* history: outcome of each provider call for a request
          restarts

passportVars == <<session, passports>>
durableVars  == <<agentMandate, records, audit>>
contextVars  == <<now, passportVars, restarts>>
nameVars     == <<kind, target, rev>>
callVars     == <<nameVars, seen, at>>
requestVars  == <<token, resource, reads>>
vars == <<now, passportVars, durableVars, leases,
          pc, kind, target, seen, at, rev, result, requestVars, restarts>>

Ops == Requests \cup Admins

Resources == {"own", "foreign", "unknown"}  \* owner relation to the Passport's principal

Passport == [mandate : Mandates, exp : Nat]

EventKinds == {"allow", "deny", "rejection",
               "attempting", "succeeded", "failed", "not_attempted"}
Event == [kind : EventKinds, rev : Nat]

Progress == {"idle", "verifying", "rejecting", "denying", "allowing", "waiting",
             "leased", "settling", "recording", "committing", "done"}
Results == {"none", "200", "403", "502", "503 before", "503 after", "lost",
            "committed", "refused", "failed", "not needed"}

WorldType == /\ now \in Nat /\ restarts \in Nat
             /\ session \in Nat
             /\ passports \in Seq(Passport)
StoreType == /\ agentMandate \in Mandates
             /\ records \in [Mandates -> Record \cup {None}]
             /\ audit \in [Requests -> Seq(Event)]
LeaseType == leases \in [Mandates -> Seq(Ops)]
CallType  == /\ pc \in [Ops -> Progress]
             /\ kind \in [Ops -> {"read", "revoke", "rehearse"}]
             /\ target \in [Ops -> Mandates \cup {None}]
             /\ rev \in [Ops -> Nat]
             /\ result \in [Ops -> Results]
SeenType  == /\ seen \in [Ops -> Record \cup {None}]
             /\ at \in [Ops -> Nat]
ReadType  == /\ token \in [Requests -> Nat]
             /\ resource \in [Requests -> Resources]
             /\ reads \in [Requests -> Seq({"ok", "error"})]
TypeOK == /\ WorldType /\ StoreType /\ LeaseType
          /\ CallType  /\ SeenType  /\ ReadType

-----------------------------------------------------------------------------
\* What issueRecord makes at an instant.
Issued(instant) ==
  [rev |-> 1, status |-> "active", until |-> instant + MandateTTL, replacedBy |-> None]

Init ==
  /\ now = 0 /\ restarts = 0
  /\ session = 0 /\ passports = <<>>
  /\ agentMandate = FirstMandate
  /\ records = [m \in Mandates |-> IF m = FirstMandate THEN Issued(0) ELSE None]
  /\ audit = [r \in Requests |-> <<>>]
  /\ leases = [m \in Mandates |-> <<>>]
  /\ pc = [o \in Ops |-> "idle"]
  /\ kind = [o \in Ops |-> "read"]
  /\ target = [o \in Ops |-> None]
  /\ seen = [o \in Ops |-> None]
  /\ at = [o \in Ops |-> 0]
  /\ rev = [o \in Ops |-> 0]
  /\ result = [o \in Ops |-> "none"]
  /\ token = [r \in Requests |-> 0]
  /\ resource = [r \in Requests |-> "own"]
  /\ reads = [r \in Requests |-> <<>>]

\* mandateLifecycleState and the lifecycle check of verifyRecord.
Active(record, instant) ==
  /\ record # None
  /\ record.status = "active"
  /\ instant < record.until
  /\ record.replacedBy = None

\* PassportBroker.verifyAuthorization.
PassportAccepted(t) ==
  /\ t # 0
  /\ now < passports[t].exp
  /\ t = session


HoldsAnyPlace(o) == \E i \in 1 .. Len(leases[target[o]]) : leases[target[o]][i] = o  \* mutant
Holds(o) == leases[target[o]] # <<>> /\ Head(leases[target[o]]) = o

Go(o, next) == pc' = [pc EXCEPT ![o] = next]

JoinAtFront(o, m) == leases' = [leases EXCEPT ![m] = <<o>> \o @]   \* mutant
KeepLease(o)      == UNCHANGED leases                            \* mutant
JoinLease(o, m)   == leases' = [leases EXCEPT ![m] = Append(@, o)]
ReleaseLease(o)   == leases' = [leases EXCEPT ![target[o]] = Tail(@)]

\* The call returns or throws; its captured record and instant go with it.
Finish(o, outcome) == /\ Go(o, "done")
                      /\ result' = [result EXCEPT ![o] = outcome]
                      /\ seen' = [seen EXCEPT ![o] = None]
                      /\ at' = [at EXCEPT ![o] = 0]

\* The store's current record and the clock, captured before a signature check.
Capture(o, m) == /\ seen' = [seen EXCEPT ![o] = records[m]]
                 /\ at' = [at EXCEPT ![o] = now]

Ev(k) == [kind |-> k, rev |-> 0]
Decision(k, n) == [kind |-> k, rev |-> n]

AllowOnly(n)   == <<Decision("allow", n)>>                        \* mutant
\* The two events every request appends in one mutation.
AllowTrail(n)  == <<Decision("allow", n), Ev("attempting")>>
DenyTrail(n)   == <<Decision("deny", n), Ev("not_attempted")>>
RejectionTrail == <<Ev("rejection"), Ev("not_attempted")>>

AppendEvents(r, events) == audit' = [audit EXCEPT ![r] = @ \o events]

-----------------------------------------------------------------------------
(* readDocument *)

\* The Passport is refused: a security rejection is about to be recorded.
ReceiveUnauthenticated(r, t, x) ==
  /\ pc[r] = "idle"
  /\ ~PassportAccepted(t)
  /\ token' = [token EXCEPT ![r] = t]
  /\ resource' = [resource EXCEPT ![r] = x]
  /\ Go(r, "rejecting")
  /\ UNCHANGED <<contextVars, durableVars, leases, callVars, result, reads>>

\* The Passport is accepted: verifyCurrent has captured the record.
Receive(r, t, x) ==
  /\ pc[r] = "idle"
  /\ PassportAccepted(t)
  /\ token' = [token EXCEPT ![r] = t]
  /\ resource' = [resource EXCEPT ![r] = x]
  /\ target' = [target EXCEPT ![r] = passports[t].mandate]
  /\ Capture(r, passports[t].mandate)
  /\ Go(r, "verifying")
  /\ UNCHANGED <<contextVars, durableVars, leases, kind, rev, result, reads>>

VerifyRejects(r) ==
  /\ pc[r] = "verifying"
  /\ ~Active(seen[r], at[r])
  /\ Go(r, "rejecting")
  /\ UNCHANGED <<contextVars, durableVars, leases, callVars, result, requestVars>>

\* The rule needs a resource that exists and that the principal owns.
VerifyAccepts(r) ==
  /\ pc[r] = "verifying"
  /\ Active(seen[r], at[r])
  /\ rev' = [rev EXCEPT ![r] = seen[r].rev]
  /\ Go(r, IF resource[r] = "own" THEN "allowing" ELSE "denying")
  /\ UNCHANGED <<contextVars, durableVars, leases, kind, target, seen, at, result, requestVars>>

RecordRejection(r) ==
  /\ pc[r] = "rejecting"
  /\ AppendEvents(r, RejectionTrail)
  /\ Finish(r, "403")
  /\ UNCHANGED <<contextVars, agentMandate, records, leases, nameVars, requestVars>>

RecordDenial(r) ==
  /\ pc[r] = "denying"
  /\ AppendEvents(r, DenyTrail(rev[r]))
  /\ Finish(r, "403")
  /\ UNCHANGED <<contextVars, agentMandate, records, leases, nameVars, requestVars>>

\* The decision and the attempt are durable before the request asks for the lease.
RecordAttempt(r) ==
  /\ pc[r] = "allowing"
  /\ AppendEvents(r, AllowTrail(rev[r]))
  /\ JoinLease(r, target[r])
  /\ Go(r, "waiting")
  /\ UNCHANGED <<contextVars, agentMandate, records, callVars, result, requestVars>>

\* The store refused the evidence: fail closed.
EvidenceLost(r) ==
  /\ pc[r] \in {"rejecting", "denying", "allowing"}
  /\ Finish(r, "503 before")
  /\ UNCHANGED <<contextVars, durableVars, leases, nameVars, requestVars>>

\* withVerifiedCurrentLease: the request's turn has come, verifyCurrent starts again.
EnterLease(r) ==
  /\ pc[r] = "waiting"
  /\ Holds(r)
  /\ Capture(r, target[r])
  /\ Go(r, "leased")
  /\ UNCHANGED <<contextVars, durableVars, leases, kind, target, rev, result, requestVars>>

\* mutant: the Passport is not checked again
StillMandated(r) == Active(seen[r], at[r]) /\ seen[r].rev = rev[r]
\* What is checked again under the lease.
StillAuthorized(r) ==
  /\ Active(seen[r], at[r])
  /\ seen[r].rev = rev[r]
  /\ PassportAccepted(token[r])

\* No await separates the Passport check from the call of the provider.
ReadContent(r) ==
  /\ pc[r] = "leased"
  /\ StillAuthorized(r)
  /\ \E outcome \in {"ok", "error"} : reads' = [reads EXCEPT ![r] = Append(@, outcome)]
  /\ Go(r, "settling")
  /\ UNCHANGED <<contextVars, durableVars, leases, callVars, result, token, resource>>

RefuseUnderLease(r) ==
  /\ pc[r] = "leased"
  /\ ~StillAuthorized(r)
  /\ ReleaseLease(r)
  /\ Go(r, "rejecting")
  /\ UNCHANGED <<contextVars, durableVars, callVars, result, requestVars>>

\* The provider's promise settles and the lease is released.
SettleRead(r) ==
  /\ pc[r] = "settling"
  /\ ReleaseLease(r)
  /\ Go(r, "recording")
  /\ UNCHANGED <<contextVars, durableVars, callVars, result, requestVars>>

ReadOutcome(r) == reads[r][Len(reads[r])]

RecordOutcome(r) ==
  /\ pc[r] = "recording"
  /\ AppendEvents(r, <<Ev(IF ReadOutcome(r) = "ok" THEN "succeeded" ELSE "failed")>>)
  /\ Finish(r, IF ReadOutcome(r) = "ok" THEN "200" ELSE "502")
  /\ UNCHANGED <<contextVars, agentMandate, records, leases, nameVars, requestVars>>

\* mutant: an attempted read answered as if none had been attempted
OutcomeLostAsEvidence(r) ==
  /\ pc[r] = "recording"
  /\ Finish(r, "503 before")
  /\ UNCHANGED <<contextVars, durableVars, leases, nameVars, requestVars>>
\* The outcome could not be recorded: the answer says it is indeterminate.
OutcomeLost(r) ==
  /\ pc[r] = "recording"
  /\ Finish(r, "503 after")
  /\ UNCHANGED <<contextVars, durableVars, leases, nameVars, requestVars>>

-----------------------------------------------------------------------------
(* Revocation, retirement and fresh rehearsal *)

Installed == {m \in Mandates : records[m] # None}

\* mutants
RevokedSameRevision(record, successor) ==
  [rev |-> record.rev, status |-> "revoked", until |-> record.until, replacedBy |-> successor]
RevokedStillActive(record, successor) ==
  [rev |-> record.rev + 1, status |-> "active", until |-> record.until, replacedBy |-> successor]

\* What issueRevokedRevision makes of a record.
Revoked(record, successor) ==
  [rev |-> record.rev + 1, status |-> "revoked", until |-> record.until, replacedBy |-> successor]

\* AgentService.revokeMandate: the Mandate is the one the Agent has now.
StartRevoke(a) ==
  /\ pc[a] = "idle"
  /\ kind' = [kind EXCEPT ![a] = "revoke"]
  /\ target' = [target EXCEPT ![a] = agentMandate]
  /\ JoinLease(a, agentMandate)
  /\ Go(a, "waiting")
  /\ UNCHANGED <<contextVars, durableVars, seen, at, rev, result, requestVars>>

\* retireAgent: the session ends; an active Mandate is then revoked.
StartRetire(a) ==
  /\ pc[a] = "idle" /\ ~Permanent
  /\ session' = 0
  /\ kind' = [kind EXCEPT ![a] = "revoke"]
  /\ target' = [target EXCEPT ![a] = agentMandate]
  /\ IF Active(records[agentMandate], now)
       THEN /\ JoinLease(a, agentMandate)
            /\ Go(a, "waiting")
            /\ UNCHANGED <<seen, at, result>>
       ELSE /\ Finish(a, "not needed")
            /\ UNCHANGED leases
  /\ UNCHANGED <<now, passports, restarts, durableVars, rev, requestVars>>

\* startFreshDemoRehearsal: the owner names the Mandate and revision that the
\* Agent has now, and the session ends before the successor is asked for.
StartRehearsal(a) ==
  /\ pc[a] = "idle" /\ Permanent
  /\ session' = 0
  /\ kind' = [kind EXCEPT ![a] = "rehearse"]
  /\ target' = [target EXCEPT ![a] = agentMandate]
  /\ rev' = [rev EXCEPT ![a] = records[agentMandate].rev]
  /\ JoinLease(a, agentMandate)
  /\ Go(a, "waiting")
  /\ UNCHANGED <<now, passports, restarts, durableVars, seen, at, result, requestVars>>

EnterAdmin(a) ==
  /\ pc[a] = "waiting"
  /\ Holds(a)
  /\ Capture(a, target[a])
  /\ Go(a, "verifying")
  /\ UNCHANGED <<contextVars, durableVars, leases, kind, target, rev, result, requestVars>>

\* Revocation needs an active record, a rehearsal the revision it was asked for.
Eligible(a) == \/ kind[a] = "revoke" /\ Active(seen[a], at[a])
               \/ kind[a] = "rehearse" /\ seen[a].rev = rev[a]

RefuseAdmin(a) ==
  /\ pc[a] = "verifying"
  /\ ~Eligible(a)
  /\ ReleaseLease(a)
  /\ Finish(a, "refused")
  /\ UNCHANGED <<contextVars, durableVars, nameVars, requestVars>>

\* The next records are signed; `at` becomes their time of issue.
SignRecords(a) ==
  /\ pc[a] = "verifying"
  /\ Eligible(a)
  /\ at' = [at EXCEPT ![a] = now]
  /\ Go(a, "committing")
  /\ UNCHANGED <<contextVars, durableVars, leases, kind, target, seen, rev, result,
                 requestVars>>

\* The compare-and-set of both mutations.
Unchanged(a) == records[target[a]] # None /\ records[target[a]].rev = seen[a].rev

CommitRevoke(a) ==
  /\ pc[a] = "committing"
  /\ kind[a] = "revoke"
  /\ Unchanged(a)
  /\ records' = [records EXCEPT ![target[a]] = Revoked(seen[a], None)]
  /\ ReleaseLease(a)
  /\ Finish(a, "committed")
  /\ UNCHANGED <<contextVars, agentMandate, audit, nameVars, requestVars>>

\* Predecessor, successor and the Agent change together.
CommitSuccessor(a) ==
  /\ pc[a] = "committing"
  /\ kind[a] = "rehearse"
  /\ Unchanged(a)
  /\ agentMandate = target[a]
  /\ \E s \in Mandates \ Installed :
       /\ records' = [records EXCEPT
                        ![target[a]] = Revoked(seen[a], s),
                        ![s] = Issued(at[a])]
       /\ agentMandate' = s
  /\ ReleaseLease(a)
  /\ Finish(a, "committed")
  /\ UNCHANGED <<contextVars, audit, nameVars, requestVars>>

\* The store fails, or the Agent is busy when the successor is applied.
CommitFails(a) ==
  /\ pc[a] = "committing"
  /\ ReleaseLease(a)
  /\ Finish(a, "failed")
  /\ UNCHANGED <<contextVars, durableVars, nameVars, requestVars>>

-----------------------------------------------------------------------------
(* The session, the clock and the process *)

Reusable == /\ session # 0
            /\ passports[session].mandate = agentMandate
            /\ passports[session].exp > now + ReuseMargin

\* getOrIssue when it does not return the cached Passport (when it does, nothing
\* changes).  A reservation that fails to persist has still issued.
IssuePassport ==
  /\ ~Reusable
  /\ Len(passports) < MaxPassports
  /\ passports' = Append(passports, [mandate |-> agentMandate, exp |-> now + PassportTTL])
  /\ session' = Len(passports) + 1
  /\ UNCHANGED <<now, restarts, durableVars, leases, pc, callVars, result, requestVars>>

\* stopAgent ends the session.
EndSession ==
  /\ session # 0
  /\ session' = 0
  /\ UNCHANGED <<now, passports, restarts, durableVars, leases, pc, callVars, result,
                 requestVars>>

Tick ==
  /\ now < MaxTime
  /\ now' = now + 1
  /\ UNCHANGED <<passportVars, restarts, durableVars, leases, pc, callVars, result,
                 requestVars>>

Running == {o \in Ops : pc[o] \notin {"idle", "done"}}

\* The process dies and starts again: only the store survives.
Restart ==
  /\ restarts < MaxRestarts
  /\ restarts' = restarts + 1
  /\ session' = 0
  /\ leases' = [m \in Mandates |-> <<>>]
  /\ pc' = [o \in Ops |-> IF o \in Running THEN "done" ELSE pc[o]]
  /\ result' = [o \in Ops |-> IF o \in Running THEN "lost" ELSE result[o]]
  /\ seen' = [o \in Ops |-> IF o \in Running THEN None ELSE seen[o]]
  /\ at' = [o \in Ops |-> IF o \in Running THEN 0 ELSE at[o]]
  /\ UNCHANGED <<now, passports, durableVars, nameVars, requestVars>>

-----------------------------------------------------------------------------
\* The steps a running request takes by itself.
RequestStep(r) ==
  \/ VerifyRejects(r)   \/ VerifyAccepts(r)
  \/ RecordRejection(r) \/ RecordDenial(r)     \/ RecordAttempt(r) \/ EvidenceLost(r)
  \/ EnterLease(r)      \/ ReadContent(r)      \/ RefuseUnderLease(r)
  \/ SettleRead(r)      \/ RecordOutcome(r)    \/ OutcomeLost(r)

AdminStep(a) ==
  \/ EnterAdmin(a)   \/ RefuseAdmin(a)     \/ SignRecords(a)
  \/ CommitRevoke(a) \/ CommitSuccessor(a) \/ CommitFails(a)

Next ==
  \/ \E r \in Requests, t \in 0 .. Len(passports), x \in Resources :
       ReceiveUnauthenticated(r, t, x) \/ Receive(r, t, x)
  \/ \E r \in Requests : RequestStep(r)
  \/ \E a \in Admins : StartRevoke(a) \/ StartRetire(a) \/ StartRehearsal(a)
  \/ \E a \in Admins : AdminStep(a)
  \/ IssuePassport \/ EndSession \/ Tick \/ Restart

\* A signature check, a provider call and a store mutation each settle; nothing
\* obliges a caller to call, the clock to tick or the process to die.
Fairness == /\ \A r \in Requests : WF_vars(RequestStep(r))
            /\ \A a \in Admins : WF_vars(AdminStep(a))

Spec == Init /\ [][Next]_vars /\ Fairness

-----------------------------------------------------------------------------
(* What the enforcement path promises *)

KindsOf(r) == {audit[r][i].kind : i \in 1 .. Len(audit[r])}

\* Protected content is read only for a Passport that is the live, unexpired
\* session, under a Mandate that is active in the store at that very moment, at the
\* revision that the durable decision names, after decision and attempt are durable,
\* and for a resource of the principal (readDocument, whatever ran since it began).
LiveAuthority(r) ==
  LET record == records[passports[token[r]].mandate]
  IN  /\ token[r] = session /\ now < passports[token[r]].exp
      /\ record # None /\ record.status = "active" /\ at[r] < record.until
      /\ audit[r] = AllowTrail(record.rev)
      /\ resource[r] = "own"
ReadsOnlyUnderLiveAuthority ==
  [][\A r \in Requests : reads'[r] # reads[r] => LiveAuthority(r)]_vars

\* Once a revocation or a rehearsal has returned to its caller, no read starts under
\* the Mandate it ended, not even for a request that was allowed before.
NoReadAfterRevocation ==
  [][\A a \in Admins, r \in Requests :
       result[a] = "committed" /\ target[a] = target[r] => reads'[r] = reads[r]]_vars

\* A committed record moves only forward: its revision grows by one with every
\* change, a revoked Mandate is never active again, a successor once named stays.
RecordsMoveForward ==
  [][\A m \in Mandates : records[m] # None /\ records'[m] # records[m] =>
       /\ records'[m] # None
       /\ records'[m].rev = records[m].rev + 1
       /\ records'[m].status = "revoked"
       /\ records[m].replacedBy # None => records'[m].replacedBy = records[m].replacedBy]_vars

\* At most one Mandate of the Agent is active, the one the Agent's record names,
\* and every other leads by replacedBy to another Mandate that is installed.
OneActiveMandate ==
  \A m \in Installed : IF m = agentMandate
                       THEN records[m].replacedBy = None
                       ELSE /\ records[m].status = "revoked"
                            /\ records[m].replacedBy \in Installed \ {m}

\* The operation that owns a Mandate's lease works on the record that is in the
\* store, so the compare-and-set of revoke and issueSuccessor cannot fail.
Critical(o) == \/ o \in Requests /\ pc[o] \in {"leased", "settling"}
               \/ o \in Admins /\ pc[o] \in {"verifying", "committing"}
LeaseProtectsRecord == \A o \in Ops : Critical(o) => seen[o] = records[target[o]]

\* The durable trail never lies about the provider: an outcome is recorded at most
\* once, after what it reports; a read is preceded by its durable attempt; nothing
\* is recorded as not attempted that was or still could be.
Terminal == {"succeeded", "failed", "not_attempted"}
AuditTruth ==
  \A r \in Requests :
    /\ reads[r] # <<>> => {"allow", "attempting"} \subseteq KindsOf(r)
    /\ "succeeded" \in KindsOf(r) => reads[r] = <<"ok">>
    /\ "failed" \in KindsOf(r) => reads[r] = <<"error">>
    /\ "not_attempted" \in KindsOf(r) => reads[r] = <<>> /\ pc[r] = "done"
    /\ \A i, j \in 1 .. Len(audit[r]) :
         audit[r][i].kind \in Terminal /\ audit[r][j].kind \in Terminal => i = j

\* The answer agrees with the provider and with the durable trail: content only
\* with a recorded success, a denial only with recorded evidence and no read, an
\* indeterminate answer exactly when a read has no recorded outcome.
AnswerTruth ==
  \A r \in Requests : pc[r] = "done" =>
    CASE result[r] = "200" -> "succeeded" \in KindsOf(r)
      [] result[r] = "502" -> "failed" \in KindsOf(r)
      [] result[r] = "403" -> reads[r] = <<>> /\ "not_attempted" \in KindsOf(r)
      [] result[r] = "503 before" -> reads[r] = <<>> /\ KindsOf(r) \cap Terminal = {}
      [] result[r] = "503 after" -> reads[r] # <<>> /\ KindsOf(r) \cap Terminal = {}
      [] OTHER -> result[r] = "lost"

\* The operations of the module use each Mandate's lease as the lock FifoLock
\* specifies: they ask once, work only while they own it and always give it back.
Lease == INSTANCE FifoLock WITH Keys   <- Mandates,
                                queue  <- leases,
                                inside <- {o \in Ops : Critical(o)}
LeaseDiscipline == Lease!LockSpec

\* Every request is answered and every administrative call returns, unless the
\* process dies, whatever the store refuses and however calls queue up.
EveryCallReturns == \A o \in Ops : pc[o] # "idle" ~> pc[o] = "done"

-----------------------------------------------------------------------------
(* Why the promises hold: the inductive invariant of GatewayProofs *)

\* Which progress belongs to which call, and that what a call refers to exists.
Authenticated == {"verifying", "denying", "allowing", "waiting", "leased", "settling",
                  "recording"}
RequestWiring(r) ==
  /\ pc[r] # "committing"
  /\ pc[r] = "idle" => target[r] = None
  /\ token[r] \in 0 .. Len(passports)
  /\ pc[r] \in Authenticated => target[r] # None
  /\ target[r] # None => token[r] # 0 /\ target[r] = passports[token[r]].mandate
AdminWiring(a) ==
  /\ pc[a] \in {"idle", "waiting", "verifying", "committing", "done"}
  /\ IF pc[a] = "idle" THEN result[a] = "none"
                       ELSE kind[a] # "read" /\ target[a] \in Installed
  /\ result[a] = "committed" => records[target[a]].status = "revoked"
  /\ pc[a] = "committing" /\ kind[a] = "revoke" =>
       seen[a].status = "active" /\ seen[a].replacedBy = None
Wiring ==
  /\ session \in 0 .. Len(passports)
  /\ agentMandate \in Installed
  /\ \A i \in 1 .. Len(passports) : passports[i].mandate \in Installed
  /\ \A r \in Requests : RequestWiring(r)
  /\ \A a \in Admins : AdminWiring(a)

\* Whoever works under a lease is at the head of its queue.
LeaseOwned == \A o \in Ops : Critical(o) => Holds(o)

\* The trail, the provider calls and the answer of a request, by its progress.
Before == {"idle", "verifying", "denying", "allowing"}
Under  == {"waiting", "leased"}
After  == {"settling", "recording"}
TrailOf(r) ==
  /\ pc[r] \in Before => audit[r] = <<>> /\ reads[r] = <<>>
  /\ pc[r] = "allowing" => resource[r] = "own"
  /\ pc[r] \in Under => /\ audit[r] = AllowTrail(rev[r]) /\ reads[r] = <<>>
                        /\ resource[r] = "own"
  /\ pc[r] \in After => /\ audit[r] = AllowTrail(rev[r])
                        /\ reads[r] \in {<<"ok">>, <<"error">>}
  /\ pc[r] = "rejecting" => audit[r] \in {<<>>, AllowTrail(rev[r])} /\ reads[r] = <<>>
  /\ pc[r] = "done" =>
       \/ /\ result[r] = "200" /\ reads[r] = <<"ok">>
          /\ audit[r] = AllowTrail(rev[r]) \o <<Ev("succeeded")>>
       \/ /\ result[r] = "502" /\ reads[r] = <<"error">>
          /\ audit[r] = AllowTrail(rev[r]) \o <<Ev("failed")>>
       \/ /\ result[r] = "403" /\ reads[r] = <<>>
          /\ audit[r] \in {RejectionTrail, DenyTrail(rev[r]),
                           AllowTrail(rev[r]) \o RejectionTrail}
       \/ /\ result[r] = "503 before" /\ reads[r] = <<>>
          /\ audit[r] \in {<<>>, AllowTrail(rev[r])}
       \/ /\ result[r] \in {"503 after", "lost"}
          /\ audit[r] = AllowTrail(rev[r]) /\ reads[r] \in {<<"ok">>, <<"error">>}
       \/ /\ result[r] = "lost" /\ reads[r] = <<>>
          /\ audit[r] \in {<<>>, AllowTrail(rev[r])}
Trails == \A r \in Requests : TrailOf(r)

IInv == /\ TypeOK /\ Wiring /\ LeaseOwned /\ LeaseProtectsRecord
        /\ OneActiveMandate /\ Trails
=============================================================================
