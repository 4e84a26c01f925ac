---------------------------- MODULE GatewayProofs ---------------------------
(***************************************************************************)
(* The promises of the enforcement path, for any number of requests,       *)
(* administrative calls, Mandates and Passports and at any time.           *)
(***************************************************************************)
EXTENDS Gateway, SequenceTheorems, TLAPS

\* A Mandate that is installed has a record.
LEMMA InstalledRecord ==
  ASSUME TypeOK, NEW m \in Installed
  PROVE  m \in Mandates /\ records[m] \in Record /\ records[m].rev \in Nat
BY DEF TypeOK, StoreType, Installed, Record

\* The records that the authority signs.
LEMMA SignedTypes ==
  ASSUME NEW record \in Record, NEW s \in Mandates \cup {None}, NEW instant \in Nat
  PROVE  Revoked(record, s) \in Record /\ Issued(instant) \in Record
<1>1. record.rev \in Nat /\ record.until \in Nat
  BY DEF Record
<1>2. instant + MandateTTL \in Nat
  BY GatewayAssumption
<1> QED BY <1>1, <1>2 DEF Record, Revoked, Issued

\* The events that a request appends, and a trail they are appended to.
LEMMA EventTypes ==
  ASSUME NEW n \in Nat
  PROVE  /\ AllowTrail(n) \in Seq(Event) /\ DenyTrail(n) \in Seq(Event)
         /\ RejectionTrail \in Seq(Event)
         /\ <<Ev("succeeded")>> \in Seq(Event) /\ <<Ev("failed")>> \in Seq(Event)
BY DEF AllowTrail, DenyTrail, RejectionTrail, Ev, Decision, Event, EventKinds

\* Appending a request's events keeps the type of the store.
LEMMA AppendType ==
  ASSUME StoreType, NEW r \in Requests, NEW events \in Seq(Event), AppendEvents(r, events),
         UNCHANGED <<agentMandate, records>>
  PROVE  StoreType'
<1>1. audit[r] \o events \in Seq(Event)
  BY DEF StoreType
<1> QED BY <1>1 DEF StoreType, AppendEvents

\* A Passport that was issued is one, and names a Mandate.
LEMMA PassportFacts ==
  ASSUME TypeOK, NEW t \in 1 .. Len(passports)
  PROVE  passports[t] \in Passport /\ passports[t].mandate \in Mandates
<1>1. passports \in Seq(Passport)
  BY DEF TypeOK, WorldType
<1>2. passports[t] \in Passport
  BY <1>1
<1> QED BY <1>2 DEF Passport

\* Joining a queue keeps the type of the queues.
LEMMA JoinType ==
  ASSUME LeaseType, NEW o \in Ops, NEW m, JoinLease(o, m)
  PROVE  LeaseType'
<1>1. CASE m \in Mandates
  <2>1. Append(leases[m], o) \in Seq(Ops)
    BY <1>1 DEF LeaseType
  <2> QED BY <2>1 DEF LeaseType, JoinLease
<1>2. CASE m \notin Mandates
  BY <1>2 DEF LeaseType, JoinLease
<1> QED BY <1>1, <1>2

\* Whoever works under a lease owns the queue of an installed Mandate, and the
\* record it captured is the one in the store.
LEMMA CriticalFacts ==
  ASSUME IInv, NEW o \in Ops, Critical(o)
  PROVE  /\ target[o] \in Installed /\ target[o] \in Mandates
         /\ leases[target[o]] \in Seq(Ops) /\ leases[target[o]] # <<>>
         /\ Head(leases[target[o]]) = o
         /\ seen[o] = records[target[o]] /\ seen[o] \in Record
<1>1. target[o] \in Installed
  <2>1. CASE o \in Requests /\ pc[o] \in {"leased", "settling"}
    <3>1. /\ target[o] = passports[token[o]].mandate
          /\ token[o] \in 1 .. Len(passports)
      BY <2>1 DEF IInv, Wiring, RequestWiring, Authenticated, TypeOK, WorldType
    <3> QED BY <3>1 DEF IInv, Wiring
  <2>2. CASE o \in Admins /\ pc[o] \in {"verifying", "committing"}
    BY <2>2 DEF IInv, Wiring, AdminWiring
  <2> QED BY <2>1, <2>2 DEF Critical
<1>2. target[o] \in Mandates /\ records[target[o]] \in Record
  BY <1>1, InstalledRecord DEF IInv
<1>3. leases[target[o]] \in Seq(Ops)
  BY <1>2 DEF IInv, TypeOK, LeaseType
<1>4. Holds(o) /\ seen[o] = records[target[o]]
  BY DEF IInv, LeaseOwned, LeaseProtectsRecord
<1> QED BY <1>1, <1>2, <1>3, <1>4 DEF Holds

\* A call that waits for a lease waits for that of an installed Mandate.
LEMMA WaitingTarget ==
  ASSUME IInv, NEW o \in Ops, pc[o] = "waiting"
  PROVE  target[o] \in Installed /\ target[o] \in Mandates
<1>1. CASE o \in Requests
  <2>1. target[o] = passports[token[o]].mandate /\ token[o] \in 1 .. Len(passports)
    BY <1>1 DEF IInv, Wiring, RequestWiring, Authenticated, TypeOK, WorldType
  <2> QED BY <2>1 DEF IInv, Wiring, Installed
<1>2. CASE o \in Admins
  BY <1>2 DEF IInv, Wiring, AdminWiring, Installed
<1> QED BY <1>1, <1>2 DEF Ops

\* The first start of the server satisfies the invariant.
LEMMA InitInvariant == Init => IInv
<1> SUFFICES ASSUME Init PROVE IInv
  OBVIOUS
<1> USE GatewayAssumption DEF Init
<1>0. Issued(0) \in Record
  BY DEF Issued, Record
<1>1. TypeOK
  <2>1. WorldType
    BY DEF WorldType
  <2>2. StoreType
    BY <1>0 DEF StoreType
  <2>3. LeaseType /\ ReadType
    BY DEF LeaseType, ReadType, Resources
  <2>4. CallType /\ SeenType
    BY DEF CallType, SeenType, Progress, Results
  <2> QED BY <2>1, <2>2, <2>3, <2>4 DEF TypeOK
<1>2. Wiring
  <2>1. Issued(0) # None
    BY <1>0
  <2>2. agentMandate \in Installed /\ Len(passports) = 0
    BY <2>1 DEF Installed
  <2> QED BY <2>2 DEF Wiring, RequestWiring, AdminWiring, Authenticated, Ops
<1>3. LeaseOwned /\ LeaseProtectsRecord
  BY DEF LeaseOwned, LeaseProtectsRecord, Critical, Ops
<1>4. OneActiveMandate
  BY DEF OneActiveMandate, Installed, Issued
<1>5. Trails
  BY DEF Trails, TrailOf, Before, Under, After, Ops
<1> QED BY <1>1, <1>2, <1>3, <1>4, <1>5 DEF IInv

-----------------------------------------------------------------------------
(* A step leaves every variable in its type. *)

\* The clock, the session and the Passports keep their types.
LEMMA WorldTypeStep == IInv /\ [Next]_vars => WorldType'
<1> SUFFICES ASSUME IInv, [Next]_vars PROVE WorldType'
  OBVIOUS
<1> USE GatewayAssumption DEF contextVars, passportVars, durableVars, requestVars, callVars, nameVars, Go, Finish, Capture
<1>0. /\ IInv /\ TypeOK
      /\ \A r \in Requests : r \in Ops
      /\ \A a \in Admins : a \in Ops
  BY DEF IInv, Ops
<1>1. ASSUME NEW r \in Requests, NEW t \in 0 .. Len(passports), NEW x \in Resources,
             ReceiveUnauthenticated(r, t, x)
      PROVE WorldType'
  BY <1>1, <1>0 DEF ReceiveUnauthenticated, TypeOK, WorldType
<1>2. ASSUME NEW r \in Requests, NEW t \in 0 .. Len(passports), NEW x \in Resources,
             Receive(r, t, x)
      PROVE WorldType'
  BY <1>2, <1>0 DEF Receive, TypeOK, WorldType
<1>3. ASSUME NEW r \in Requests, VerifyRejects(r) PROVE WorldType'
  BY <1>3, <1>0 DEF VerifyRejects, TypeOK, WorldType
<1>4. ASSUME NEW r \in Requests, VerifyAccepts(r) PROVE WorldType'
  BY <1>4, <1>0 DEF VerifyAccepts, TypeOK, WorldType
<1>5. ASSUME NEW r \in Requests, RecordRejection(r) PROVE WorldType'
  BY <1>5, <1>0 DEF RecordRejection, TypeOK, WorldType
<1>6. ASSUME NEW r \in Requests, RecordDenial(r) PROVE WorldType'
  BY <1>6, <1>0 DEF RecordDenial, TypeOK, WorldType
<1>7. ASSUME NEW r \in Requests, RecordAttempt(r) PROVE WorldType'
  BY <1>7, <1>0 DEF RecordAttempt, TypeOK, WorldType
<1>8. ASSUME NEW r \in Requests, EvidenceLost(r) PROVE WorldType'
  BY <1>8, <1>0 DEF EvidenceLost, TypeOK, WorldType
<1>9. ASSUME NEW r \in Requests, EnterLease(r) PROVE WorldType'
  BY <1>9, <1>0 DEF EnterLease, TypeOK, WorldType
<1>10. ASSUME NEW r \in Requests, ReadContent(r) PROVE WorldType'
  BY <1>10, <1>0 DEF ReadContent, TypeOK, WorldType
<1>11. ASSUME NEW r \in Requests, RefuseUnderLease(r) PROVE WorldType'
  BY <1>11, <1>0 DEF RefuseUnderLease, TypeOK, WorldType
<1>12. ASSUME NEW r \in Requests, SettleRead(r) PROVE WorldType'
  BY <1>12, <1>0 DEF SettleRead, TypeOK, WorldType
<1>13. ASSUME NEW r \in Requests, RecordOutcome(r) PROVE WorldType'
  BY <1>13, <1>0 DEF RecordOutcome, TypeOK, WorldType
<1>14. ASSUME NEW r \in Requests, OutcomeLost(r) PROVE WorldType'
  BY <1>14, <1>0 DEF OutcomeLost, TypeOK, WorldType
<1>15. ASSUME NEW a \in Admins, StartRevoke(a) PROVE WorldType'
  BY <1>15, <1>0 DEF StartRevoke, TypeOK, WorldType
<1>16. ASSUME NEW a \in Admins, StartRetire(a) PROVE WorldType'
  BY <1>16, <1>0 DEF StartRetire, TypeOK, WorldType
<1>17. ASSUME NEW a \in Admins, StartRehearsal(a) PROVE WorldType'
  BY <1>17, <1>0 DEF StartRehearsal, TypeOK, WorldType
<1>18. ASSUME NEW a \in Admins, EnterAdmin(a) PROVE WorldType'
  BY <1>18, <1>0 DEF EnterAdmin, TypeOK, WorldType
<1>19. ASSUME NEW a \in Admins, RefuseAdmin(a) PROVE WorldType'
  BY <1>19, <1>0 DEF RefuseAdmin, TypeOK, WorldType
<1>20. ASSUME NEW a \in Admins, SignRecords(a) PROVE WorldType'
  BY <1>20, <1>0 DEF SignRecords, TypeOK, WorldType
<1>21. ASSUME NEW a \in Admins, CommitRevoke(a) PROVE WorldType'
  BY <1>21, <1>0 DEF CommitRevoke, TypeOK, WorldType
<1>22. ASSUME NEW a \in Admins, CommitSuccessor(a) PROVE WorldType'
  BY <1>22, <1>0 DEF CommitSuccessor, TypeOK, WorldType
<1>23. ASSUME NEW a \in Admins, CommitFails(a) PROVE WorldType'
  BY <1>23, <1>0 DEF CommitFails, TypeOK, WorldType
<1>24. ASSUME IssuePassport PROVE WorldType'
  <2>1. [mandate |-> agentMandate, exp |-> now + PassportTTL] \in Passport
    BY <1>0 DEF TypeOK, WorldType, StoreType, Passport
  <2> QED BY <1>24, <1>0, <2>1 DEF IssuePassport, TypeOK, WorldType
<1>25. ASSUME EndSession PROVE WorldType'
  BY <1>25, <1>0 DEF EndSession, TypeOK, WorldType
<1>26. ASSUME Tick PROVE WorldType'
  BY <1>26, <1>0 DEF Tick, TypeOK, WorldType
<1>27. ASSUME Restart PROVE WorldType'
  BY <1>27, <1>0 DEF Restart, TypeOK, WorldType
<1>28. ASSUME UNCHANGED vars PROVE WorldType'
  BY <1>28, <1>0 DEF vars, TypeOK, WorldType
<1> QED BY <1>1, <1>2, <1>3, <1>4, <1>5, <1>6, <1>7, <1>8, <1>9, <1>10, <1>11, <1>12, <1>13, <1>14, <1>15, <1>16, <1>17, <1>18, <1>19, <1>20, <1>21, <1>22, <1>23, <1>24, <1>25, <1>26, <1>27, <1>28 DEF Next, RequestStep, AdminStep

\* What a call captures is a record, or nothing, and an instant.
LEMMA SeenTypeStep == IInv /\ [Next]_vars => SeenType'
<1> SUFFICES ASSUME IInv, [Next]_vars PROVE SeenType'
  OBVIOUS
<1> USE GatewayAssumption DEF contextVars, passportVars, durableVars, requestVars, callVars, nameVars, Go, Finish, Capture
<1>0. /\ IInv /\ TypeOK
      /\ \A r \in Requests : r \in Ops
      /\ \A a \in Admins : a \in Ops
  BY DEF IInv, Ops
<1>1. ASSUME NEW r \in Requests, NEW t \in 0 .. Len(passports), NEW x \in Resources,
             ReceiveUnauthenticated(r, t, x)
      PROVE SeenType'
  BY <1>1, <1>0 DEF ReceiveUnauthenticated, TypeOK, SeenType, WorldType
<1>2. ASSUME NEW r \in Requests, NEW t \in 0 .. Len(passports), NEW x \in Resources,
             Receive(r, t, x)
      PROVE SeenType'
  <2>1. passports[t].mandate \in Mandates /\ records[passports[t].mandate] \in Record \cup {None}
    BY <1>2, <1>0 DEF Receive, PassportAccepted, IInv, Wiring, Installed, TypeOK, WorldType, StoreType
  <2> QED BY <1>2, <1>0, <2>1 DEF Receive, TypeOK, SeenType, WorldType
<1>3. ASSUME NEW r \in Requests, VerifyRejects(r) PROVE SeenType'
  BY <1>3, <1>0 DEF VerifyRejects, TypeOK, SeenType, WorldType
<1>4. ASSUME NEW r \in Requests, VerifyAccepts(r) PROVE SeenType'
  BY <1>4, <1>0 DEF VerifyAccepts, TypeOK, SeenType, WorldType
<1>5. ASSUME NEW r \in Requests, RecordRejection(r) PROVE SeenType'
  BY <1>5, <1>0 DEF RecordRejection, TypeOK, SeenType, WorldType
<1>6. ASSUME NEW r \in Requests, RecordDenial(r) PROVE SeenType'
  BY <1>6, <1>0 DEF RecordDenial, TypeOK, SeenType, WorldType
<1>7. ASSUME NEW r \in Requests, RecordAttempt(r) PROVE SeenType'
  BY <1>7, <1>0 DEF RecordAttempt, TypeOK, SeenType, WorldType
<1>8. ASSUME NEW r \in Requests, EvidenceLost(r) PROVE SeenType'
  BY <1>8, <1>0 DEF EvidenceLost, TypeOK, SeenType, WorldType
<1>9. ASSUME NEW r \in Requests, EnterLease(r) PROVE SeenType'
  <2>1. target[r] \in Mandates /\ records[target[r]] \in Record \cup {None}
    BY <1>9, <1>0, WaitingTarget DEF EnterLease, TypeOK, StoreType
  <2> QED BY <1>9, <1>0, <2>1 DEF EnterLease, TypeOK, SeenType, WorldType
<1>10. ASSUME NEW r \in Requests, ReadContent(r) PROVE SeenType'
  BY <1>10, <1>0 DEF ReadContent, TypeOK, SeenType, WorldType
<1>11. ASSUME NEW r \in Requests, RefuseUnderLease(r) PROVE SeenType'
  BY <1>11, <1>0 DEF RefuseUnderLease, TypeOK, SeenType, WorldType
<1>12. ASSUME NEW r \in Requests, SettleRead(r) PROVE SeenType'
  BY <1>12, <1>0 DEF SettleRead, TypeOK, SeenType, WorldType
<1>13. ASSUME NEW r \in Requests, RecordOutcome(r) PROVE SeenType'
  BY <1>13, <1>0 DEF RecordOutcome, TypeOK, SeenType, WorldType
<1>14. ASSUME NEW r \in Requests, OutcomeLost(r) PROVE SeenType'
  BY <1>14, <1>0 DEF OutcomeLost, TypeOK, SeenType, WorldType
<1>15. ASSUME NEW a \in Admins, StartRevoke(a) PROVE SeenType'
  BY <1>15, <1>0 DEF StartRevoke, TypeOK, SeenType, WorldType
<1>16. ASSUME NEW a \in Admins, StartRetire(a) PROVE SeenType'
  <2>1. CASE Active(records[agentMandate], now)
    BY <1>16, <2>1, <1>0 DEF StartRetire, TypeOK, SeenType
  <2>2. CASE ~Active(records[agentMandate], now)
    <3>1. seen' = [seen EXCEPT ![a] = None] /\ at' = [at EXCEPT ![a] = 0]
      BY <1>16, <2>2 DEF StartRetire
    <3> QED BY <1>0, <3>1 DEF TypeOK, SeenType
  <2> QED BY <2>1, <2>2
<1>17. ASSUME NEW a \in Admins, StartRehearsal(a) PROVE SeenType'
  BY <1>17, <1>0 DEF StartRehearsal, TypeOK, SeenType, WorldType
<1>18. ASSUME NEW a \in Admins, EnterAdmin(a) PROVE SeenType'
  <2>1. target[a] \in Mandates /\ records[target[a]] \in Record \cup {None}
    BY <1>18, <1>0, WaitingTarget DEF EnterAdmin, TypeOK, StoreType
  <2> QED BY <1>18, <1>0, <2>1 DEF EnterAdmin, TypeOK, SeenType, WorldType
<1>19. ASSUME NEW a \in Admins, RefuseAdmin(a) PROVE SeenType'
  BY <1>19, <1>0 DEF RefuseAdmin, TypeOK, SeenType, WorldType
<1>20. ASSUME NEW a \in Admins, SignRecords(a) PROVE SeenType'
  BY <1>20, <1>0 DEF SignRecords, TypeOK, SeenType, WorldType
<1>21. ASSUME NEW a \in Admins, CommitRevoke(a) PROVE SeenType'
  BY <1>21, <1>0 DEF CommitRevoke, TypeOK, SeenType, WorldType
<1>22. ASSUME NEW a \in Admins, CommitSuccessor(a) PROVE SeenType'
  BY <1>22, <1>0 DEF CommitSuccessor, TypeOK, SeenType, WorldType
<1>23. ASSUME NEW a \in Admins, CommitFails(a) PROVE SeenType'
  BY <1>23, <1>0 DEF CommitFails, TypeOK, SeenType, WorldType
<1>24. ASSUME IssuePassport PROVE SeenType'
  BY <1>24, <1>0 DEF IssuePassport, TypeOK, SeenType, WorldType
<1>25. ASSUME EndSession PROVE SeenType'
  BY <1>25, <1>0 DEF EndSession, TypeOK, SeenType, WorldType
<1>26. ASSUME Tick PROVE SeenType'
  BY <1>26, <1>0 DEF Tick, TypeOK, SeenType, WorldType
<1>27. ASSUME Restart PROVE SeenType'
  BY <1>27, <1>0 DEF Restart, TypeOK, SeenType, WorldType
<1>28. ASSUME UNCHANGED vars PROVE SeenType'
  BY <1>28, <1>0 DEF vars, TypeOK, SeenType, WorldType
<1> QED BY <1>1, <1>2, <1>3, <1>4, <1>5, <1>6, <1>7, <1>8, <1>9, <1>10, <1>11, <1>12, <1>13, <1>14, <1>15, <1>16, <1>17, <1>18, <1>19, <1>20, <1>21, <1>22, <1>23, <1>24, <1>25, <1>26, <1>27, <1>28 DEF Next, RequestStep, AdminStep

\* The locals of every call keep their types.
LEMMA CallTypeStep == IInv /\ [Next]_vars => CallType'
<1> SUFFICES ASSUME IInv, [Next]_vars PROVE CallType'
  OBVIOUS
<1> USE GatewayAssumption DEF contextVars, passportVars, durableVars, requestVars, callVars, nameVars, Go, Finish, Capture
<1>0. /\ IInv /\ TypeOK
      /\ \A r \in Requests : r \in Ops
      /\ \A a \in Admins : a \in Ops
  BY DEF IInv, Ops
<1>1. ASSUME NEW r \in Requests, NEW t \in 0 .. Len(passports), NEW x \in Resources,
             ReceiveUnauthenticated(r, t, x)
      PROVE CallType'
  BY <1>1, <1>0 DEF ReceiveUnauthenticated, TypeOK, CallType, Progress, Results
<1>2. ASSUME NEW r \in Requests, NEW t \in 0 .. Len(passports), NEW x \in Resources,
             Receive(r, t, x)
      PROVE CallType'
  <2>1. t \in 1 .. Len(passports)
    BY <1>2, <1>0 DEF Receive, PassportAccepted, TypeOK, WorldType
  <2>3. passports[t].mandate \in Mandates
    BY <1>0, <2>1, PassportFacts
  <2> QED BY <1>2, <1>0, <2>3 DEF Receive, TypeOK, CallType, Progress, Results
<1>3. ASSUME NEW r \in Requests, VerifyRejects(r) PROVE CallType'
  BY <1>3, <1>0 DEF VerifyRejects, TypeOK, CallType, Progress, Results
<1>4. ASSUME NEW r \in Requests, VerifyAccepts(r) PROVE CallType'
  <2>1. seen[r] \in Record
    BY <1>4, <1>0 DEF VerifyAccepts, Active, TypeOK, SeenType
  <2>2. seen[r].rev \in Nat
    BY <2>1 DEF Record
  <2> QED BY <1>4, <1>0, <2>2 DEF VerifyAccepts, TypeOK, CallType, Progress, Results
<1>5. ASSUME NEW r \in Requests, RecordRejection(r) PROVE CallType'
  BY <1>5, <1>0 DEF RecordRejection, TypeOK, CallType, Progress, Results
<1>6. ASSUME NEW r \in Requests, RecordDenial(r) PROVE CallType'
  BY <1>6, <1>0 DEF RecordDenial, TypeOK, CallType, Progress, Results
<1>7. ASSUME NEW r \in Requests, RecordAttempt(r) PROVE CallType'
  BY <1>7, <1>0 DEF RecordAttempt, TypeOK, CallType, Progress, Results
<1>8. ASSUME NEW r \in Requests, EvidenceLost(r) PROVE CallType'
  BY <1>8, <1>0 DEF EvidenceLost, TypeOK, CallType, Progress, Results
<1>9. ASSUME NEW r \in Requests, EnterLease(r) PROVE CallType'
  BY <1>9, <1>0 DEF EnterLease, TypeOK, CallType, Progress, Results
<1>10. ASSUME NEW r \in Requests, ReadContent(r) PROVE CallType'
  BY <1>10, <1>0 DEF ReadContent, TypeOK, CallType, Progress, Results
<1>11. ASSUME NEW r \in Requests, RefuseUnderLease(r) PROVE CallType'
  BY <1>11, <1>0 DEF RefuseUnderLease, TypeOK, CallType, Progress, Results
<1>12. ASSUME NEW r \in Requests, SettleRead(r) PROVE CallType'
  BY <1>12, <1>0 DEF SettleRead, TypeOK, CallType, Progress, Results
<1>13. ASSUME NEW r \in Requests, RecordOutcome(r) PROVE CallType'
  BY <1>13, <1>0 DEF RecordOutcome, TypeOK, CallType, Progress, Results
<1>14. ASSUME NEW r \in Requests, OutcomeLost(r) PROVE CallType'
  BY <1>14, <1>0 DEF OutcomeLost, TypeOK, CallType, Progress, Results
<1>15. ASSUME NEW a \in Admins, StartRevoke(a) PROVE CallType'
  BY <1>15, <1>0 DEF StartRevoke, StoreType, TypeOK, CallType, Progress, Results
<1>16. ASSUME NEW a \in Admins, StartRetire(a) PROVE CallType'
  BY <1>16, <1>0 DEF StartRetire, StoreType, TypeOK, CallType, Progress, Results
<1>17. ASSUME NEW a \in Admins, StartRehearsal(a) PROVE CallType'
  <2>1. agentMandate \in Mandates /\ records[agentMandate].rev \in Nat
    BY <1>0, InstalledRecord DEF IInv, Wiring
  <2> QED BY <1>17, <1>0, <2>1 DEF StartRehearsal, TypeOK, CallType, Progress, Results
<1>18. ASSUME NEW a \in Admins, EnterAdmin(a) PROVE CallType'
  BY <1>18, <1>0 DEF EnterAdmin, TypeOK, CallType, Progress, Results
<1>19. ASSUME NEW a \in Admins, RefuseAdmin(a) PROVE CallType'
  BY <1>19, <1>0 DEF RefuseAdmin, TypeOK, CallType, Progress, Results
<1>20. ASSUME NEW a \in Admins, SignRecords(a) PROVE CallType'
  BY <1>20, <1>0 DEF SignRecords, TypeOK, CallType, Progress, Results
<1>21. ASSUME NEW a \in Admins, CommitRevoke(a) PROVE CallType'
  BY <1>21, <1>0 DEF CommitRevoke, TypeOK, CallType, Progress, Results
<1>22. ASSUME NEW a \in Admins, CommitSuccessor(a) PROVE CallType'
  BY <1>22, <1>0 DEF CommitSuccessor, TypeOK, CallType, Progress, Results
<1>23. ASSUME NEW a \in Admins, CommitFails(a) PROVE CallType'
  BY <1>23, <1>0 DEF CommitFails, TypeOK, CallType, Progress, Results
<1>24. ASSUME IssuePassport PROVE CallType'
  BY <1>24, <1>0 DEF IssuePassport, TypeOK, CallType, Progress, Results
<1>25. ASSUME EndSession PROVE CallType'
  BY <1>25, <1>0 DEF EndSession, TypeOK, CallType, Progress, Results
<1>26. ASSUME Tick PROVE CallType'
  BY <1>26, <1>0 DEF Tick, TypeOK, CallType, Progress, Results
<1>27. ASSUME Restart PROVE CallType'
  BY <1>27, <1>0 DEF Restart, TypeOK, CallType, Progress, Results
<1>28. ASSUME UNCHANGED vars PROVE CallType'
  BY <1>28, <1>0 DEF vars, TypeOK, CallType, Progress, Results
<1> QED BY <1>1, <1>2, <1>3, <1>4, <1>5, <1>6, <1>7, <1>8, <1>9, <1>10, <1>11, <1>12, <1>13, <1>14, <1>15, <1>16, <1>17, <1>18, <1>19, <1>20, <1>21, <1>22, <1>23, <1>24, <1>25, <1>26, <1>27, <1>28 DEF Next, RequestStep, AdminStep

\* Every queue remains a sequence of calls.
LEMMA LeaseTypeStep == IInv /\ [Next]_vars => LeaseType'
<1> SUFFICES ASSUME IInv, [Next]_vars PROVE LeaseType'
  OBVIOUS
<1> USE GatewayAssumption DEF contextVars, passportVars, durableVars, requestVars, callVars, nameVars, Go, Finish, Capture
<1>0. /\ IInv /\ TypeOK
      /\ \A r \in Requests : r \in Ops
      /\ \A a \in Admins : a \in Ops
  BY DEF IInv, Ops
<1>1. ASSUME NEW r \in Requests, NEW t \in 0 .. Len(passports), NEW x \in Resources,
             ReceiveUnauthenticated(r, t, x)
      PROVE LeaseType'
  BY <1>1, <1>0 DEF ReceiveUnauthenticated, TypeOK, LeaseType
<1>2. ASSUME NEW r \in Requests, NEW t \in 0 .. Len(passports), NEW x \in Resources,
             Receive(r, t, x)
      PROVE LeaseType'
  BY <1>2, <1>0 DEF Receive, TypeOK, LeaseType
<1>3. ASSUME NEW r \in Requests, VerifyRejects(r) PROVE LeaseType'
  BY <1>3, <1>0 DEF VerifyRejects, TypeOK, LeaseType
<1>4. ASSUME NEW r \in Requests, VerifyAccepts(r) PROVE LeaseType'
  BY <1>4, <1>0 DEF VerifyAccepts, TypeOK, LeaseType
<1>5. ASSUME NEW r \in Requests, RecordRejection(r) PROVE LeaseType'
  BY <1>5, <1>0 DEF RecordRejection, TypeOK, LeaseType
<1>6. ASSUME NEW r \in Requests, RecordDenial(r) PROVE LeaseType'
  BY <1>6, <1>0 DEF RecordDenial, TypeOK, LeaseType
<1>7. ASSUME NEW r \in Requests, RecordAttempt(r) PROVE LeaseType'
  BY <1>7, <1>0, JoinType DEF RecordAttempt, TypeOK, LeaseType
<1>8. ASSUME NEW r \in Requests, EvidenceLost(r) PROVE LeaseType'
  BY <1>8, <1>0 DEF EvidenceLost, TypeOK, LeaseType
<1>9. ASSUME NEW r \in Requests, EnterLease(r) PROVE LeaseType'
  BY <1>9, <1>0 DEF EnterLease, TypeOK, LeaseType
<1>10. ASSUME NEW r \in Requests, ReadContent(r) PROVE LeaseType'
  BY <1>10, <1>0 DEF ReadContent, TypeOK, LeaseType
<1>11. ASSUME NEW r \in Requests, RefuseUnderLease(r) PROVE LeaseType'
  <2>1. Tail(leases[target[r]]) \in Seq(Ops)
    BY <1>11, <1>0, CriticalFacts DEF RefuseUnderLease, Critical
  <2> QED BY <1>11, <1>0, <2>1 DEF RefuseUnderLease, ReleaseLease, TypeOK, LeaseType
<1>12. ASSUME NEW r \in Requests, SettleRead(r) PROVE LeaseType'
  <2>1. Tail(leases[target[r]]) \in Seq(Ops)
    BY <1>12, <1>0, CriticalFacts DEF SettleRead, Critical
  <2> QED BY <1>12, <1>0, <2>1 DEF SettleRead, ReleaseLease, TypeOK, LeaseType
<1>13. ASSUME NEW r \in Requests, RecordOutcome(r) PROVE LeaseType'
  BY <1>13, <1>0 DEF RecordOutcome, TypeOK, LeaseType
<1>14. ASSUME NEW r \in Requests, OutcomeLost(r) PROVE LeaseType'
  BY <1>14, <1>0 DEF OutcomeLost, TypeOK, LeaseType
<1>15. ASSUME NEW a \in Admins, StartRevoke(a) PROVE LeaseType'
  BY <1>15, <1>0, JoinType DEF StartRevoke, TypeOK, LeaseType
<1>16. ASSUME NEW a \in Admins, StartRetire(a) PROVE LeaseType'
  BY <1>16, <1>0, JoinType DEF StartRetire, TypeOK, LeaseType
<1>17. ASSUME NEW a \in Admins, StartRehearsal(a) PROVE LeaseType'
  BY <1>17, <1>0, JoinType DEF StartRehearsal, TypeOK, LeaseType
<1>18. ASSUME NEW a \in Admins, EnterAdmin(a) PROVE LeaseType'
  BY <1>18, <1>0 DEF EnterAdmin, TypeOK, LeaseType
<1>19. ASSUME NEW a \in Admins, RefuseAdmin(a) PROVE LeaseType'
  <2>1. Tail(leases[target[a]]) \in Seq(Ops)
    BY <1>19, <1>0, CriticalFacts DEF RefuseAdmin, Critical
  <2> QED BY <1>19, <1>0, <2>1 DEF RefuseAdmin, ReleaseLease, TypeOK, LeaseType
<1>20. ASSUME NEW a \in Admins, SignRecords(a) PROVE LeaseType'
  BY <1>20, <1>0 DEF SignRecords, TypeOK, LeaseType
<1>21. ASSUME NEW a \in Admins, CommitRevoke(a) PROVE LeaseType'
  <2>1. Tail(leases[target[a]]) \in Seq(Ops)
    BY <1>21, <1>0, CriticalFacts DEF CommitRevoke, Critical
  <2> QED BY <1>21, <1>0, <2>1 DEF CommitRevoke, ReleaseLease, TypeOK, LeaseType
<1>22. ASSUME NEW a \in Admins, CommitSuccessor(a) PROVE LeaseType'
  <2>1. Tail(leases[target[a]]) \in Seq(Ops)
    BY <1>22, <1>0, CriticalFacts DEF CommitSuccessor, Critical
  <2> QED BY <1>22, <1>0, <2>1 DEF CommitSuccessor, ReleaseLease, TypeOK, LeaseType
<1>23. ASSUME NEW a \in Admins, CommitFails(a) PROVE LeaseType'
  <2>1. Tail(leases[target[a]]) \in Seq(Ops)
    BY <1>23, <1>0, CriticalFacts DEF CommitFails, Critical
  <2> QED BY <1>23, <1>0, <2>1 DEF CommitFails, ReleaseLease, TypeOK, LeaseType
<1>24. ASSUME IssuePassport PROVE LeaseType'
  BY <1>24, <1>0 DEF IssuePassport, TypeOK, LeaseType
<1>25. ASSUME EndSession PROVE LeaseType'
  BY <1>25, <1>0 DEF EndSession, TypeOK, LeaseType
<1>26. ASSUME Tick PROVE LeaseType'
  BY <1>26, <1>0 DEF Tick, TypeOK, LeaseType
<1>27. ASSUME Restart PROVE LeaseType'
  BY <1>27, <1>0 DEF Restart, TypeOK, LeaseType
<1>28. ASSUME UNCHANGED vars PROVE LeaseType'
  BY <1>28, <1>0 DEF vars, TypeOK, LeaseType
<1> QED BY <1>1, <1>2, <1>3, <1>4, <1>5, <1>6, <1>7, <1>8, <1>9, <1>10, <1>11, <1>12, <1>13, <1>14, <1>15, <1>16, <1>17, <1>18, <1>19, <1>20, <1>21, <1>22, <1>23, <1>24, <1>25, <1>26, <1>27, <1>28 DEF Next, RequestStep, AdminStep

\* The Agent's Mandate, the records and the trails keep their types.
LEMMA StoreTypeStep == IInv /\ [Next]_vars => StoreType'
<1> SUFFICES ASSUME IInv, [Next]_vars PROVE StoreType'
  OBVIOUS
<1> USE GatewayAssumption DEF contextVars, passportVars, durableVars, requestVars, callVars, nameVars, Go, Finish, Capture
<1>0. /\ IInv /\ TypeOK
      /\ \A r \in Requests : r \in Ops
      /\ \A a \in Admins : a \in Ops
  BY DEF IInv, Ops
<1>1. ASSUME NEW r \in Requests, NEW t \in 0 .. Len(passports), NEW x \in Resources,
             ReceiveUnauthenticated(r, t, x)
      PROVE StoreType'
  BY <1>1, <1>0 DEF ReceiveUnauthenticated, TypeOK, StoreType
<1>2. ASSUME NEW r \in Requests, NEW t \in 0 .. Len(passports), NEW x \in Resources,
             Receive(r, t, x)
      PROVE StoreType'
  BY <1>2, <1>0 DEF Receive, TypeOK, StoreType
<1>3. ASSUME NEW r \in Requests, VerifyRejects(r) PROVE StoreType'
  BY <1>3, <1>0 DEF VerifyRejects, TypeOK, StoreType
<1>4. ASSUME NEW r \in Requests, VerifyAccepts(r) PROVE StoreType'
  BY <1>4, <1>0 DEF VerifyAccepts, TypeOK, StoreType
<1>5. ASSUME NEW r \in Requests, RecordRejection(r) PROVE StoreType'
  <2>1. rev[r] \in Nat
    BY <1>0 DEF TypeOK, CallType
  <2>2. RejectionTrail \in Seq(Event)
    BY <2>1, EventTypes
  <2> QED BY <1>5, <1>0, <2>2, AppendType DEF RecordRejection, TypeOK
<1>6. ASSUME NEW r \in Requests, RecordDenial(r) PROVE StoreType'
  <2>1. rev[r] \in Nat
    BY <1>0 DEF TypeOK, CallType
  <2>2. DenyTrail(rev[r]) \in Seq(Event)
    BY <2>1, EventTypes
  <2> QED BY <1>6, <1>0, <2>2, AppendType DEF RecordDenial, TypeOK
<1>7. ASSUME NEW r \in Requests, RecordAttempt(r) PROVE StoreType'
  <2>1. rev[r] \in Nat
    BY <1>0 DEF TypeOK, CallType
  <2>2. AllowTrail(rev[r]) \in Seq(Event)
    BY <2>1, EventTypes
  <2> QED BY <1>7, <1>0, <2>2, AppendType DEF RecordAttempt, TypeOK
<1>8. ASSUME NEW r \in Requests, EvidenceLost(r) PROVE StoreType'
  BY <1>8, <1>0 DEF EvidenceLost, TypeOK, StoreType
<1>9. ASSUME NEW r \in Requests, EnterLease(r) PROVE StoreType'
  BY <1>9, <1>0 DEF EnterLease, TypeOK, StoreType
<1>10. ASSUME NEW r \in Requests, ReadContent(r) PROVE StoreType'
  BY <1>10, <1>0 DEF ReadContent, TypeOK, StoreType
<1>11. ASSUME NEW r \in Requests, RefuseUnderLease(r) PROVE StoreType'
  BY <1>11, <1>0 DEF RefuseUnderLease, TypeOK, StoreType
<1>12. ASSUME NEW r \in Requests, SettleRead(r) PROVE StoreType'
  BY <1>12, <1>0 DEF SettleRead, TypeOK, StoreType
<1>13. ASSUME NEW r \in Requests, RecordOutcome(r) PROVE StoreType'
  <2>1. <<Ev("succeeded")>> \in Seq(Event) /\ <<Ev("failed")>> \in Seq(Event)
    BY EventTypes
  <2>2. <<Ev(IF ReadOutcome(r) = "ok" THEN "succeeded" ELSE "failed")>> \in Seq(Event)
    BY <2>1
  <2> QED BY <1>13, <1>0, <2>2, AppendType DEF RecordOutcome, TypeOK
<1>14. ASSUME NEW r \in Requests, OutcomeLost(r) PROVE StoreType'
  BY <1>14, <1>0 DEF OutcomeLost, TypeOK, StoreType
<1>15. ASSUME NEW a \in Admins, StartRevoke(a) PROVE StoreType'
  BY <1>15, <1>0 DEF StartRevoke, TypeOK, StoreType
<1>16. ASSUME NEW a \in Admins, StartRetire(a) PROVE StoreType'
  BY <1>16, <1>0 DEF StartRetire, TypeOK, StoreType
<1>17. ASSUME NEW a \in Admins, StartRehearsal(a) PROVE StoreType'
  BY <1>17, <1>0 DEF StartRehearsal, TypeOK, StoreType
<1>18. ASSUME NEW a \in Admins, EnterAdmin(a) PROVE StoreType'
  BY <1>18, <1>0 DEF EnterAdmin, TypeOK, StoreType
<1>19. ASSUME NEW a \in Admins, RefuseAdmin(a) PROVE StoreType'
  BY <1>19, <1>0 DEF RefuseAdmin, TypeOK, StoreType
<1>20. ASSUME NEW a \in Admins, SignRecords(a) PROVE StoreType'
  BY <1>20, <1>0 DEF SignRecords, TypeOK, StoreType
<1>21. ASSUME NEW a \in Admins, CommitRevoke(a) PROVE StoreType'
  <2>1. seen[a] \in Record
    BY <1>21, <1>0, CriticalFacts DEF CommitRevoke, Critical
  <2>2. Revoked(seen[a], None) \in Record
    BY <2>1, SignedTypes
  <2> QED BY <1>21, <1>0, <2>2 DEF CommitRevoke, TypeOK, StoreType
<1>22. ASSUME NEW a \in Admins, CommitSuccessor(a) PROVE StoreType'
  <2>1. seen[a] \in Record /\ at[a] \in Nat
    BY <1>22, <1>0, CriticalFacts DEF CommitSuccessor, Critical, TypeOK, SeenType
  <2>2. Issued(at[a]) \in Record /\ \A s \in Mandates : Revoked(seen[a], s) \in Record
    BY <2>1, SignedTypes
  <2> QED BY <1>22, <1>0, <2>2 DEF CommitSuccessor, TypeOK, StoreType
<1>23. ASSUME NEW a \in Admins, CommitFails(a) PROVE StoreType'
  BY <1>23, <1>0 DEF CommitFails, TypeOK, StoreType
<1>24. ASSUME IssuePassport PROVE StoreType'
  BY <1>24, <1>0 DEF IssuePassport, TypeOK, StoreType
<1>25. ASSUME EndSession PROVE StoreType'
  BY <1>25, <1>0 DEF EndSession, TypeOK, StoreType
<1>26. ASSUME Tick PROVE StoreType'
  BY <1>26, <1>0 DEF Tick, TypeOK, StoreType
<1>27. ASSUME Restart PROVE StoreType'
  BY <1>27, <1>0 DEF Restart, TypeOK, StoreType
<1>28. ASSUME UNCHANGED vars PROVE StoreType'
  BY <1>28, <1>0 DEF vars, TypeOK, StoreType
<1> QED BY <1>1, <1>2, <1>3, <1>4, <1>5, <1>6, <1>7, <1>8, <1>9, <1>10, <1>11, <1>12, <1>13, <1>14, <1>15, <1>16, <1>17, <1>18, <1>19, <1>20, <1>21, <1>22, <1>23, <1>24, <1>25, <1>26, <1>27, <1>28 DEF Next, RequestStep, AdminStep

\* What a request presents and what the provider answered keep their types.
LEMMA ReadTypeStep == IInv /\ [Next]_vars => ReadType'
<1> SUFFICES ASSUME IInv, [Next]_vars PROVE ReadType'
  OBVIOUS
<1> USE GatewayAssumption DEF contextVars, passportVars, durableVars, requestVars, callVars, nameVars, Go, Finish, Capture
<1>0. /\ IInv /\ TypeOK
      /\ \A r \in Requests : r \in Ops
      /\ \A a \in Admins : a \in Ops
  BY DEF IInv, Ops
<1>1. ASSUME NEW r \in Requests, NEW t \in 0 .. Len(passports), NEW x \in Resources,
             ReceiveUnauthenticated(r, t, x)
      PROVE ReadType'
  BY <1>1, <1>0 DEF ReceiveUnauthenticated, TypeOK, ReadType, WorldType
<1>2. ASSUME NEW r \in Requests, NEW t \in 0 .. Len(passports), NEW x \in Resources,
             Receive(r, t, x)
      PROVE ReadType'
  BY <1>2, <1>0 DEF Receive, TypeOK, ReadType, WorldType
<1>3. ASSUME NEW r \in Requests, VerifyRejects(r) PROVE ReadType'
  BY <1>3, <1>0 DEF VerifyRejects, TypeOK, ReadType
<1>4. ASSUME NEW r \in Requests, VerifyAccepts(r) PROVE ReadType'
  BY <1>4, <1>0 DEF VerifyAccepts, TypeOK, ReadType
<1>5. ASSUME NEW r \in Requests, RecordRejection(r) PROVE ReadType'
  BY <1>5, <1>0 DEF RecordRejection, TypeOK, ReadType
<1>6. ASSUME NEW r \in Requests, RecordDenial(r) PROVE ReadType'
  BY <1>6, <1>0 DEF RecordDenial, TypeOK, ReadType
<1>7. ASSUME NEW r \in Requests, RecordAttempt(r) PROVE ReadType'
  BY <1>7, <1>0 DEF RecordAttempt, TypeOK, ReadType
<1>8. ASSUME NEW r \in Requests, EvidenceLost(r) PROVE ReadType'
  BY <1>8, <1>0 DEF EvidenceLost, TypeOK, ReadType
<1>9. ASSUME NEW r \in Requests, EnterLease(r) PROVE ReadType'
  BY <1>9, <1>0 DEF EnterLease, TypeOK, ReadType
<1>10. ASSUME NEW r \in Requests, ReadContent(r) PROVE ReadType'
  BY <1>10, <1>0 DEF ReadContent, TypeOK, ReadType
<1>11. ASSUME NEW r \in Requests, RefuseUnderLease(r) PROVE ReadType'
  BY <1>11, <1>0 DEF RefuseUnderLease, TypeOK, ReadType
<1>12. ASSUME NEW r \in Requests, SettleRead(r) PROVE ReadType'
  BY <1>12, <1>0 DEF SettleRead, TypeOK, ReadType
<1>13. ASSUME NEW r \in Requests, RecordOutcome(r) PROVE ReadType'
  BY <1>13, <1>0 DEF RecordOutcome, TypeOK, ReadType
<1>14. ASSUME NEW r \in Requests, OutcomeLost(r) PROVE ReadType'
  BY <1>14, <1>0 DEF OutcomeLost, TypeOK, ReadType
<1>15. ASSUME NEW a \in Admins, StartRevoke(a) PROVE ReadType'
  BY <1>15, <1>0 DEF StartRevoke, TypeOK, ReadType
<1>16. ASSUME NEW a \in Admins, StartRetire(a) PROVE ReadType'
  BY <1>16, <1>0 DEF StartRetire, TypeOK, ReadType
<1>17. ASSUME NEW a \in Admins, StartRehearsal(a) PROVE ReadType'
  BY <1>17, <1>0 DEF StartRehearsal, TypeOK, ReadType
<1>18. ASSUME NEW a \in Admins, EnterAdmin(a) PROVE ReadType'
  BY <1>18, <1>0 DEF EnterAdmin, TypeOK, ReadType
<1>19. ASSUME NEW a \in Admins, RefuseAdmin(a) PROVE ReadType'
  BY <1>19, <1>0 DEF RefuseAdmin, TypeOK, ReadType
<1>20. ASSUME NEW a \in Admins, SignRecords(a) PROVE ReadType'
  BY <1>20, <1>0 DEF SignRecords, TypeOK, ReadType
<1>21. ASSUME NEW a \in Admins, CommitRevoke(a) PROVE ReadType'
  BY <1>21, <1>0 DEF CommitRevoke, TypeOK, ReadType
<1>22. ASSUME NEW a \in Admins, CommitSuccessor(a) PROVE ReadType'
  BY <1>22, <1>0 DEF CommitSuccessor, TypeOK, ReadType
<1>23. ASSUME NEW a \in Admins, CommitFails(a) PROVE ReadType'
  BY <1>23, <1>0 DEF CommitFails, TypeOK, ReadType
<1>24. ASSUME IssuePassport PROVE ReadType'
  BY <1>24, <1>0 DEF IssuePassport, TypeOK, ReadType
<1>25. ASSUME EndSession PROVE ReadType'
  BY <1>25, <1>0 DEF EndSession, TypeOK, ReadType
<1>26. ASSUME Tick PROVE ReadType'
  BY <1>26, <1>0 DEF Tick, TypeOK, ReadType
<1>27. ASSUME Restart PROVE ReadType'
  BY <1>27, <1>0 DEF Restart, TypeOK, ReadType
<1>28. ASSUME UNCHANGED vars PROVE ReadType'
  BY <1>28, <1>0 DEF vars, TypeOK, ReadType
<1> QED BY <1>1, <1>2, <1>3, <1>4, <1>5, <1>6, <1>7, <1>8, <1>9, <1>10, <1>11, <1>12, <1>13, <1>14, <1>15, <1>16, <1>17, <1>18, <1>19, <1>20, <1>21, <1>22, <1>23, <1>24, <1>25, <1>26, <1>27, <1>28 DEF Next, RequestStep, AdminStep

\* Every step keeps every variable in its type.
LEMMA TypeStep == IInv /\ [Next]_vars => TypeOK'
BY WorldTypeStep, StoreTypeStep, LeaseTypeStep, CallTypeStep, SeenTypeStep, ReadTypeStep DEF TypeOK

-----------------------------------------------------------------------------
(* Who may change what. *)

\* Only a commit writes records or moves the Agent to another Mandate.
StoreFrame == \/ UNCHANGED <<agentMandate, records>>
              \/ \E a \in Admins : CommitRevoke(a) \/ CommitSuccessor(a)

\* Passports are only ever added, and a session is one of them or none.
PassportFrame == \/ UNCHANGED passports /\ session' \in {0, session}
                 \/ IssuePassport

\* A request changes by its own steps and by a restart.
SameRequest(q) == UNCHANGED <<pc[q], target[q], rev[q], result[q], token[q], resource[q],
                              reads[q], audit[q]>>
RequestFrame(q) == \/ SameRequest(q)
                   \/ \E t \in 0 .. Len(passports), x \in Resources :
                        ReceiveUnauthenticated(q, t, x) \/ Receive(q, t, x)
                   \/ RequestStep(q)
                   \/ Restart

\* So does an administrative call.
SameAdmin(b) == UNCHANGED <<pc[b], kind[b], target[b], rev[b], result[b], seen[b], at[b]>>
AdminFrame(b) == \/ SameAdmin(b)
                 \/ StartRevoke(b) \/ StartRetire(b) \/ StartRehearsal(b)
                 \/ AdminStep(b)
                 \/ Restart

\* Only a commit writes records or moves the Agent.
LEMMA StoreFrameHolds ==
  ASSUME [Next]_vars
  PROVE  StoreFrame
<1> USE GatewayAssumption DEF contextVars, passportVars, durableVars, requestVars, callVars, nameVars, Go, Finish, Capture, vars
<1>1. ASSUME NEW r \in Requests, NEW t \in 0 .. Len(passports), NEW x \in Resources,
             ReceiveUnauthenticated(r, t, x)
      PROVE StoreFrame
  BY <1>1 DEF ReceiveUnauthenticated, StoreFrame
<1>2. ASSUME NEW r \in Requests, NEW t \in 0 .. Len(passports), NEW x \in Resources,
             Receive(r, t, x)
      PROVE StoreFrame
  BY <1>2 DEF Receive, StoreFrame
<1>3. ASSUME NEW r \in Requests, VerifyRejects(r) PROVE StoreFrame
  BY <1>3 DEF VerifyRejects, StoreFrame
<1>4. ASSUME NEW r \in Requests, VerifyAccepts(r) PROVE StoreFrame
  BY <1>4 DEF VerifyAccepts, StoreFrame
<1>5. ASSUME NEW r \in Requests, RecordRejection(r) PROVE StoreFrame
  BY <1>5 DEF RecordRejection, StoreFrame
<1>6. ASSUME NEW r \in Requests, RecordDenial(r) PROVE StoreFrame
  BY <1>6 DEF RecordDenial, StoreFrame
<1>7. ASSUME NEW r \in Requests, RecordAttempt(r) PROVE StoreFrame
  BY <1>7 DEF RecordAttempt, StoreFrame
<1>8. ASSUME NEW r \in Requests, EvidenceLost(r) PROVE StoreFrame
  BY <1>8 DEF EvidenceLost, StoreFrame
<1>9. ASSUME NEW r \in Requests, EnterLease(r) PROVE StoreFrame
  BY <1>9 DEF EnterLease, StoreFrame
<1>10. ASSUME NEW r \in Requests, ReadContent(r) PROVE StoreFrame
  BY <1>10 DEF ReadContent, StoreFrame
<1>11. ASSUME NEW r \in Requests, RefuseUnderLease(r) PROVE StoreFrame
  BY <1>11 DEF RefuseUnderLease, StoreFrame
<1>12. ASSUME NEW r \in Requests, SettleRead(r) PROVE StoreFrame
  BY <1>12 DEF SettleRead, StoreFrame
<1>13. ASSUME NEW r \in Requests, RecordOutcome(r) PROVE StoreFrame
  BY <1>13 DEF RecordOutcome, StoreFrame
<1>14. ASSUME NEW r \in Requests, OutcomeLost(r) PROVE StoreFrame
  BY <1>14 DEF OutcomeLost, StoreFrame
<1>15. ASSUME NEW a \in Admins, StartRevoke(a) PROVE StoreFrame
  BY <1>15 DEF StartRevoke, StoreFrame
<1>16. ASSUME NEW a \in Admins, StartRetire(a) PROVE StoreFrame
  BY <1>16 DEF StartRetire, StoreFrame
<1>17. ASSUME NEW a \in Admins, StartRehearsal(a) PROVE StoreFrame
  BY <1>17 DEF StartRehearsal, StoreFrame
<1>18. ASSUME NEW a \in Admins, EnterAdmin(a) PROVE StoreFrame
  BY <1>18 DEF EnterAdmin, StoreFrame
<1>19. ASSUME NEW a \in Admins, RefuseAdmin(a) PROVE StoreFrame
  BY <1>19 DEF RefuseAdmin, StoreFrame
<1>20. ASSUME NEW a \in Admins, SignRecords(a) PROVE StoreFrame
  BY <1>20 DEF SignRecords, StoreFrame
<1>21. ASSUME NEW a \in Admins, CommitRevoke(a) PROVE StoreFrame
  BY <1>21 DEF StoreFrame
<1>22. ASSUME NEW a \in Admins, CommitSuccessor(a) PROVE StoreFrame
  BY <1>22 DEF StoreFrame
<1>23. ASSUME NEW a \in Admins, CommitFails(a) PROVE StoreFrame
  BY <1>23 DEF CommitFails, StoreFrame
<1>24. ASSUME IssuePassport PROVE StoreFrame
  BY <1>24 DEF IssuePassport, StoreFrame
<1>25. ASSUME EndSession PROVE StoreFrame
  BY <1>25 DEF EndSession, StoreFrame
<1>26. ASSUME Tick PROVE StoreFrame
  BY <1>26 DEF Tick, StoreFrame
<1>27. ASSUME Restart PROVE StoreFrame
  BY <1>27 DEF Restart, StoreFrame
<1>28. ASSUME UNCHANGED vars PROVE StoreFrame
  BY <1>28 DEF vars, StoreFrame
<1> QED BY <1>1, <1>2, <1>3, <1>4, <1>5, <1>6, <1>7, <1>8, <1>9, <1>10, <1>11, <1>12, <1>13, <1>14, <1>15, <1>16, <1>17, <1>18, <1>19, <1>20, <1>21, <1>22, <1>23, <1>24, <1>25, <1>26, <1>27, <1>28 DEF Next, RequestStep, AdminStep

\* Only IssuePassport adds a Passport or starts a session.
LEMMA PassportFrameHolds ==
  ASSUME [Next]_vars
  PROVE  PassportFrame
<1> USE GatewayAssumption DEF contextVars, passportVars, durableVars, requestVars, callVars, nameVars, Go, Finish, Capture, vars
<1>1. ASSUME NEW r \in Requests, NEW t \in 0 .. Len(passports), NEW x \in Resources,
             ReceiveUnauthenticated(r, t, x)
      PROVE PassportFrame
  BY <1>1 DEF ReceiveUnauthenticated, PassportFrame
<1>2. ASSUME NEW r \in Requests, NEW t \in 0 .. Len(passports), NEW x \in Resources,
             Receive(r, t, x)
      PROVE PassportFrame
  BY <1>2 DEF Receive, PassportFrame
<1>3. ASSUME NEW r \in Requests, VerifyRejects(r) PROVE PassportFrame
  BY <1>3 DEF VerifyRejects, PassportFrame
<1>4. ASSUME NEW r \in Requests, VerifyAccepts(r) PROVE PassportFrame
  BY <1>4 DEF VerifyAccepts, PassportFrame
<1>5. ASSUME NEW r \in Requests, RecordRejection(r) PROVE PassportFrame
  BY <1>5 DEF RecordRejection, PassportFrame
<1>6. ASSUME NEW r \in Requests, RecordDenial(r) PROVE PassportFrame
  BY <1>6 DEF RecordDenial, PassportFrame
<1>7. ASSUME NEW r \in Requests, RecordAttempt(r) PROVE PassportFrame
  BY <1>7 DEF RecordAttempt, PassportFrame
<1>8. ASSUME NEW r \in Requests, EvidenceLost(r) PROVE PassportFrame
  BY <1>8 DEF EvidenceLost, PassportFrame
<1>9. ASSUME NEW r \in Requests, EnterLease(r) PROVE PassportFrame
  BY <1>9 DEF EnterLease, PassportFrame
<1>10. ASSUME NEW r \in Requests, ReadContent(r) PROVE PassportFrame
  BY <1>10 DEF ReadContent, PassportFrame
<1>11. ASSUME NEW r \in Requests, RefuseUnderLease(r) PROVE PassportFrame
  BY <1>11 DEF RefuseUnderLease, PassportFrame
<1>12. ASSUME NEW r \in Requests, SettleRead(r) PROVE PassportFrame
  BY <1>12 DEF SettleRead, PassportFrame
<1>13. ASSUME NEW r \in Requests, RecordOutcome(r) PROVE PassportFrame
  BY <1>13 DEF RecordOutcome, PassportFrame
<1>14. ASSUME NEW r \in Requests, OutcomeLost(r) PROVE PassportFrame
  BY <1>14 DEF OutcomeLost, PassportFrame
<1>15. ASSUME NEW a \in Admins, StartRevoke(a) PROVE PassportFrame
  BY <1>15 DEF StartRevoke, PassportFrame
<1>16. ASSUME NEW a \in Admins, StartRetire(a) PROVE PassportFrame
  BY <1>16 DEF StartRetire, PassportFrame
<1>17. ASSUME NEW a \in Admins, StartRehearsal(a) PROVE PassportFrame
  BY <1>17 DEF StartRehearsal, PassportFrame
<1>18. ASSUME NEW a \in Admins, EnterAdmin(a) PROVE PassportFrame
  BY <1>18 DEF EnterAdmin, PassportFrame
<1>19. ASSUME NEW a \in Admins, RefuseAdmin(a) PROVE PassportFrame
  BY <1>19 DEF RefuseAdmin, PassportFrame
<1>20. ASSUME NEW a \in Admins, SignRecords(a) PROVE PassportFrame
  BY <1>20 DEF SignRecords, PassportFrame
<1>21. ASSUME NEW a \in Admins, CommitRevoke(a) PROVE PassportFrame
  BY <1>21 DEF CommitRevoke, PassportFrame
<1>22. ASSUME NEW a \in Admins, CommitSuccessor(a) PROVE PassportFrame
  BY <1>22 DEF CommitSuccessor, PassportFrame
<1>23. ASSUME NEW a \in Admins, CommitFails(a) PROVE PassportFrame
  BY <1>23 DEF CommitFails, PassportFrame
<1>24. ASSUME IssuePassport PROVE PassportFrame
  BY <1>24 DEF PassportFrame
<1>25. ASSUME EndSession PROVE PassportFrame
  BY <1>25 DEF EndSession, PassportFrame
<1>26. ASSUME Tick PROVE PassportFrame
  BY <1>26 DEF Tick, PassportFrame
<1>27. ASSUME Restart PROVE PassportFrame
  BY <1>27 DEF Restart, PassportFrame
<1>28. ASSUME UNCHANGED vars PROVE PassportFrame
  BY <1>28 DEF vars, PassportFrame
<1> QED BY <1>1, <1>2, <1>3, <1>4, <1>5, <1>6, <1>7, <1>8, <1>9, <1>10, <1>11, <1>12, <1>13, <1>14, <1>15, <1>16, <1>17, <1>18, <1>19, <1>20, <1>21, <1>22, <1>23, <1>24, <1>25, <1>26, <1>27, <1>28 DEF Next, RequestStep, AdminStep

\* Only a request's own steps, and a restart, change it.
LEMMA RequestFrameHolds ==
  ASSUME IInv, [Next]_vars, NEW q \in Requests
  PROVE  RequestFrame(q)
<1> USE GatewayAssumption DEF contextVars, passportVars, durableVars, requestVars, callVars, nameVars, Go, Finish, Capture, vars
<1>0. /\ TypeOK /\ q \in Ops
      /\ \A r \in Requests : r \in Ops
      /\ \A a \in Admins : a \in Ops /\ a # q
  BY DEF IInv, Ops
<1>1. ASSUME NEW r \in Requests, NEW t \in 0 .. Len(passports), NEW x \in Resources,
             ReceiveUnauthenticated(r, t, x)
      PROVE RequestFrame(q)
  <2>1. CASE r = q
    BY <1>1, <2>1 DEF RequestFrame
  <2>2. CASE r # q
    BY <1>1, <1>0, <2>2 DEF ReceiveUnauthenticated, RequestFrame, SameRequest, TypeOK, CallType, ReadType, StoreType, SeenType
  <2> QED BY <2>1, <2>2
<1>2. ASSUME NEW r \in Requests, NEW t \in 0 .. Len(passports), NEW x \in Resources,
             Receive(r, t, x)
      PROVE RequestFrame(q)
  <2>1. CASE r = q
    BY <1>2, <2>1 DEF RequestFrame
  <2>2. CASE r # q
    BY <1>2, <1>0, <2>2 DEF Receive, RequestFrame, SameRequest, TypeOK, CallType, ReadType, StoreType, SeenType
  <2> QED BY <2>1, <2>2
<1>3. ASSUME NEW r \in Requests, VerifyRejects(r) PROVE RequestFrame(q)
  <2>1. CASE r = q
    BY <1>3, <2>1 DEF RequestFrame, RequestStep
  <2>2. CASE r # q
    BY <1>3, <1>0, <2>2 DEF VerifyRejects, AppendEvents, RequestFrame, SameRequest, TypeOK, CallType, ReadType, StoreType, SeenType
  <2> QED BY <2>1, <2>2
<1>4. ASSUME NEW r \in Requests, VerifyAccepts(r) PROVE RequestFrame(q)
  <2>1. CASE r = q
    BY <1>4, <2>1 DEF RequestFrame, RequestStep
  <2>2. CASE r # q
    BY <1>4, <1>0, <2>2 DEF VerifyAccepts, AppendEvents, RequestFrame, SameRequest, TypeOK, CallType, ReadType, StoreType, SeenType
  <2> QED BY <2>1, <2>2
<1>5. ASSUME NEW r \in Requests, RecordRejection(r) PROVE RequestFrame(q)
  <2>1. CASE r = q
    BY <1>5, <2>1 DEF RequestFrame, RequestStep
  <2>2. CASE r # q
    BY <1>5, <1>0, <2>2 DEF RecordRejection, AppendEvents, RequestFrame, SameRequest, TypeOK, CallType, ReadType, StoreType, SeenType
  <2> QED BY <2>1, <2>2
<1>6. ASSUME NEW r \in Requests, RecordDenial(r) PROVE RequestFrame(q)
  <2>1. CASE r = q
    BY <1>6, <2>1 DEF RequestFrame, RequestStep
  <2>2. CASE r # q
    BY <1>6, <1>0, <2>2 DEF RecordDenial, AppendEvents, RequestFrame, SameRequest, TypeOK, CallType, ReadType, StoreType, SeenType
  <2> QED BY <2>1, <2>2
<1>7. ASSUME NEW r \in Requests, RecordAttempt(r) PROVE RequestFrame(q)
  <2>1. CASE r = q
    BY <1>7, <2>1 DEF RequestFrame, RequestStep
  <2>2. CASE r # q
    BY <1>7, <1>0, <2>2 DEF RecordAttempt, AppendEvents, RequestFrame, SameRequest, TypeOK, CallType, ReadType, StoreType, SeenType
  <2> QED BY <2>1, <2>2
<1>8. ASSUME NEW r \in Requests, EvidenceLost(r) PROVE RequestFrame(q)
  <2>1. CASE r = q
    BY <1>8, <2>1 DEF RequestFrame, RequestStep
  <2>2. CASE r # q
    BY <1>8, <1>0, <2>2 DEF EvidenceLost, AppendEvents, RequestFrame, SameRequest, TypeOK, CallType, ReadType, StoreType, SeenType
  <2> QED BY <2>1, <2>2
<1>9. ASSUME NEW r \in Requests, EnterLease(r) PROVE RequestFrame(q)
  <2>1. CASE r = q
    BY <1>9, <2>1 DEF RequestFrame, RequestStep
  <2>2. CASE r # q
    BY <1>9, <1>0, <2>2 DEF EnterLease, AppendEvents, RequestFrame, SameRequest, TypeOK, CallType, ReadType, StoreType, SeenType
  <2> QED BY <2>1, <2>2
<1>10. ASSUME NEW r \in Requests, ReadContent(r) PROVE RequestFrame(q)
  <2>1. CASE r = q
    BY <1>10, <2>1 DEF RequestFrame, RequestStep
  <2>2. CASE r # q
    BY <1>10, <1>0, <2>2 DEF ReadContent, AppendEvents, RequestFrame, SameRequest, TypeOK, CallType, ReadType, StoreType, SeenType
  <2> QED BY <2>1, <2>2
<1>11. ASSUME NEW r \in Requests, RefuseUnderLease(r) PROVE RequestFrame(q)
  <2>1. CASE r = q
    BY <1>11, <2>1 DEF RequestFrame, RequestStep
  <2>2. CASE r # q
    BY <1>11, <1>0, <2>2 DEF RefuseUnderLease, AppendEvents, RequestFrame, SameRequest, TypeOK, CallType, ReadType, StoreType, SeenType
  <2> QED BY <2>1, <2>2
<1>12. ASSUME NEW r \in Requests, SettleRead(r) PROVE RequestFrame(q)
  <2>1. CASE r = q
    BY <1>12, <2>1 DEF RequestFrame, RequestStep
  <2>2. CASE r # q
    BY <1>12, <1>0, <2>2 DEF SettleRead, AppendEvents, RequestFrame, SameRequest, TypeOK, CallType, ReadType, StoreType, SeenType
  <2> QED BY <2>1, <2>2
<1>13. ASSUME NEW r \in Requests, RecordOutcome(r) PROVE RequestFrame(q)
  <2>1. CASE r = q
    BY <1>13, <2>1 DEF RequestFrame, RequestStep
  <2>2. CASE r # q
    BY <1>13, <1>0, <2>2 DEF RecordOutcome, AppendEvents, RequestFrame, SameRequest, TypeOK, CallType, ReadType, StoreType, SeenType
  <2> QED BY <2>1, <2>2
<1>14. ASSUME NEW r \in Requests, OutcomeLost(r) PROVE RequestFrame(q)
  <2>1. CASE r = q
    BY <1>14, <2>1 DEF RequestFrame, RequestStep
  <2>2. CASE r # q
    BY <1>14, <1>0, <2>2 DEF OutcomeLost, AppendEvents, RequestFrame, SameRequest, TypeOK, CallType, ReadType, StoreType, SeenType
  <2> QED BY <2>1, <2>2
<1>15. ASSUME NEW a \in Admins, StartRevoke(a) PROVE RequestFrame(q)
  <2>1. a # q /\ q \in Ops /\ DOMAIN pc = Ops /\ DOMAIN target = Ops
    BY <1>0 DEF TypeOK, CallType, ReadType, StoreType, SeenType
  <2>2. pc'[q] = pc[q] /\ target'[q] = target[q]
    BY <1>15, <2>1 DEF StartRevoke
  <2> QED BY <1>15, <2>2 DEF StartRevoke, RequestFrame, SameRequest
<1>16. ASSUME NEW a \in Admins, StartRetire(a) PROVE RequestFrame(q)
  <2>1. /\ a # q /\ q \in Ops /\ DOMAIN pc = Ops /\ DOMAIN target = Ops
        /\ DOMAIN result = Ops
    BY <1>0 DEF TypeOK, CallType, ReadType, StoreType, SeenType
  <2>2. pc'[q] = pc[q] /\ target'[q] = target[q] /\ result'[q] = result[q]
    BY <1>16, <2>1 DEF StartRetire
  <2> QED BY <1>16, <2>2 DEF StartRetire, RequestFrame, SameRequest
<1>17. ASSUME NEW a \in Admins, StartRehearsal(a) PROVE RequestFrame(q)
  BY <1>17, <1>0 DEF StartRehearsal, RequestFrame, SameRequest, TypeOK, CallType, ReadType, StoreType, SeenType
<1>18. ASSUME NEW a \in Admins, EnterAdmin(a) PROVE RequestFrame(q)
  BY <1>18, <1>0 DEF EnterAdmin, RequestFrame, SameRequest, TypeOK, CallType, ReadType, StoreType, SeenType
<1>19. ASSUME NEW a \in Admins, RefuseAdmin(a) PROVE RequestFrame(q)
  BY <1>19, <1>0 DEF RefuseAdmin, RequestFrame, SameRequest, TypeOK, CallType, ReadType, StoreType, SeenType
<1>20. ASSUME NEW a \in Admins, SignRecords(a) PROVE RequestFrame(q)
  BY <1>20, <1>0 DEF SignRecords, RequestFrame, SameRequest, TypeOK, CallType, ReadType, StoreType, SeenType
<1>21. ASSUME NEW a \in Admins, CommitRevoke(a) PROVE RequestFrame(q)
  BY <1>21, <1>0 DEF CommitRevoke, RequestFrame, SameRequest, TypeOK, CallType, ReadType, StoreType, SeenType
<1>22. ASSUME NEW a \in Admins, CommitSuccessor(a) PROVE RequestFrame(q)
  BY <1>22, <1>0 DEF CommitSuccessor, RequestFrame, SameRequest, TypeOK, CallType, ReadType, StoreType, SeenType
<1>23. ASSUME NEW a \in Admins, CommitFails(a) PROVE RequestFrame(q)
  BY <1>23, <1>0 DEF CommitFails, RequestFrame, SameRequest, TypeOK, CallType, ReadType, StoreType, SeenType
<1>24. ASSUME IssuePassport PROVE RequestFrame(q)
  BY <1>24, <1>0 DEF IssuePassport, RequestFrame, SameRequest, TypeOK, CallType, ReadType, StoreType, SeenType
<1>25. ASSUME EndSession PROVE RequestFrame(q)
  BY <1>25, <1>0 DEF EndSession, RequestFrame, SameRequest, TypeOK, CallType, ReadType, StoreType, SeenType
<1>26. ASSUME Tick PROVE RequestFrame(q)
  BY <1>26, <1>0 DEF Tick, RequestFrame, SameRequest, TypeOK, CallType, ReadType, StoreType, SeenType
<1>27. ASSUME Restart PROVE RequestFrame(q)
  BY <1>27 DEF RequestFrame
<1>28. ASSUME UNCHANGED vars PROVE RequestFrame(q)
  BY <1>28, <1>0 DEF vars, RequestFrame, SameRequest, TypeOK, CallType, ReadType, StoreType, SeenType
<1> QED BY <1>1, <1>2, <1>3, <1>4, <1>5, <1>6, <1>7, <1>8, <1>9, <1>10, <1>11, <1>12, <1>13, <1>14, <1>15, <1>16, <1>17, <1>18, <1>19, <1>20, <1>21, <1>22, <1>23, <1>24, <1>25, <1>26, <1>27, <1>28 DEF Next, RequestStep, AdminStep

\* Only an administrative call's own steps, and a restart, change it.
LEMMA AdminFrameHolds ==
  ASSUME IInv, [Next]_vars, NEW b \in Admins
  PROVE  AdminFrame(b)
<1> USE GatewayAssumption DEF contextVars, passportVars, durableVars, requestVars, callVars, nameVars, Go, Finish, Capture, vars
<1>0. /\ TypeOK /\ b \in Ops
      /\ \A r \in Requests : r \in Ops
      /\ \A a \in Admins : a \in Ops
  BY DEF IInv, Ops
<1>1. ASSUME NEW r \in Requests, NEW t \in 0 .. Len(passports), NEW x \in Resources,
             ReceiveUnauthenticated(r, t, x)
      PROVE AdminFrame(b)
  BY <1>1, <1>0 DEF ReceiveUnauthenticated, AdminFrame, SameAdmin, TypeOK, CallType, ReadType, StoreType, SeenType
<1>2. ASSUME NEW r \in Requests, NEW t \in 0 .. Len(passports), NEW x \in Resources,
             Receive(r, t, x)
      PROVE AdminFrame(b)
  BY <1>2, <1>0 DEF Receive, AdminFrame, SameAdmin, TypeOK, CallType, ReadType, StoreType, SeenType
<1>3. ASSUME NEW r \in Requests, VerifyRejects(r) PROVE AdminFrame(b)
  BY <1>3, <1>0 DEF VerifyRejects, AdminFrame, SameAdmin, TypeOK, CallType, ReadType, StoreType, SeenType
<1>4. ASSUME NEW r \in Requests, VerifyAccepts(r) PROVE AdminFrame(b)
  BY <1>4, <1>0 DEF VerifyAccepts, AdminFrame, SameAdmin, TypeOK, CallType, ReadType, StoreType, SeenType
<1>5. ASSUME NEW r \in Requests, RecordRejection(r) PROVE AdminFrame(b)
  BY <1>5, <1>0 DEF RecordRejection, AdminFrame, SameAdmin, TypeOK, CallType, ReadType, StoreType, SeenType
<1>6. ASSUME NEW r \in Requests, RecordDenial(r) PROVE AdminFrame(b)
  BY <1>6, <1>0 DEF RecordDenial, AdminFrame, SameAdmin, TypeOK, CallType, ReadType, StoreType, SeenType
<1>7. ASSUME NEW r \in Requests, RecordAttempt(r) PROVE AdminFrame(b)
  BY <1>7, <1>0 DEF RecordAttempt, AdminFrame, SameAdmin, TypeOK, CallType, ReadType, StoreType, SeenType
<1>8. ASSUME NEW r \in Requests, EvidenceLost(r) PROVE AdminFrame(b)
  BY <1>8, <1>0 DEF EvidenceLost, AdminFrame, SameAdmin, TypeOK, CallType, ReadType, StoreType, SeenType
<1>9. ASSUME NEW r \in Requests, EnterLease(r) PROVE AdminFrame(b)
  BY <1>9, <1>0 DEF EnterLease, AdminFrame, SameAdmin, TypeOK, CallType, ReadType, StoreType, SeenType
<1>10. ASSUME NEW r \in Requests, ReadContent(r) PROVE AdminFrame(b)
  BY <1>10, <1>0 DEF ReadContent, AdminFrame, SameAdmin, TypeOK, CallType, ReadType, StoreType, SeenType
<1>11. ASSUME NEW r \in Requests, RefuseUnderLease(r) PROVE AdminFrame(b)
  BY <1>11, <1>0 DEF RefuseUnderLease, AdminFrame, SameAdmin, TypeOK, CallType, ReadType, StoreType, SeenType
<1>12. ASSUME NEW r \in Requests, SettleRead(r) PROVE AdminFrame(b)
  BY <1>12, <1>0 DEF SettleRead, AdminFrame, SameAdmin, TypeOK, CallType, ReadType, StoreType, SeenType
<1>13. ASSUME NEW r \in Requests, RecordOutcome(r) PROVE AdminFrame(b)
  BY <1>13, <1>0 DEF RecordOutcome, AdminFrame, SameAdmin, TypeOK, CallType, ReadType, StoreType, SeenType
<1>14. ASSUME NEW r \in Requests, OutcomeLost(r) PROVE AdminFrame(b)
  BY <1>14, <1>0 DEF OutcomeLost, AdminFrame, SameAdmin, TypeOK, CallType, ReadType, StoreType, SeenType
<1>15. ASSUME NEW a \in Admins, StartRevoke(a) PROVE AdminFrame(b)
  <2>1. CASE a = b
    BY <1>15, <2>1 DEF AdminFrame, AdminStep
  <2>2. CASE a # b
    BY <1>15, <1>0, <2>2 DEF StartRevoke, AdminFrame, SameAdmin, TypeOK, CallType, ReadType, StoreType, SeenType
  <2> QED BY <2>1, <2>2
<1>16. ASSUME NEW a \in Admins, StartRetire(a) PROVE AdminFrame(b)
  <2>1. CASE a = b
    BY <1>16, <2>1 DEF AdminFrame, AdminStep
  <2>2. CASE a # b
    <3>1. /\ b \in Ops /\ DOMAIN pc = Ops /\ DOMAIN kind = Ops /\ DOMAIN target = Ops
          /\ DOMAIN result = Ops /\ DOMAIN seen = Ops /\ DOMAIN at = Ops
      BY <1>0 DEF TypeOK, CallType, ReadType, StoreType, SeenType
    <3>2. pc'[b] = pc[b] /\ kind'[b] = kind[b] /\ target'[b] = target[b]
      BY <1>16, <2>2, <3>1 DEF StartRetire
    <3>3. rev'[b] = rev[b] /\ result'[b] = result[b] /\ seen'[b] = seen[b] /\ at'[b] = at[b]
      BY <1>16, <2>2, <3>1 DEF StartRetire
    <3> QED BY <3>2, <3>3 DEF AdminFrame, SameAdmin
  <2> QED BY <2>1, <2>2
<1>17. ASSUME NEW a \in Admins, StartRehearsal(a) PROVE AdminFrame(b)
  <2>1. CASE a = b
    BY <1>17, <2>1 DEF AdminFrame, AdminStep
  <2>2. CASE a # b
    BY <1>17, <1>0, <2>2 DEF StartRehearsal, AdminFrame, SameAdmin, TypeOK, CallType, ReadType, StoreType, SeenType
  <2> QED BY <2>1, <2>2
<1>18. ASSUME NEW a \in Admins, EnterAdmin(a) PROVE AdminFrame(b)
  <2>1. CASE a = b
    BY <1>18, <2>1 DEF AdminFrame, AdminStep
  <2>2. CASE a # b
    BY <1>18, <1>0, <2>2 DEF EnterAdmin, AdminFrame, SameAdmin, TypeOK, CallType, ReadType, StoreType, SeenType
  <2> QED BY <2>1, <2>2
<1>19. ASSUME NEW a \in Admins, RefuseAdmin(a) PROVE AdminFrame(b)
  <2>1. CASE a = b
    BY <1>19, <2>1 DEF AdminFrame, AdminStep
  <2>2. CASE a # b
    BY <1>19, <1>0, <2>2 DEF RefuseAdmin, AdminFrame, SameAdmin, TypeOK, CallType, ReadType, StoreType, SeenType
  <2> QED BY <2>1, <2>2
<1>20. ASSUME NEW a \in Admins, SignRecords(a) PROVE AdminFrame(b)
  <2>1. CASE a = b
    BY <1>20, <2>1 DEF AdminFrame, AdminStep
  <2>2. CASE a # b
    BY <1>20, <1>0, <2>2 DEF SignRecords, AdminFrame, SameAdmin, TypeOK, CallType, ReadType, StoreType, SeenType
  <2> QED BY <2>1, <2>2
<1>21. ASSUME NEW a \in Admins, CommitRevoke(a) PROVE AdminFrame(b)
  <2>1. CASE a = b
    BY <1>21, <2>1 DEF AdminFrame, AdminStep
  <2>2. CASE a # b
    BY <1>21, <1>0, <2>2 DEF CommitRevoke, AdminFrame, SameAdmin, TypeOK, CallType, ReadType, StoreType, SeenType
  <2> QED BY <2>1, <2>2
<1>22. ASSUME NEW a \in Admins, CommitSuccessor(a) PROVE AdminFrame(b)
  <2>1. CASE a = b
    BY <1>22, <2>1 DEF AdminFrame, AdminStep
  <2>2. CASE a # b
    BY <1>22, <1>0, <2>2 DEF CommitSuccessor, AdminFrame, SameAdmin, TypeOK, CallType, ReadType, StoreType, SeenType
  <2> QED BY <2>1, <2>2
<1>23. ASSUME NEW a \in Admins, CommitFails(a) PROVE AdminFrame(b)
  <2>1. CASE a = b
    BY <1>23, <2>1 DEF AdminFrame, AdminStep
  <2>2. CASE a # b
    BY <1>23, <1>0, <2>2 DEF CommitFails, AdminFrame, SameAdmin, TypeOK, CallType, ReadType, StoreType, SeenType
  <2> QED BY <2>1, <2>2
<1>24. ASSUME IssuePassport PROVE AdminFrame(b)
  BY <1>24, <1>0 DEF IssuePassport, AdminFrame, SameAdmin, TypeOK, CallType, ReadType, StoreType, SeenType
<1>25. ASSUME EndSession PROVE AdminFrame(b)
  BY <1>25, <1>0 DEF EndSession, AdminFrame, SameAdmin, TypeOK, CallType, ReadType, StoreType, SeenType
<1>26. ASSUME Tick PROVE AdminFrame(b)
  BY <1>26, <1>0 DEF Tick, AdminFrame, SameAdmin, TypeOK, CallType, ReadType, StoreType, SeenType
<1>27. ASSUME Restart PROVE AdminFrame(b)
  BY <1>27 DEF AdminFrame
<1>28. ASSUME UNCHANGED vars PROVE AdminFrame(b)
  BY <1>28, <1>0 DEF vars, AdminFrame, SameAdmin, TypeOK, CallType, ReadType, StoreType, SeenType
<1> QED BY <1>1, <1>2, <1>3, <1>4, <1>5, <1>6, <1>7, <1>8, <1>9, <1>10, <1>11, <1>12, <1>13, <1>14, <1>15, <1>16, <1>17, <1>18, <1>19, <1>20, <1>21, <1>22, <1>23, <1>24, <1>25, <1>26, <1>27, <1>28 DEF Next, RequestStep, AdminStep

-----------------------------------------------------------------------------
(* The records of the authority. *)

\* A revocation closes the Mandate of the Agent, which was active and unreplaced.
LEMMA CommitRevokeEffect ==
  ASSUME IInv, NEW a \in Admins, CommitRevoke(a)
  PROVE  /\ target[a] = agentMandate
         /\ agentMandate \in Installed /\ agentMandate \in Mandates
         /\ records[agentMandate] \in Record /\ records[agentMandate].replacedBy = None
         /\ Revoked(records[agentMandate], None) \in Record
         /\ records' = [records EXCEPT ![agentMandate] = Revoked(records[agentMandate], None)]
         /\ agentMandate' = agentMandate
<1>1. Critical(a) /\ a \in Ops
  BY DEF CommitRevoke, Critical, Ops
<1>2. /\ target[a] \in Installed /\ target[a] \in Mandates
      /\ seen[a] = records[target[a]] /\ seen[a] \in Record
  BY <1>1, CriticalFacts
<1>3. seen[a].status = "active" /\ seen[a].replacedBy = None
  BY DEF IInv, Wiring, AdminWiring, CommitRevoke
<1>4. target[a] = agentMandate
  BY <1>2, <1>3 DEF IInv, OneActiveMandate
<1>5. Revoked(seen[a], None) \in Record
  BY <1>2, SignedTypes DEF IInv, TypeOK
<1>6. records' = [records EXCEPT ![target[a]] = Revoked(seen[a], None)]
      /\ agentMandate' = agentMandate
  BY DEF CommitRevoke
<1> QED BY <1>2, <1>3, <1>4, <1>5, <1>6

\* A rehearsal closes the Mandate of the Agent, names its successor, which had no
\* record before, and gives it to the Agent.
LEMMA CommitSuccessorEffect ==
  ASSUME IInv, NEW a \in Admins, CommitSuccessor(a)
  PROVE  /\ target[a] = agentMandate
         /\ agentMandate \in Installed /\ agentMandate \in Mandates
         /\ records[agentMandate] \in Record /\ records[agentMandate].replacedBy = None
         /\ Issued(at[a]) \in Record
         /\ \E s \in Mandates \ Installed :
              /\ Revoked(records[agentMandate], s) \in Record
              /\ records' = [records EXCEPT ![agentMandate] = Revoked(records[agentMandate], s),
                                            ![s] = Issued(at[a])]
              /\ agentMandate' = s
<1>1. Critical(a) /\ a \in Ops
  BY DEF CommitSuccessor, Critical, Ops
<1>2. /\ target[a] \in Installed /\ target[a] \in Mandates
      /\ seen[a] = records[target[a]] /\ seen[a] \in Record
  BY <1>1, CriticalFacts
<1>3. target[a] = agentMandate
  BY DEF CommitSuccessor
<1>4. records[agentMandate].replacedBy = None
  BY <1>2, <1>3 DEF IInv, OneActiveMandate
<1>5. at[a] \in Nat
  BY <1>1 DEF IInv, TypeOK, SeenType
<1>6. Issued(at[a]) \in Record /\ \A s \in Mandates : Revoked(seen[a], s) \in Record
  BY <1>2, <1>5, SignedTypes
<1>7. PICK s \in Mandates \ Installed :
        /\ records' = [records EXCEPT ![target[a]] = Revoked(seen[a], s), ![s] = Issued(at[a])]
        /\ agentMandate' = s
  BY DEF CommitSuccessor
<1> QED BY <1>2, <1>3, <1>4, <1>6, <1>7

\* A record that changes was the last of an unreplaced Mandate, is revoked and has the
\* next revision.
Advanced(m) == /\ records'[m].rev = records[m].rev + 1
               /\ records'[m].status = "revoked"
               /\ records[m].replacedBy = None

\* No step removes a record, changes one but by closing it, or leaves the Agent with
\* another active Mandate than its own.
LEMMA RecordsStep ==
  ASSUME IInv, [Next]_vars
  PROVE  /\ OneActiveMandate'
         /\ Installed \subseteq Installed' /\ agentMandate' \in Installed'
         /\ \A m \in Installed : records'[m] = records[m] \/ Advanced(m)
<1> USE GatewayAssumption
<1>0. OneActiveMandate /\ agentMandate \in Installed /\ records \in [Mandates -> Record \cup {None}]
  BY DEF IInv, Wiring, TypeOK, StoreType
<1>1. CASE UNCHANGED <<agentMandate, records>>
  BY <1>0, <1>1 DEF OneActiveMandate, Installed
<1>2. ASSUME NEW a \in Admins, CommitRevoke(a)
      PROVE  /\ OneActiveMandate'
             /\ Installed \subseteq Installed' /\ agentMandate' \in Installed'
             /\ \A m \in Installed : records'[m] = records[m] \/ Advanced(m)
  <2> DEFINE c == Revoked(records[agentMandate], None)
  <2>1. /\ agentMandate \in Mandates /\ records[agentMandate].replacedBy = None
        /\ c \in Record /\ records' = [records EXCEPT ![agentMandate] = c]
        /\ agentMandate' = agentMandate
    BY <1>2, CommitRevokeEffect
  <2>2. c.rev = records[agentMandate].rev + 1 /\ c.status = "revoked" /\ c.replacedBy = None
    BY DEF Revoked
  <2>3. /\ c # None /\ records'[agentMandate] = c
        /\ \A m \in Mandates \ {agentMandate} : records'[m] = records[m]
    BY <1>0, <2>1
  <2> HIDE DEF c
  <2>4. Installed' = Installed
    BY <1>0, <2>3 DEF Installed
  <2>5. \A m \in Installed : records'[m] = records[m] \/ Advanced(m)
    BY <2>1, <2>2, <2>3 DEF Installed, Advanced
  <2>6. OneActiveMandate'
    BY <1>0, <2>1, <2>2, <2>3, <2>4 DEF OneActiveMandate, Installed
  <2> QED BY <1>0, <2>1, <2>4, <2>5, <2>6
<1>3. ASSUME NEW a \in Admins, CommitSuccessor(a)
      PROVE  /\ OneActiveMandate'
             /\ Installed \subseteq Installed' /\ agentMandate' \in Installed'
             /\ \A m \in Installed : records'[m] = records[m] \/ Advanced(m)
  <2>1. PICK s \in Mandates \ Installed :
          /\ Revoked(records[agentMandate], s) \in Record
          /\ records' = [records EXCEPT ![agentMandate] = Revoked(records[agentMandate], s),
                                        ![s] = Issued(at[a])]
          /\ agentMandate' = s
    BY <1>3, CommitSuccessorEffect
  <2> DEFINE c == Revoked(records[agentMandate], s)
             n == Issued(at[a])
  <2>2. /\ agentMandate \in Mandates /\ records[agentMandate].replacedBy = None
        /\ n \in Record
    BY <1>3, CommitSuccessorEffect
  <2>3. /\ c.rev = records[agentMandate].rev + 1 /\ c.status = "revoked" /\ c.replacedBy = s
        /\ n.replacedBy = None
    BY DEF Revoked, Issued
  <2>4. s # agentMandate
    BY <1>0, <2>1
  <2>5. /\ c # None /\ n # None /\ records'[agentMandate] = c /\ records'[s] = n
        /\ \A m \in Mandates \ {agentMandate, s} : records'[m] = records[m]
    BY <1>0, <2>1, <2>2, <2>4
  <2> HIDE DEF c, n
  <2>6. Installed' = Installed \cup {s}
    BY <1>0, <2>1, <2>2, <2>5 DEF Installed
  <2>7. \A m \in Installed : records'[m] = records[m] \/ Advanced(m)
    BY <2>1, <2>2, <2>3, <2>5 DEF Installed, Advanced
  <2>8. OneActiveMandate'
    BY <1>0, <2>1, <2>2, <2>3, <2>4, <2>5, <2>6 DEF OneActiveMandate, Installed
  <2> QED BY <2>1, <2>6, <2>7, <2>8
<1> QED BY <1>1, <1>2, <1>3, StoreFrameHolds DEF StoreFrame

\* Passports are only added, each for an installed Mandate, and the session is one.
LEMMA PassportsStep ==
  ASSUME IInv, [Next]_vars
  PROVE  /\ Len(passports) \in Nat /\ Len(passports') \in Nat
         /\ Len(passports) <= Len(passports')
         /\ \A i \in 1 .. Len(passports) : passports'[i] = passports[i]
         /\ session' \in 0 .. Len(passports')
         /\ \A i \in 1 .. Len(passports') : passports'[i].mandate \in Installed'
<1>0. /\ passports \in Seq(Passport) /\ Len(passports) \in Nat
      /\ session \in 0 .. Len(passports)
      /\ \A i \in 1 .. Len(passports) : passports[i].mandate \in Installed
      /\ agentMandate \in Installed /\ Installed \subseteq Installed'
  BY RecordsStep DEF IInv, Wiring, TypeOK, WorldType
<1>1. CASE UNCHANGED passports /\ session' \in {0, session}
  BY <1>0, <1>1
<1>2. CASE IssuePassport
  <2> DEFINE p == [mandate |-> agentMandate, exp |-> now + PassportTTL]
  <2>1. passports' = Append(passports, p) /\ session' = Len(passports) + 1
    BY <1>2 DEF IssuePassport
  <2>2. p.mandate = agentMandate
    OBVIOUS
  <2> HIDE DEF p
  <2>3. /\ Len(passports') = Len(passports) + 1
        /\ \A i \in 1 .. Len(passports) : passports'[i] = passports[i]
        /\ passports'[Len(passports) + 1] = p
    BY <1>0, <2>1
  <2>4. \A i \in 1 .. Len(passports') : passports'[i].mandate \in Installed'
    BY <1>0, <2>2, <2>3
  <2> QED BY <1>0, <2>1, <2>3, <2>4
<1> QED BY <1>1, <1>2, PassportFrameHolds DEF PassportFrame

-----------------------------------------------------------------------------
(* The requests. *)

\* Each request keeps to the progress of readDocument and to what it refers to.
LEMMA RequestWiringStep ==
  ASSUME IInv, [Next]_vars, NEW q \in Requests
  PROVE  RequestWiring(q)'
<1> USE DEF Go, Finish, Capture, Authenticated
<1>0. /\ q \in Ops /\ RequestWiring(q)
      /\ pc \in [Ops -> Progress] /\ target \in [Ops -> Mandates \cup {None}]
      /\ token \in [Requests -> Nat]
      /\ Len(passports) \in Nat /\ Len(passports') \in Nat /\ Len(passports) <= Len(passports')
      /\ \A i \in 1 .. Len(passports) : passports'[i] = passports[i]
  BY PassportsStep DEF IInv, Wiring, TypeOK, CallType, ReadType, Ops
<1>1. CASE SameRequest(q)
  BY <1>0, <1>1 DEF SameRequest, RequestWiring
<1>2. CASE \E t \in 0 .. Len(passports), x \in Resources : ReceiveUnauthenticated(q, t, x)
  <2>1. PICK t \in 0 .. Len(passports) :
          /\ pc[q] = "idle" /\ pc'[q] = "rejecting" /\ token'[q] = t /\ target'[q] = target[q]
    BY <1>0, <1>2 DEF ReceiveUnauthenticated, callVars, nameVars
  <2>2. target[q] = None
    BY <1>0, <2>1 DEF RequestWiring
  <2> QED BY <1>0, <2>1, <2>2 DEF RequestWiring
<1>3. CASE \E t \in 0 .. Len(passports), x \in Resources : Receive(q, t, x)
  <2>1. PICK t \in 0 .. Len(passports) :
          /\ t # 0 /\ pc'[q] = "verifying" /\ token'[q] = t
          /\ target'[q] = passports[t].mandate
    BY <1>0, <1>3 DEF Receive, PassportAccepted
  <2>2. passports[t].mandate # None /\ passports'[t] = passports[t]
    BY <1>0, <2>1, PassportFacts, GatewayAssumption DEF IInv
  <2> QED BY <1>0, <2>1, <2>2 DEF RequestWiring
<1>4. CASE RequestStep(q)
  <2>1. /\ target'[q] = target[q] /\ token'[q] = token[q]
        /\ pc'[q] \notin {"committing", "idle"}
        /\ pc[q] \in Authenticated \/ pc'[q] \notin Authenticated
    BY <1>0, <1>4 DEF RequestStep, VerifyRejects, VerifyAccepts, RecordRejection,
         RecordDenial, RecordAttempt, EvidenceLost, EnterLease, ReadContent,
         RefuseUnderLease, SettleRead, RecordOutcome, OutcomeLost,
         callVars, nameVars, requestVars
  <2> QED BY <1>0, <2>1 DEF RequestWiring
<1>5. CASE Restart
  <2>1. /\ target'[q] = target[q] /\ token'[q] = token[q]
        /\ pc'[q] = pc[q] \/ pc'[q] = "done"
    BY <1>0, <1>5 DEF Restart, nameVars, requestVars
  <2> QED BY <1>0, <2>1 DEF RequestWiring
<1> QED BY <1>1, <1>2, <1>3, <1>4, <1>5, RequestFrameHolds DEF RequestFrame

\* Each request's trail, provider calls and answer keep agreeing with its progress.
LEMMA TrailStep ==
  ASSUME IInv, [Next]_vars, NEW q \in Requests
  PROVE  TrailOf(q)'
<1> USE DEF Go, Finish, Capture, Before, Under, After, callVars, nameVars, requestVars
<1>0. /\ q \in Ops /\ TrailOf(q)
      /\ pc \in [Ops -> Progress] /\ result \in [Ops -> Results]
      /\ rev \in [Ops -> Nat] /\ rev[q] \in Nat
      /\ audit \in [Requests -> Seq(Event)] /\ audit[q] \in Seq(Event)
      /\ reads \in [Requests -> Seq({"ok", "error"})]
      /\ resource \in [Requests -> Resources]
  BY DEF IInv, Trails, TypeOK, CallType, ReadType, StoreType, Ops
<1>1. CASE SameRequest(q)
  BY <1>0, <1>1 DEF SameRequest, TrailOf, AllowTrail, DenyTrail, Decision
<1>2. CASE \E t \in 0 .. Len(passports), x \in Resources :
             ReceiveUnauthenticated(q, t, x) \/ Receive(q, t, x)
  <2>1. /\ pc[q] = "idle" /\ pc'[q] \in {"rejecting", "verifying"}
        /\ audit'[q] = audit[q] /\ reads'[q] = reads[q]
    BY <1>0, <1>2 DEF ReceiveUnauthenticated, Receive, durableVars
  <2> QED BY <1>0, <2>1 DEF TrailOf
<1>3. CASE VerifyRejects(q)
  <2>1. /\ pc[q] = "verifying" /\ pc'[q] = "rejecting"
        /\ audit'[q] = audit[q] /\ reads'[q] = reads[q]
    BY <1>0, <1>3 DEF VerifyRejects, durableVars
  <2> QED BY <1>0, <2>1 DEF TrailOf
<1>4. CASE VerifyAccepts(q)
  <2>1. /\ pc[q] = "verifying" /\ pc'[q] = IF resource[q] = "own" THEN "allowing" ELSE "denying"
        /\ audit'[q] = audit[q] /\ reads'[q] = reads[q] /\ resource'[q] = resource[q]
    BY <1>0, <1>4 DEF VerifyAccepts, durableVars
  <2> QED BY <1>0, <2>1 DEF TrailOf
<1>5. CASE RecordRejection(q)
  <2>1. /\ pc[q] = "rejecting" /\ pc'[q] = "done" /\ result'[q] = "403"
        /\ audit'[q] = audit[q] \o RejectionTrail /\ reads'[q] = reads[q] /\ rev'[q] = rev[q]
    BY <1>0, <1>5 DEF RecordRejection, AppendEvents
  <2>2. audit[q] = <<>> => audit'[q] = RejectionTrail
    BY <1>0, <2>1, EventTypes
  <2> QED BY <1>0, <2>1, <2>2 DEF TrailOf, AllowTrail, Decision
<1>6. CASE RecordDenial(q)
  <2>1. /\ pc[q] = "denying" /\ pc'[q] = "done" /\ result'[q] = "403"
        /\ audit'[q] = audit[q] \o DenyTrail(rev[q]) /\ reads'[q] = reads[q] /\ rev'[q] = rev[q]
    BY <1>0, <1>6 DEF RecordDenial, AppendEvents
  <2>2. audit[q] = <<>> /\ reads[q] = <<>>
    BY <1>0, <2>1 DEF TrailOf
  <2>3. audit'[q] = DenyTrail(rev[q])
    BY <1>0, <2>1, <2>2, EventTypes
  <2> QED BY <1>0, <2>1, <2>2, <2>3 DEF TrailOf, DenyTrail, Decision
<1>7. CASE RecordAttempt(q)
  <2>1. /\ pc[q] = "allowing" /\ pc'[q] = "waiting"
        /\ audit'[q] = audit[q] \o AllowTrail(rev[q]) /\ reads'[q] = reads[q]
        /\ rev'[q] = rev[q] /\ resource'[q] = resource[q]
    BY <1>0, <1>7 DEF RecordAttempt, AppendEvents
  <2>2. audit[q] = <<>> /\ reads[q] = <<>> /\ resource[q] = "own"
    BY <1>0, <2>1 DEF TrailOf
  <2>3. audit'[q] = AllowTrail(rev[q])
    BY <1>0, <2>1, <2>2, EventTypes
  <2> QED BY <1>0, <2>1, <2>2, <2>3 DEF TrailOf, AllowTrail, Decision
<1>8. CASE EvidenceLost(q)
  <2>1. /\ pc[q] \in {"rejecting", "denying", "allowing"}
        /\ pc'[q] = "done" /\ result'[q] = "503 before"
        /\ audit'[q] = audit[q] /\ reads'[q] = reads[q] /\ rev'[q] = rev[q]
    BY <1>0, <1>8 DEF EvidenceLost, durableVars
  <2> QED BY <1>0, <2>1 DEF TrailOf, AllowTrail, Decision
<1>9. CASE EnterLease(q)
  <2>1. /\ pc[q] = "waiting" /\ pc'[q] = "leased" /\ resource'[q] = resource[q]
        /\ audit'[q] = audit[q] /\ reads'[q] = reads[q] /\ rev'[q] = rev[q]
    BY <1>0, <1>9 DEF EnterLease, durableVars
  <2> QED BY <1>0, <2>1 DEF TrailOf, AllowTrail, Decision
<1>10. CASE ReadContent(q)
  <2>1. PICK outcome \in {"ok", "error"} :
          /\ pc[q] = "leased" /\ pc'[q] = "settling"
          /\ audit'[q] = audit[q] /\ reads'[q] = Append(reads[q], outcome) /\ rev'[q] = rev[q]
    BY <1>0, <1>10 DEF ReadContent, durableVars
  <2>2. reads[q] = <<>> /\ audit[q] = AllowTrail(rev[q])
    BY <1>0, <2>1 DEF TrailOf
  <2>3. reads'[q] = <<outcome>>
    BY <2>1, <2>2
  <2> QED BY <1>0, <2>1, <2>2, <2>3 DEF TrailOf, AllowTrail, Decision
<1>11. CASE RefuseUnderLease(q)
  <2>1. /\ pc[q] = "leased" /\ pc'[q] = "rejecting"
        /\ audit'[q] = audit[q] /\ reads'[q] = reads[q] /\ rev'[q] = rev[q]
    BY <1>0, <1>11 DEF RefuseUnderLease, durableVars
  <2> QED BY <1>0, <2>1 DEF TrailOf, AllowTrail, Decision
<1>12. CASE SettleRead(q)
  <2>1. /\ pc[q] = "settling" /\ pc'[q] = "recording"
        /\ audit'[q] = audit[q] /\ reads'[q] = reads[q] /\ rev'[q] = rev[q]
    BY <1>0, <1>12 DEF SettleRead, durableVars
  <2> QED BY <1>0, <2>1 DEF TrailOf, AllowTrail, Decision
<1>13. CASE RecordOutcome(q)
  <2>1. /\ pc[q] = "recording" /\ pc'[q] = "done" /\ reads'[q] = reads[q] /\ rev'[q] = rev[q]
        /\ result'[q] = IF ReadOutcome(q) = "ok" THEN "200" ELSE "502"
        /\ audit'[q] = audit[q] \o <<Ev(IF ReadOutcome(q) = "ok" THEN "succeeded" ELSE "failed")>>
    BY <1>0, <1>13 DEF RecordOutcome, AppendEvents
  <2>2. audit[q] = AllowTrail(rev[q]) /\ reads[q] \in {<<"ok">>, <<"error">>}
    BY <1>0, <2>1 DEF TrailOf
  <2>3. CASE reads[q] = <<"ok">>
    <3>1. ReadOutcome(q) = "ok"
      BY <2>3 DEF ReadOutcome
    <3>2. result'[q] = "200" /\ audit'[q] = AllowTrail(rev[q]) \o <<Ev("succeeded")>>
      BY <2>1, <2>2, <3>1
    <3> QED BY <2>1, <2>3, <3>2 DEF TrailOf, AllowTrail, Decision, Ev
  <2>4. CASE reads[q] = <<"error">>
    <3>1. ReadOutcome(q) = "error"
      BY <2>4 DEF ReadOutcome
    <3>2. result'[q] = "502" /\ audit'[q] = AllowTrail(rev[q]) \o <<Ev("failed")>>
      BY <2>1, <2>2, <3>1
    <3> QED BY <2>1, <2>4, <3>2 DEF TrailOf, AllowTrail, Decision, Ev
  <2> QED BY <2>2, <2>3, <2>4
<1>14. CASE OutcomeLost(q)
  <2>1. /\ pc[q] = "recording" /\ pc'[q] = "done" /\ result'[q] = "503 after"
        /\ audit'[q] = audit[q] /\ reads'[q] = reads[q] /\ rev'[q] = rev[q]
    BY <1>0, <1>14 DEF OutcomeLost, durableVars
  <2> QED BY <1>0, <2>1 DEF TrailOf, AllowTrail, Decision
<1>15. CASE Restart
  <2>1. /\ audit'[q] = audit[q] /\ reads'[q] = reads[q] /\ rev'[q] = rev[q]
        /\ IF pc[q] \in {"idle", "done"}
             THEN pc'[q] = pc[q] /\ result'[q] = result[q]
             ELSE pc'[q] = "done" /\ result'[q] = "lost"
    BY <1>0, <1>15 DEF Restart, Running, durableVars
  <2>2. pc[q] \in Before \cup Under \cup After \cup {"rejecting", "done"}
    BY <1>0 DEF IInv, Wiring, RequestWiring, Progress
  <2>3. CASE pc[q] \in {"idle", "done"}
    BY <1>0, <2>1, <2>3 DEF TrailOf, AllowTrail, DenyTrail, Decision
  <2>4. CASE pc[q] \notin {"idle", "done"}
    <3>1. \/ reads[q] = <<>> /\ audit[q] \in {<<>>, AllowTrail(rev[q])}
          \/ audit[q] = AllowTrail(rev[q]) /\ reads[q] \in {<<"ok">>, <<"error">>}
      BY <1>0, <2>2, <2>4 DEF TrailOf
    <3> QED BY <2>1, <2>4, <3>1 DEF TrailOf, AllowTrail, Decision
  <2> QED BY <2>3, <2>4
<1> QED BY <1>1, <1>2, <1>3, <1>4, <1>5, <1>6, <1>7, <1>8, <1>9, <1>10, <1>11, <1>12,
           <1>13, <1>14, <1>15, RequestFrameHolds DEF RequestFrame, RequestStep

-----------------------------------------------------------------------------
(* The administrative calls. *)

\* Each administrative call keeps to its progress; one that returned as committed has
\* revoked its Mandate for good.
LEMMA AdminWiringStep ==
  ASSUME IInv, [Next]_vars, NEW b \in Admins
  PROVE  AdminWiring(b)'
<1> USE DEF Go, Finish, Capture, nameVars, callVars
<1>0. /\ b \in Ops /\ AdminWiring(b)
      /\ pc \in [Ops -> Progress] /\ target \in [Ops -> Mandates \cup {None}]
      /\ kind \in [Ops -> {"read", "revoke", "rehearse"}]
      /\ result \in [Ops -> Results] /\ seen \in [Ops -> Record \cup {None}]
      /\ agentMandate \in Installed /\ Installed \subseteq Installed'
      /\ \A m \in Installed : records[m].status = "revoked" => records'[m].status = "revoked"
  BY RecordsStep DEF Advanced, IInv, Wiring, TypeOK, CallType, SeenType, Ops
<1>1. CASE SameAdmin(b)
  <2>1. result[b] = "committed" => records'[target[b]].status = "revoked"
    BY <1>0 DEF AdminWiring
  <2> QED BY <1>0, <1>1, <2>1 DEF SameAdmin, AdminWiring
<1>2. CASE StartRevoke(b) \/ StartRetire(b) \/ StartRehearsal(b)
  <2>1. /\ pc'[b] \in {"waiting", "done"} /\ kind'[b] # "read" /\ target'[b] = agentMandate
        /\ result'[b] # "committed"
    <3>1. pc[b] = "idle" /\ result[b] # "committed"
      BY <1>0, <1>2 DEF StartRevoke, StartRetire, StartRehearsal, AdminWiring
    <3>2. CASE StartRevoke(b)
      BY <1>0, <3>1, <3>2 DEF StartRevoke
    <3>3. CASE StartRetire(b)
      BY <1>0, <3>1, <3>3 DEF StartRetire
    <3>4. CASE StartRehearsal(b)
      BY <1>0, <3>1, <3>4 DEF StartRehearsal
    <3> QED BY <1>2, <3>2, <3>3, <3>4
  <2> QED BY <1>0, <2>1 DEF AdminWiring
<1>3. CASE AdminStep(b)
  <2>1. /\ pc[b] \in {"waiting", "verifying", "committing"}
        /\ pc'[b] \in {"verifying", "committing", "done"}
        /\ kind'[b] = kind[b] /\ target'[b] = target[b]
    BY <1>0, <1>3 DEF AdminStep, EnterAdmin, RefuseAdmin, SignRecords, CommitRevoke,
                      CommitSuccessor, CommitFails
  <2>2. kind'[b] # "read" /\ target'[b] \in Installed'
    BY <1>0, <2>1 DEF AdminWiring
  <2>3. result'[b] = "committed" => records'[target[b]].status = "revoked"
    <3>1. CASE CommitRevoke(b)
      <4>1. records' = [records EXCEPT ![agentMandate] = Revoked(records[agentMandate], None)]
            /\ agentMandate \in Mandates /\ target[b] = agentMandate
        BY <3>1, CommitRevokeEffect
      <4>2. records'[target[b]] = Revoked(records[agentMandate], None)
        BY <4>1 DEF IInv, TypeOK, StoreType
      <4> QED BY <4>2 DEF Revoked
    <3>2. CASE CommitSuccessor(b)
      <4>1. PICK s \in Mandates \ Installed :
              records' = [records EXCEPT ![agentMandate] = Revoked(records[agentMandate], s),
                                         ![s] = Issued(at[b])]
        BY <3>2, CommitSuccessorEffect
      <4>2. agentMandate \in Mandates /\ target[b] = agentMandate /\ agentMandate # s
        BY <1>0, <3>2, CommitSuccessorEffect
      <4>3. records'[target[b]] = Revoked(records[agentMandate], s)
        BY <4>1, <4>2 DEF IInv, TypeOK, StoreType
      <4> QED BY <4>3 DEF Revoked
    <3>3. CASE EnterAdmin(b) \/ RefuseAdmin(b) \/ SignRecords(b) \/ CommitFails(b)
      <4>1. result'[b] = "committed" => result[b] = "committed"
        BY <1>0, <3>3 DEF EnterAdmin, RefuseAdmin, SignRecords, CommitFails
      <4> QED BY <1>0, <2>1, <4>1 DEF AdminWiring
    <3> QED BY <1>3, <3>1, <3>2, <3>3 DEF AdminStep
  <2>4. pc'[b] = "committing" /\ kind'[b] = "revoke" =>
          seen'[b].status = "active" /\ seen'[b].replacedBy = None
    <3>1. CASE SignRecords(b)
      BY <1>0, <2>1, <3>1 DEF SignRecords, Eligible, Active
    <3>2. CASE ~SignRecords(b)
      BY <1>0, <1>3, <3>2 DEF AdminStep, EnterAdmin, RefuseAdmin, CommitRevoke,
                              CommitSuccessor, CommitFails
    <3> QED BY <3>1, <3>2
  <2> QED BY <2>1, <2>2, <2>3, <2>4 DEF AdminWiring
<1>4. CASE Restart
  <2>1. /\ kind'[b] = kind[b] /\ target'[b] = target[b] /\ records' = records
        /\ \/ pc'[b] = pc[b] /\ pc[b] \in {"idle", "done"} /\ result'[b] = result[b]
           \/ pc[b] # "idle" /\ pc'[b] = "done" /\ result'[b] = "lost"
    BY <1>0, <1>4 DEF Restart, Running, durableVars
  <2> QED BY <1>0, <2>1 DEF AdminWiring
<1> QED BY <1>1, <1>2, <1>3, <1>4, AdminFrameHolds DEF AdminFrame

-----------------------------------------------------------------------------
(* The lease. *)

\* What an operation that works under a lease relies on.
Guarded(p) == Critical(p) => Holds(p) /\ seen[p] = records[target[p]]

\* A step that leaves the owner, its record and the head of its queue alone keeps
\* what the owner relies on.
LEMMA Kept ==
  ASSUME IInv, NEW p \in Ops, Critical(p),
         target'[p] = target[p], seen'[p] = seen[p],
         records'[target[p]] = records[target[p]],
         \/ leases'[target[p]] = leases[target[p]]
         \/ \E o \in Ops : leases'[target[p]] = Append(leases[target[p]], o)
  PROVE  Guarded(p)'
<1>1. /\ leases[target[p]] \in Seq(Ops) /\ leases[target[p]] # <<>>
      /\ Head(leases[target[p]]) = p /\ seen[p] = records[target[p]]
  BY CriticalFacts
<1>2. leases'[target[p]] # <<>> /\ Head(leases'[target[p]]) = p
  BY <1>1
<1> QED BY <1>1, <1>2 DEF Guarded, Holds

\* The owner of a lease gives it back: no other operation works under that lease.
LEMMA Released ==
  ASSUME IInv, NEW p \in Ops, Critical(p), NEW q \in Ops, Critical(q), p # q, ReleaseLease(q)
  PROVE  target[p] # target[q] /\ leases'[target[p]] = leases[target[p]]
BY CriticalFacts DEF ReleaseLease, IInv, TypeOK, LeaseType

\* An operation that joins a queue leaves the head of every other, and of a queue
\* that is not empty, as it was.
LEMMA Joined ==
  ASSUME IInv, NEW p \in Ops, Critical(p), NEW q \in Ops, NEW m \in Mandates, JoinLease(q, m)
  PROVE  \/ leases'[target[p]] = leases[target[p]]
         \/ \E o \in Ops : leases'[target[p]] = Append(leases[target[p]], o)
BY CriticalFacts DEF JoinLease, IInv, TypeOK, LeaseType

\* Every step keeps what the owners of leases rely on.
LEMMA LeaseStep ==
  ASSUME IInv, [Next]_vars, NEW p \in Ops
  PROVE  Guarded(p)'
<1> USE DEF contextVars, passportVars, durableVars, requestVars, callVars, nameVars, Go, Finish, Capture
<1>0. /\ Requests \subseteq Ops /\ Admins \subseteq Ops /\ Requests \cap Admins = {}
      /\ pc \in [Ops -> Progress] /\ target \in [Ops -> Mandates \cup {None}]
      /\ seen \in [Ops -> Record \cup {None}] /\ agentMandate \in Mandates
  BY GatewayAssumption DEF IInv, TypeOK, CallType, SeenType, StoreType, Ops
<1>1. ASSUME NEW r \in Requests, NEW t \in 0 .. Len(passports), NEW x \in Resources,
             ReceiveUnauthenticated(r, t, x)
      PROVE Guarded(p)'
  <2> SUFFICES ASSUME Critical(p)' PROVE Guarded(p)'
    BY DEF Guarded
  <2>1. Critical(p) /\ target'[p] = target[p] /\ seen'[p] = seen[p] /\ records' = records /\ leases' = leases
    BY <1>1, <1>0 DEF ReceiveUnauthenticated, Critical
  <2> QED BY <2>1, Kept
<1>2. ASSUME NEW r \in Requests, NEW t \in 0 .. Len(passports), NEW x \in Resources,
             Receive(r, t, x)
      PROVE Guarded(p)'
  <2> SUFFICES ASSUME Critical(p)' PROVE Guarded(p)'
    BY DEF Guarded
  <2>1. Critical(p) /\ target'[p] = target[p] /\ seen'[p] = seen[p] /\ records' = records /\ leases' = leases
    BY <1>2, <1>0 DEF Receive, Critical
  <2> QED BY <2>1, Kept
<1>3. ASSUME NEW r \in Requests, VerifyRejects(r) PROVE Guarded(p)'
  <2> SUFFICES ASSUME Critical(p)' PROVE Guarded(p)'
    BY DEF Guarded
  <2>1. Critical(p) /\ target'[p] = target[p] /\ seen'[p] = seen[p] /\ records' = records /\ leases' = leases
    BY <1>3, <1>0 DEF VerifyRejects, Critical
  <2> QED BY <2>1, Kept
<1>4. ASSUME NEW r \in Requests, VerifyAccepts(r) PROVE Guarded(p)'
  <2> SUFFICES ASSUME Critical(p)' PROVE Guarded(p)'
    BY DEF Guarded
  <2>1. Critical(p) /\ target'[p] = target[p] /\ seen'[p] = seen[p] /\ records' = records /\ leases' = leases
    BY <1>4, <1>0 DEF VerifyAccepts, Critical
  <2> QED BY <2>1, Kept
<1>5. ASSUME NEW r \in Requests, RecordRejection(r) PROVE Guarded(p)'
  <2> SUFFICES ASSUME Critical(p)' PROVE Guarded(p)'
    BY DEF Guarded
  <2>1. Critical(p) /\ target'[p] = target[p] /\ seen'[p] = seen[p] /\ records' = records /\ leases' = leases
    BY <1>5, <1>0 DEF RecordRejection, Critical
  <2> QED BY <2>1, Kept
<1>6. ASSUME NEW r \in Requests, RecordDenial(r) PROVE Guarded(p)'
  <2> SUFFICES ASSUME Critical(p)' PROVE Guarded(p)'
    BY DEF Guarded
  <2>1. Critical(p) /\ target'[p] = target[p] /\ seen'[p] = seen[p] /\ records' = records /\ leases' = leases
    BY <1>6, <1>0 DEF RecordDenial, Critical
  <2> QED BY <2>1, Kept
<1>7. ASSUME NEW r \in Requests, RecordAttempt(r) PROVE Guarded(p)'
  <2> SUFFICES ASSUME Critical(p)' PROVE Guarded(p)'
    BY DEF Guarded
  <2>1. Critical(p) /\ target'[p] = target[p] /\ seen'[p] = seen[p] /\ records' = records
    BY <1>7, <1>0 DEF RecordAttempt, Critical
  <2>2. JoinLease(r, target[r])
    BY <1>7 DEF RecordAttempt
  <2>3. target[r] \in Mandates
    BY <1>7, <1>0 DEF RecordAttempt, IInv, Wiring, RequestWiring, Authenticated
  <2> QED BY <2>3, <1>0, <2>1, <2>2, Joined, Kept
<1>8. ASSUME NEW r \in Requests, EvidenceLost(r) PROVE Guarded(p)'
  <2> SUFFICES ASSUME Critical(p)' PROVE Guarded(p)'
    BY DEF Guarded
  <2>1. Critical(p) /\ target'[p] = target[p] /\ seen'[p] = seen[p] /\ records' = records /\ leases' = leases
    BY <1>8, <1>0 DEF EvidenceLost, Critical
  <2> QED BY <2>1, Kept
<1>9. ASSUME NEW r \in Requests, EnterLease(r) PROVE Guarded(p)'
  <2>1. CASE p = r
    <3>1. seen'[p] = records'[target'[p]]
      BY <1>9, <1>0, <2>1 DEF EnterLease
    <3> QED BY <1>9, <1>0, <2>1, <3>1 DEF EnterLease, Guarded, Holds
  <2>2. CASE p # r
    <3> SUFFICES ASSUME Critical(p)' PROVE Guarded(p)'
      BY DEF Guarded
    <3>1. Critical(p) /\ target'[p] = target[p] /\ seen'[p] = seen[p] /\ records' = records /\ leases' = leases
      BY <1>9, <1>0, <2>2 DEF EnterLease, Critical
    <3> QED BY <3>1, Kept
  <2> QED BY <2>1, <2>2
<1>10. ASSUME NEW r \in Requests, ReadContent(r) PROVE Guarded(p)'
  <2> SUFFICES ASSUME Critical(p)' PROVE Guarded(p)'
    BY DEF Guarded
  <2>1. Critical(p) /\ target'[p] = target[p] /\ seen'[p] = seen[p] /\ records' = records /\ leases' = leases
    BY <1>10, <1>0 DEF ReadContent, Critical
  <2> QED BY <2>1, Kept
<1>11. ASSUME NEW r \in Requests, RefuseUnderLease(r) PROVE Guarded(p)'
  <2> SUFFICES ASSUME Critical(p)' PROVE Guarded(p)'
    BY DEF Guarded
  <2>1. p # r /\ Critical(r) /\ ReleaseLease(r)
    BY <1>11, <1>0 DEF RefuseUnderLease, Critical
  <2>2. Critical(p) /\ target'[p] = target[p] /\ seen'[p] = seen[p] /\ records' = records
    BY <1>11, <1>0, <2>1 DEF RefuseUnderLease, Critical
  <2> QED BY <1>0, <2>1, <2>2, Released, Kept
<1>12. ASSUME NEW r \in Requests, SettleRead(r) PROVE Guarded(p)'
  <2> SUFFICES ASSUME Critical(p)' PROVE Guarded(p)'
    BY DEF Guarded
  <2>1. p # r /\ Critical(r) /\ ReleaseLease(r)
    BY <1>12, <1>0 DEF SettleRead, Critical
  <2>2. Critical(p) /\ target'[p] = target[p] /\ seen'[p] = seen[p] /\ records' = records
    BY <1>12, <1>0, <2>1 DEF SettleRead, Critical
  <2> QED BY <1>0, <2>1, <2>2, Released, Kept
<1>13. ASSUME NEW r \in Requests, RecordOutcome(r) PROVE Guarded(p)'
  <2> SUFFICES ASSUME Critical(p)' PROVE Guarded(p)'
    BY DEF Guarded
  <2>1. Critical(p) /\ target'[p] = target[p] /\ seen'[p] = seen[p] /\ records' = records /\ leases' = leases
    BY <1>13, <1>0 DEF RecordOutcome, Critical
  <2> QED BY <2>1, Kept
<1>14. ASSUME NEW r \in Requests, OutcomeLost(r) PROVE Guarded(p)'
  <2> SUFFICES ASSUME Critical(p)' PROVE Guarded(p)'
    BY DEF Guarded
  <2>1. Critical(p) /\ target'[p] = target[p] /\ seen'[p] = seen[p] /\ records' = records /\ leases' = leases
    BY <1>14, <1>0 DEF OutcomeLost, Critical
  <2> QED BY <2>1, Kept
<1>15. ASSUME NEW a \in Admins, StartRevoke(a) PROVE Guarded(p)'
  <2> SUFFICES ASSUME Critical(p)' PROVE Guarded(p)'
    BY DEF Guarded
  <2>1. Critical(p) /\ target'[p] = target[p] /\ seen'[p] = seen[p] /\ records' = records
    BY <1>15, <1>0 DEF StartRevoke, Critical
  <2>2. JoinLease(a, agentMandate)
    BY <1>15 DEF StartRevoke
  <2> QED BY <1>0, <2>1, <2>2, Joined, Kept
<1>16. ASSUME NEW a \in Admins, StartRetire(a) PROVE Guarded(p)'
  <2> SUFFICES ASSUME Critical(p)' PROVE Guarded(p)'
    BY DEF Guarded
  <2>1. Critical(p) /\ target'[p] = target[p] /\ seen'[p] = seen[p] /\ records' = records
    BY <1>16, <1>0 DEF StartRetire, Critical
  <2>2. JoinLease(a, agentMandate) \/ leases' = leases
    BY <1>16 DEF StartRetire
  <2> QED BY <1>0, <2>1, <2>2, Joined, Kept
<1>17. ASSUME NEW a \in Admins, StartRehearsal(a) PROVE Guarded(p)'
  <2> SUFFICES ASSUME Critical(p)' PROVE Guarded(p)'
    BY DEF Guarded
  <2>1. Critical(p) /\ target'[p] = target[p] /\ seen'[p] = seen[p] /\ records' = records
    BY <1>17, <1>0 DEF StartRehearsal, Critical
  <2>2. JoinLease(a, agentMandate)
    BY <1>17 DEF StartRehearsal
  <2> QED BY <1>0, <2>1, <2>2, Joined, Kept
<1>18. ASSUME NEW a \in Admins, EnterAdmin(a) PROVE Guarded(p)'
  <2>1. CASE p = a
    <3>1. seen'[p] = records'[target'[p]]
      BY <1>18, <1>0, <2>1 DEF EnterAdmin
    <3> QED BY <1>18, <1>0, <2>1, <3>1 DEF EnterAdmin, Guarded, Holds
  <2>2. CASE p # a
    <3> SUFFICES ASSUME Critical(p)' PROVE Guarded(p)'
      BY DEF Guarded
    <3>1. Critical(p) /\ target'[p] = target[p] /\ seen'[p] = seen[p] /\ records' = records /\ leases' = leases
      BY <1>18, <1>0, <2>2 DEF EnterAdmin, Critical
    <3> QED BY <3>1, Kept
  <2> QED BY <2>1, <2>2
<1>19. ASSUME NEW a \in Admins, RefuseAdmin(a) PROVE Guarded(p)'
  <2> SUFFICES ASSUME Critical(p)' PROVE Guarded(p)'
    BY DEF Guarded
  <2>1. p # a /\ Critical(a) /\ ReleaseLease(a)
    BY <1>19, <1>0 DEF RefuseAdmin, Critical
  <2>2. Critical(p) /\ target'[p] = target[p] /\ seen'[p] = seen[p] /\ records' = records
    BY <1>19, <1>0, <2>1 DEF RefuseAdmin, Critical
  <2> QED BY <1>0, <2>1, <2>2, Released, Kept
<1>20. ASSUME NEW a \in Admins, SignRecords(a) PROVE Guarded(p)'
  <2> SUFFICES ASSUME Critical(p)' PROVE Guarded(p)'
    BY DEF Guarded
  <2>1. Critical(p) /\ target'[p] = target[p] /\ seen'[p] = seen[p] /\ records' = records /\ leases' = leases
    BY <1>20, <1>0 DEF SignRecords, Critical
  <2> QED BY <2>1, Kept
<1>21. ASSUME NEW a \in Admins, CommitRevoke(a) PROVE Guarded(p)'
  <2> SUFFICES ASSUME Critical(p)' PROVE Guarded(p)'
    BY DEF Guarded
  <2>1. p # a /\ Critical(a) /\ ReleaseLease(a)
    BY <1>21, <1>0 DEF CommitRevoke, Critical
  <2>2. Critical(p) /\ target'[p] = target[p] /\ seen'[p] = seen[p]
    BY <1>21, <1>0, <2>1 DEF CommitRevoke, Critical
  <2>3. target[p] # target[a] /\ leases'[target[p]] = leases[target[p]]
    BY <1>0, <2>1, <2>2, Released
  <2>4. target[p] \in Installed /\ target[p] \in Mandates
    BY <2>2, CriticalFacts
  <2>5. records'[target[p]] = records[target[p]]
    BY <1>21, <2>3, <2>4 DEF CommitRevoke, IInv, TypeOK, StoreType
  <2> QED BY <2>2, <2>3, <2>5, Kept
<1>22. ASSUME NEW a \in Admins, CommitSuccessor(a) PROVE Guarded(p)'
  <2> SUFFICES ASSUME Critical(p)' PROVE Guarded(p)'
    BY DEF Guarded
  <2>1. p # a /\ Critical(a) /\ ReleaseLease(a)
    BY <1>22, <1>0 DEF CommitSuccessor, Critical
  <2>2. Critical(p) /\ target'[p] = target[p] /\ seen'[p] = seen[p]
    BY <1>22, <1>0, <2>1 DEF CommitSuccessor, Critical
  <2>3. target[p] # target[a] /\ leases'[target[p]] = leases[target[p]]
    BY <1>0, <2>1, <2>2, Released
  <2>4. target[p] \in Installed /\ target[p] \in Mandates
    BY <2>2, CriticalFacts
  <2>5. records'[target[p]] = records[target[p]]
    BY <1>22, <2>3, <2>4 DEF CommitSuccessor, IInv, TypeOK, StoreType
  <2> QED BY <2>2, <2>3, <2>5, Kept
<1>23. ASSUME NEW a \in Admins, CommitFails(a) PROVE Guarded(p)'
  <2> SUFFICES ASSUME Critical(p)' PROVE Guarded(p)'
    BY DEF Guarded
  <2>1. p # a /\ Critical(a) /\ ReleaseLease(a)
    BY <1>23, <1>0 DEF CommitFails, Critical
  <2>2. Critical(p) /\ target'[p] = target[p] /\ seen'[p] = seen[p] /\ records' = records
    BY <1>23, <1>0, <2>1 DEF CommitFails, Critical
  <2> QED BY <1>0, <2>1, <2>2, Released, Kept
<1>24. CASE IssuePassport
  <2> SUFFICES ASSUME Critical(p)' PROVE Guarded(p)'
    BY DEF Guarded
  <2>1. Critical(p) /\ target'[p] = target[p] /\ seen'[p] = seen[p] /\ records' = records /\ leases' = leases
    BY <1>24, <1>0 DEF IssuePassport, Critical
  <2> QED BY <2>1, Kept
<1>25. CASE EndSession
  <2> SUFFICES ASSUME Critical(p)' PROVE Guarded(p)'
    BY DEF Guarded
  <2>1. Critical(p) /\ target'[p] = target[p] /\ seen'[p] = seen[p] /\ records' = records /\ leases' = leases
    BY <1>25, <1>0 DEF EndSession, Critical
  <2> QED BY <2>1, Kept
<1>26. CASE Tick
  <2> SUFFICES ASSUME Critical(p)' PROVE Guarded(p)'
    BY DEF Guarded
  <2>1. Critical(p) /\ target'[p] = target[p] /\ seen'[p] = seen[p] /\ records' = records /\ leases' = leases
    BY <1>26, <1>0 DEF Tick, Critical
  <2> QED BY <2>1, Kept
<1>27. CASE Restart
  BY <1>27, <1>0 DEF Restart, Running, Guarded, Critical
<1>28. CASE UNCHANGED vars
  <2> SUFFICES ASSUME Critical(p)' PROVE Guarded(p)'
    BY DEF Guarded
  <2>1. Critical(p) /\ target'[p] = target[p] /\ seen'[p] = seen[p] /\ records' = records /\ leases' = leases
    BY <1>28, <1>0 DEF vars, Critical
  <2> QED BY <2>1, Kept
<1> QED BY <1>1, <1>2, <1>3, <1>4, <1>5, <1>6, <1>7, <1>8, <1>9, <1>10, <1>11, <1>12, <1>13, <1>14, <1>15, <1>16, <1>17, <1>18, <1>19, <1>20, <1>21, <1>22, <1>23, <1>24, <1>25, <1>26, <1>27, <1>28 DEF Next, RequestStep, AdminStep

-----------------------------------------------------------------------------
(* The promises. *)

\* The inductive step.
LEMMA InvariantStep == IInv /\ [Next]_vars => IInv'
<1> SUFFICES ASSUME IInv, [Next]_vars PROVE IInv'
  OBVIOUS
<1>1. TypeOK'
  BY TypeStep
<1>2. Wiring'
  <2>1. session' \in 0 .. Len(passports') /\ agentMandate' \in Installed'
        /\ \A i \in 1 .. Len(passports') : passports'[i].mandate \in Installed'
    BY PassportsStep, RecordsStep
  <2>2. \A r \in Requests : RequestWiring(r)'
    BY RequestWiringStep
  <2>3. \A a \in Admins : AdminWiring(a)'
    BY AdminWiringStep
  <2> QED BY <2>1, <2>2, <2>3 DEF Wiring
<1>3. LeaseOwned' /\ LeaseProtectsRecord'
  <2>1. \A o \in Ops : Guarded(o)'
    BY LeaseStep
  <2> QED BY <2>1 DEF Guarded, LeaseOwned, LeaseProtectsRecord
<1>4. OneActiveMandate'
  BY RecordsStep
<1>5. Trails'
  BY TrailStep DEF Trails
<1> QED BY <1>1, <1>2, <1>3, <1>4, <1>5 DEF IInv

\* The inductive invariant of the enforcement path, whatever the number of calls.
THEOREM Invariant == Spec => []IInv
BY InitInvariant, InvariantStep, PTL DEF Spec

\* Every variable keeps its type.
THEOREM TypeCorrect == Spec => []TypeOK
<1>1. IInv => TypeOK
  BY DEF IInv
<1> QED BY <1>1, Invariant, PTL

\* The operation that owns a Mandate's lease works on the record that is in the store
\* (withMandateOperation around revoke, issueSuccessor and withVerifiedCurrentLease).
THEOREM LeaseProtectsRecordHolds == Spec => []LeaseProtectsRecord
<1>1. IInv => LeaseProtectsRecord
  BY DEF IInv
<1> QED BY <1>1, Invariant, PTL

\* Only the Mandate that the Agent's record names can be active, and every other leads
\* to an installed successor (issueSuccessor installs both records and the Agent's
\* field in one mutation).
THEOREM OneActiveMandateHolds == Spec => []OneActiveMandate
<1>1. IInv => OneActiveMandate
  BY DEF IInv
<1> QED BY <1>1, Invariant, PTL

\* A committed record changes once, to the next revision, and is then revoked for good
\* (the compare-and-set of revoke and issueSuccessor under the lease).
THEOREM RecordsMoveForwardHolds == Spec => RecordsMoveForward
<1> DEFINE Forward == \A m \in Mandates : records[m] # None /\ records'[m] # records[m] =>
       /\ records'[m] # None
       /\ records'[m].rev = records[m].rev + 1
       /\ records'[m].status = "revoked"
       /\ records[m].replacedBy # None => records'[m].replacedBy = records[m].replacedBy
<1>1. IInv /\ [Next]_vars => [Forward]_vars
  <2> SUFFICES ASSUME IInv, [Next]_vars, NEW m \in Mandates, records[m] # None,
                      records'[m] # records[m]
               PROVE  records'[m] # None /\ Advanced(m)
    BY DEF Advanced
  <2>1. m \in Installed /\ m \in Installed'
    BY RecordsStep DEF Installed
  <2> QED BY <2>1, RecordsStep DEF Installed
<1> QED BY <1>1, Invariant, PTL DEF Spec, RecordsMoveForward

\* Only ReadContent calls the provider, for a request that holds the lease.
LEMMA ReadIsReadContent ==
  ASSUME IInv, [Next]_vars, NEW r \in Requests, reads'[r] # reads[r]
  PROVE  ReadContent(r)
<1> USE DEF callVars, nameVars, requestVars, Finish
<1>1. ~SameRequest(r) /\ ~Restart
  BY DEF SameRequest, Restart
<1>2. ~ \E t \in 0 .. Len(passports), x \in Resources :
          ReceiveUnauthenticated(r, t, x) \/ Receive(r, t, x)
  BY DEF ReceiveUnauthenticated, Receive
<1>3. RequestStep(r)
  BY <1>1, <1>2, RequestFrameHolds DEF RequestFrame
<1> QED BY <1>3 DEF RequestStep, VerifyRejects, VerifyAccepts, RecordRejection,
         RecordDenial, RecordAttempt, EvidenceLost, EnterLease,
         RefuseUnderLease, SettleRead, RecordOutcome, OutcomeLost

\* What is true when the provider is called.
LEMMA ReadFacts ==
  ASSUME IInv, NEW r \in Requests, ReadContent(r)
  PROVE  LiveAuthority(r) /\ target[r] = passports[token[r]].mandate
<1>1. Critical(r) /\ r \in Ops /\ pc[r] = "leased"
  BY DEF ReadContent, Critical, Ops
<1>2. seen[r] = records[target[r]] /\ seen[r] \in Record
  BY <1>1, CriticalFacts
<1>3. target[r] = passports[token[r]].mandate
  BY <1>1 DEF IInv, Wiring, RequestWiring, Authenticated
<1>4. audit[r] = AllowTrail(rev[r]) /\ resource[r] = "own"
  BY <1>1 DEF IInv, Trails, TrailOf, Under
<1> QED BY <1>2, <1>3, <1>4
        DEF ReadContent, StillAuthorized, Active, PassportAccepted, LiveAuthority

\* Protected content is read only under authority that is live at that moment
\* (readDocument repeats the checks under the lease, with no await before the read).
THEOREM ReadsOnlyUnderLiveAuthorityHolds == Spec => ReadsOnlyUnderLiveAuthority
<1>1. IInv /\ [Next]_vars => [\A r \in Requests : reads'[r] # reads[r] => LiveAuthority(r)]_vars
  BY ReadIsReadContent, ReadFacts
<1> QED BY <1>1, Invariant, PTL DEF Spec, ReadsOnlyUnderLiveAuthority

\* Once a revocation or a rehearsal has returned, nothing is read under the Mandate it
\* ended (revoke and issueSuccessor commit under the lease that a read holds).
THEOREM NoReadAfterRevocationHolds == Spec => NoReadAfterRevocation
<1>1. IInv /\ [Next]_vars =>
        [\A a \in Admins, r \in Requests :
           result[a] = "committed" /\ target[a] = target[r] => reads'[r] = reads[r]]_vars
  <2> SUFFICES ASSUME IInv, [Next]_vars, NEW a \in Admins, NEW r \in Requests,
                      result[a] = "committed", target[a] = target[r], reads'[r] # reads[r]
               PROVE  FALSE
    OBVIOUS
  <2>1. records[target[a]].status = "revoked"
    BY DEF IInv, Wiring, AdminWiring
  <2>2. records[target[r]].status = "active"
    BY ReadIsReadContent, ReadFacts DEF LiveAuthority
  <2> QED BY <2>1, <2>2
<1> QED BY <1>1, Invariant, PTL DEF Spec, NoReadAfterRevocation

\* The trails a request can leave, written out.
LEMMA TrailForms ==
  ASSUME NEW n \in Nat
  PROVE  /\ AllowTrail(n) \o <<Ev("succeeded")>>
              = <<Decision("allow", n), Ev("attempting"), Ev("succeeded")>>
         /\ AllowTrail(n) \o <<Ev("failed")>>
              = <<Decision("allow", n), Ev("attempting"), Ev("failed")>>
         /\ AllowTrail(n) \o RejectionTrail
              = <<Decision("allow", n), Ev("attempting"), Ev("rejection"), Ev("not_attempted")>>
<1> DEFINE a == Decision("allow", n)
           b == Ev("attempting")
<1>1. /\ a \in Event /\ b \in Event
      /\ Ev("succeeded") \in Event /\ Ev("failed") \in Event
      /\ Ev("rejection") \in Event /\ Ev("not_attempted") \in Event
  BY DEF Decision, Ev, Event, EventKinds
<1> HIDE DEF a, b
<1>2. \A e \in Event : <<a, b>> \o <<e>> = <<a, b, e>>
  <2> SUFFICES ASSUME NEW e \in Event PROVE <<a, b>> \o <<e>> = <<a, b, e>>
    OBVIOUS
  <2> DEFINE s == <<a, b>> \o <<e>>
             t == <<a, b, e>>
  <2>1. s \in Seq(Event) /\ t \in Seq(Event) /\ Len(s) = 3 /\ Len(t) = 3
    BY <1>1
  <2>2. s[1] = t[1] /\ s[2] = t[2] /\ s[3] = t[3]
    BY <1>1
  <2> HIDE DEF s, t
  <2>3. \A i \in 1 .. Len(s) : s[i] = t[i]
    BY <2>1, <2>2
  <2>4. s = t
    BY <2>1, <2>3, SeqEqual
  <2> QED BY <2>4 DEF s, t
<1>3. \A e, f \in Event : <<a, b>> \o <<e, f>> = <<a, b, e, f>>
  <2> SUFFICES ASSUME NEW e \in Event, NEW f \in Event
               PROVE  <<a, b>> \o <<e, f>> = <<a, b, e, f>>
    OBVIOUS
  <2> DEFINE s == <<a, b>> \o <<e, f>>
             t == <<a, b, e, f>>
  <2>1. s \in Seq(Event) /\ t \in Seq(Event) /\ Len(s) = 4 /\ Len(t) = 4
    BY <1>1
  <2>2. s[1] = t[1] /\ s[2] = t[2] /\ s[3] = t[3] /\ s[4] = t[4]
    BY <1>1
  <2> HIDE DEF s, t
  <2>3. \A i \in 1 .. Len(s) : s[i] = t[i]
    BY <2>1, <2>2
  <2>4. s = t
    BY <2>1, <2>3, SeqEqual
  <2> QED BY <2>4 DEF s, t
<1> QED BY <1>1, <1>2, <1>3 DEF AllowTrail, RejectionTrail, a, b

\* The kinds of events in a trail.
Kinds(s) == {s[i].kind : i \in 1 .. Len(s)}
\* The kinds of the events in each trail a request can leave.
LEMMA TrailKinds ==
  ASSUME NEW n \in Nat
  PROVE  /\ Kinds(<<>>) = {}
         /\ Kinds(AllowTrail(n)) = {"allow", "attempting"}
         /\ Kinds(DenyTrail(n)) = {"deny", "not_attempted"}
         /\ Kinds(RejectionTrail) = {"rejection", "not_attempted"}
         /\ Kinds(AllowTrail(n) \o <<Ev("succeeded")>>) = {"allow", "attempting", "succeeded"}
         /\ Kinds(AllowTrail(n) \o <<Ev("failed")>>) = {"allow", "attempting", "failed"}
         /\ Kinds(AllowTrail(n) \o RejectionTrail)
              = {"allow", "attempting", "rejection", "not_attempted"}
<1> USE DEF Kinds, Ev, Decision
<1>1. Kinds(<<>>) = {} /\ Kinds(AllowTrail(n)) = {"allow", "attempting"}
  BY DEF AllowTrail
<1>2. Kinds(DenyTrail(n)) = {"deny", "not_attempted"}
  BY DEF DenyTrail
<1>3. Kinds(RejectionTrail) = {"rejection", "not_attempted"}
  BY DEF RejectionTrail
<1>4. Kinds(<<Decision("allow", n), Ev("attempting"), Ev("succeeded")>>)
        = {"allow", "attempting", "succeeded"}
  OBVIOUS
<1>5. Kinds(<<Decision("allow", n), Ev("attempting"), Ev("failed")>>)
        = {"allow", "attempting", "failed"}
  OBVIOUS
<1>6. Kinds(<<Decision("allow", n), Ev("attempting"), Ev("rejection"), Ev("not_attempted")>>)
        = {"allow", "attempting", "rejection", "not_attempted"}
  OBVIOUS
<1> HIDE DEF Kinds, Ev, Decision
<1> QED BY <1>1, <1>2, <1>3, <1>4, <1>5, <1>6, TrailForms

\* No trail has two events that close the attempt.
ClosedOnce(s) == \A i, j \in 1 .. Len(s) :
                   s[i].kind \in Terminal /\ s[j].kind \in Terminal => i = j
\* No trail a request can leave closes the attempt twice.
LEMMA TrailsClosedOnce ==
  ASSUME NEW n \in Nat
  PROVE  \A s \in {<<>>, AllowTrail(n), DenyTrail(n), RejectionTrail,
                   AllowTrail(n) \o <<Ev("succeeded")>>, AllowTrail(n) \o <<Ev("failed")>>,
                   AllowTrail(n) \o RejectionTrail} : ClosedOnce(s)
<1> USE DEF ClosedOnce, Terminal, Ev, Decision
<1>1. ClosedOnce(<<>>) /\ ClosedOnce(AllowTrail(n))
  BY DEF AllowTrail
<1>2. ClosedOnce(DenyTrail(n)) /\ ClosedOnce(RejectionTrail)
  BY DEF DenyTrail, RejectionTrail
<1>3. ClosedOnce(<<Decision("allow", n), Ev("attempting"), Ev("succeeded")>>)
  OBVIOUS
<1>4. ClosedOnce(<<Decision("allow", n), Ev("attempting"), Ev("failed")>>)
  OBVIOUS
<1>5. ClosedOnce(<<Decision("allow", n), Ev("attempting"), Ev("rejection"), Ev("not_attempted")>>)
  OBVIOUS
<1> HIDE DEF ClosedOnce, Terminal, Ev, Decision
<1> QED BY <1>1, <1>2, <1>3, <1>4, <1>5, TrailForms

\* What the trail and the answer of a request can be, by its progress.
LEMMA TrailCases ==
  ASSUME IInv, NEW r \in Requests
  PROVE  /\ rev[r] \in Nat /\ KindsOf(r) = Kinds(audit[r])
         /\ \/ pc[r] # "done" /\ audit[r] = <<>> /\ reads[r] = <<>>
            \/ pc[r] # "done" /\ audit[r] = AllowTrail(rev[r])
            \/ pc[r] = "done" /\ result[r] = "200" /\ reads[r] = <<"ok">>
               /\ audit[r] = AllowTrail(rev[r]) \o <<Ev("succeeded")>>
            \/ pc[r] = "done" /\ result[r] = "502" /\ reads[r] = <<"error">>
               /\ audit[r] = AllowTrail(rev[r]) \o <<Ev("failed")>>
            \/ pc[r] = "done" /\ result[r] = "403" /\ reads[r] = <<>>
               /\ audit[r] = RejectionTrail
            \/ pc[r] = "done" /\ result[r] = "403" /\ reads[r] = <<>>
               /\ audit[r] = DenyTrail(rev[r])
            \/ pc[r] = "done" /\ result[r] = "403" /\ reads[r] = <<>>
               /\ audit[r] = AllowTrail(rev[r]) \o RejectionTrail
            \/ pc[r] = "done" /\ result[r] \in {"503 before", "lost"} /\ reads[r] = <<>>
               /\ audit[r] = <<>>
            \/ pc[r] = "done" /\ result[r] \in {"503 before", "lost"} /\ reads[r] = <<>>
               /\ audit[r] = AllowTrail(rev[r])
            \/ pc[r] = "done" /\ result[r] \in {"503 after", "lost"} /\ reads[r] # <<>>
               /\ audit[r] = AllowTrail(rev[r])
<1>1. TrailOf(r) /\ RequestWiring(r) /\ pc[r] \in Progress /\ rev[r] \in Nat
  BY DEF IInv, Trails, Wiring, TypeOK, CallType, Ops
<1>2. pc[r] # "done" => \/ audit[r] = <<>> /\ reads[r] = <<>>
                        \/ audit[r] = AllowTrail(rev[r])
  BY <1>1 DEF TrailOf, RequestWiring, Progress, Before, Under, After
<1>3. <<"ok">> # <<>> /\ <<"error">> # <<>>
  OBVIOUS
<1>4. KindsOf(r) = Kinds(audit[r])
  BY DEF KindsOf, Kinds
<1> QED BY <1>1, <1>2, <1>3, <1>4 DEF TrailOf

\* The forms of the trails say what the provider did.
LEMMA AuditIsTrue == IInv => AuditTruth
<1> SUFFICES ASSUME IInv, NEW r \in Requests
    PROVE  /\ reads[r] # <<>> => {"allow", "attempting"} \subseteq KindsOf(r)
           /\ "succeeded" \in KindsOf(r) => reads[r] = <<"ok">>
           /\ "failed" \in KindsOf(r) => reads[r] = <<"error">>
           /\ "not_attempted" \in KindsOf(r) => reads[r] = <<>> /\ pc[r] = "done"
           /\ ClosedOnce(audit[r])
  BY DEF AuditTruth, ClosedOnce
<1>11. ClosedOnce(audit[r])
  BY TrailCases, TrailsClosedOnce
<1>0. rev[r] \in Nat /\ KindsOf(r) = Kinds(audit[r]) /\ <<>> # <<"ok">> /\ <<>> # <<"error">>
  BY TrailCases
<1>1. CASE /\ pc[r] # "done" /\ audit[r] = <<>> /\ reads[r] = <<>>
  <2>1. KindsOf(r) = {}
    BY <1>0, <1>1, TrailKinds
  <2> QED BY <1>0, <1>1, <2>1, <1>11
<1>2. CASE /\ pc[r] # "done" /\ audit[r] = AllowTrail(rev[r])
  <2>1. KindsOf(r) = {"allow", "attempting"}
    BY <1>0, <1>2, TrailKinds
  <2> QED BY <1>0, <1>2, <2>1, <1>11
<1>3. CASE /\ audit[r] = AllowTrail(rev[r]) \o <<Ev("succeeded")>> /\ reads[r] = <<"ok">>
           /\ result[r] = "200"
  <2>1. KindsOf(r) = {"allow", "attempting", "succeeded"}
    BY <1>0, <1>3, TrailKinds
  <2> QED BY <1>0, <1>3, <2>1, <1>11
<1>4. CASE /\ audit[r] = AllowTrail(rev[r]) \o <<Ev("failed")>> /\ reads[r] = <<"error">>
           /\ result[r] = "502"
  <2>1. KindsOf(r) = {"allow", "attempting", "failed"}
    BY <1>0, <1>4, TrailKinds
  <2> QED BY <1>0, <1>4, <2>1, <1>11
<1>5. CASE /\ audit[r] = RejectionTrail /\ reads[r] = <<>>
           /\ pc[r] = "done" /\ result[r] = "403"
  <2>1. KindsOf(r) = {"rejection", "not_attempted"}
    BY <1>0, <1>5, TrailKinds
  <2> QED BY <1>0, <1>5, <2>1, <1>11
<1>6. CASE /\ audit[r] = DenyTrail(rev[r]) /\ reads[r] = <<>>
           /\ pc[r] = "done" /\ result[r] = "403"
  <2>1. KindsOf(r) = {"deny", "not_attempted"}
    BY <1>0, <1>6, TrailKinds
  <2> QED BY <1>0, <1>6, <2>1, <1>11
<1>7. CASE /\ audit[r] = AllowTrail(rev[r]) \o RejectionTrail /\ reads[r] = <<>>
           /\ pc[r] = "done" /\ result[r] = "403"
  <2>1. KindsOf(r) = {"allow", "attempting", "rejection", "not_attempted"}
    BY <1>0, <1>7, TrailKinds
  <2> QED BY <1>0, <1>7, <2>1, <1>11
<1>8. CASE /\ audit[r] = <<>> /\ reads[r] = <<>>
           /\ result[r] \in {"503 before", "lost"}
  <2>1. KindsOf(r) = {}
    BY <1>0, <1>8, TrailKinds
  <2> QED BY <1>0, <1>8, <2>1, <1>11
<1>9. CASE /\ audit[r] = AllowTrail(rev[r]) /\ reads[r] = <<>>
           /\ result[r] \in {"503 before", "lost"}
  <2>1. KindsOf(r) = {"allow", "attempting"}
    BY <1>0, <1>9, TrailKinds
  <2> QED BY <1>0, <1>9, <2>1, <1>11
<1>10. CASE /\ audit[r] = AllowTrail(rev[r]) /\ reads[r] # <<>>
           /\ result[r] \in {"503 after", "lost"}
  <2>1. KindsOf(r) = {"allow", "attempting"}
    BY <1>0, <1>10, TrailKinds
  <2> QED BY <1>0, <1>10, <2>1, <1>11
<1> QED BY <1>1, <1>2, <1>3, <1>4, <1>5, <1>6, <1>7, <1>8, <1>9, <1>10, TrailCases

\* The durable trail of a request never lies about the provider (readDocument appends
\* decision and attempt in one mutation, the outcome once the provider settled).
THEOREM AuditTruthHolds == Spec => []AuditTruth
BY AuditIsTrue, Invariant, PTL

\* What a caller is told agrees with the provider and with the durable trail, also when
\* the store refuses evidence (the responses of readDocument).
THEOREM AnswerTruthHolds == Spec => []AnswerTruth
<1>1. IInv => AnswerTruth
  <2> SUFFICES ASSUME IInv, NEW r \in Requests, pc[r] = "done"
      PROVE  /\ result[r] = "200" => "succeeded" \in KindsOf(r)
             /\ result[r] = "502" => "failed" \in KindsOf(r)
             /\ result[r] = "403" => reads[r] = <<>> /\ "not_attempted" \in KindsOf(r)
             /\ result[r] = "503 before" => reads[r] = <<>> /\ KindsOf(r) \cap Terminal = {}
             /\ result[r] = "503 after" => reads[r] # <<>> /\ KindsOf(r) \cap Terminal = {}
             /\ result[r] \in {"200", "502", "403", "503 before", "503 after", "lost"}
    BY DEF AnswerTruth
  <2>0. rev[r] \in Nat /\ KindsOf(r) = Kinds(audit[r]) /\ <<>> # <<"ok">> /\ <<>> # <<"error">>
    BY TrailCases
  <2>3. CASE /\ audit[r] = AllowTrail(rev[r]) \o <<Ev("succeeded")>> /\ reads[r] = <<"ok">>
             /\ result[r] = "200"
    <3>1. KindsOf(r) = {"allow", "attempting", "succeeded"}
      BY <2>0, <2>3, TrailKinds
    <3> QED BY <2>0, <2>3, <3>1 DEF Terminal
  <2>4. CASE /\ audit[r] = AllowTrail(rev[r]) \o <<Ev("failed")>> /\ reads[r] = <<"error">>
             /\ result[r] = "502"
    <3>1. KindsOf(r) = {"allow", "attempting", "failed"}
      BY <2>0, <2>4, TrailKinds
    <3> QED BY <2>0, <2>4, <3>1 DEF Terminal
  <2>5. CASE /\ audit[r] = RejectionTrail /\ reads[r] = <<>>
             /\ pc[r] = "done" /\ result[r] = "403"
    <3>1. KindsOf(r) = {"rejection", "not_attempted"}
      BY <2>0, <2>5, TrailKinds
    <3> QED BY <2>0, <2>5, <3>1 DEF Terminal
  <2>6. CASE /\ audit[r] = DenyTrail(rev[r]) /\ reads[r] = <<>>
             /\ pc[r] = "done" /\ result[r] = "403"
    <3>1. KindsOf(r) = {"deny", "not_attempted"}
      BY <2>0, <2>6, TrailKinds
    <3> QED BY <2>0, <2>6, <3>1 DEF Terminal
  <2>7. CASE /\ audit[r] = AllowTrail(rev[r]) \o RejectionTrail /\ reads[r] = <<>>
             /\ pc[r] = "done" /\ result[r] = "403"
    <3>1. KindsOf(r) = {"allow", "attempting", "rejection", "not_attempted"}
      BY <2>0, <2>7, TrailKinds
    <3> QED BY <2>0, <2>7, <3>1 DEF Terminal
  <2>8. CASE /\ audit[r] = <<>> /\ reads[r] = <<>>
             /\ result[r] \in {"503 before", "lost"}
    <3>1. KindsOf(r) = {}
      BY <2>0, <2>8, TrailKinds
    <3> QED BY <2>0, <2>8, <3>1 DEF Terminal
  <2>9. CASE /\ audit[r] = AllowTrail(rev[r]) /\ reads[r] = <<>>
             /\ result[r] \in {"503 before", "lost"}
    <3>1. KindsOf(r) = {"allow", "attempting"}
      BY <2>0, <2>9, TrailKinds
    <3> QED BY <2>0, <2>9, <3>1 DEF Terminal
  <2>10. CASE /\ audit[r] = AllowTrail(rev[r]) /\ reads[r] # <<>>
             /\ result[r] \in {"503 after", "lost"}
    <3>1. KindsOf(r) = {"allow", "attempting"}
      BY <2>0, <2>10, TrailKinds
    <3> QED BY <2>0, <2>10, <3>1 DEF Terminal
  <2> QED BY <2>3, <2>4, <2>5, <2>6, <2>7, <2>8, <2>9, <2>10, TrailCases
<1> QED BY <1>1, Invariant, PTL

-----------------------------------------------------------------------------
(* The lease: the calls on the authority of an Agent use the lease of each   *)
(* Mandate as the first-come first-served lock that FifoLock specifies.      *)

(* The invariant of the queues *)

\* A call that has asked for a lease and not given it back.
Queued(o) == pc[o] = "waiting" \/ Critical(o)

\* Those calls.
Queuers == {o \in Ops : Queued(o)}

\* Each queue holds the calls that asked for that lease, each once.
QueuesHoldTheirOwn ==
  \A m \in Mandates : \A i \in 1 .. Len(leases[m]) :
    leases[m][i] \in Queuers /\ target[leases[m][i]] = m
QueuedOnce ==
  \A m \in Mandates : \A i, j \in 1 .. Len(leases[m]) : leases[m][i] = leases[m][j] => i = j
QueuersHaveAPlace ==
  \A q \in Queuers : /\ target[q] \in Mandates
                     /\ \E i \in 1 .. Len(leases[target[q]]) : leases[target[q]][i] = q

QInv == IInv /\ QueuesHoldTheirOwn /\ QueuedOnce /\ QueuersHaveAPlace

-----------------------------------------------------------------------------
(* What a step is to the leases *)

\* It leaves call q alone.
Spares(q) == /\ target'[q] = target[q]
             /\ Queued(q)' <=> Queued(q)
             /\ Critical(q)' <=> Critical(q)

\* No queue changes, and whoever is queued stays where it is.
Elsewhere ==
  /\ leases' = leases
  /\ \A q \in Ops : /\ Queued(q) => target'[q] = target[q]
                    /\ Queued(q)' <=> Queued(q)
                    /\ Critical(q)' <=> Critical(q)

\* The turn of a call has come.
Enters(o) ==
  /\ leases' = leases /\ target' = target
  /\ pc[o] = "waiting" /\ Holds(o) /\ Critical(o)'
  /\ \A q \in Ops \ {o} : Spares(q)

\* A call asks for a lease.
Joins(o, m) ==
  /\ ~Queued(o) /\ Queued(o)' /\ ~Critical(o)' /\ target'[o] = m
  /\ JoinLease(o, m)
  /\ \A q \in Ops \ {o} : Spares(q)

\* A call gives its lease back.
Leaves(o) ==
  /\ Critical(o) /\ ~Queued(o)' /\ target' = target
  /\ ReleaseLease(o)
  /\ \A q \in Ops \ {o} : Spares(q)

\* The process has died.
Forgets ==
  /\ leases' = [m \in Mandates |-> <<>>]
  /\ \A q \in Ops : ~Queued(q)'

LEMMA Typed ==
  ASSUME IInv
  PROVE  /\ Requests \subseteq Ops /\ Admins \subseteq Ops /\ Requests \cap Admins = {}
         /\ \A o \in Ops : o \in Requests \/ o \in Admins
         /\ pc \in [Ops -> Progress] /\ target \in [Ops -> Mandates \cup {None}]
         /\ agentMandate \in Mandates
         /\ leases \in [Mandates -> Seq(Ops)]
BY GatewayAssumption DEF IInv, TypeOK, CallType, StoreType, LeaseType, Ops

\* The steps that move one call from one progress to another, neither of which has to
\* do with leases.
LEMMA MovesElsewhere ==
  ASSUME IInv, NEW o \in Ops, NEW place, pc' = [pc EXCEPT ![o] = place],
         leases' = leases, \A q \in Ops : target'[q] = target[q] \/ (q = o /\ ~Queued(q)),
         pc[o] # "waiting" /\ place # "waiting",
         Critical(o) <=> (o \in Requests /\ place \in {"leased", "settling"})
                         \/ (o \in Admins /\ place \in {"verifying", "committing"})
  PROVE  Elsewhere
<1>1. pc'[o] = place /\ \A q \in Ops : q # o => pc'[q] = pc[q]
  BY Typed
<1>2. \A q \in Ops : Critical(q)' <=> Critical(q)
  BY <1>1 DEF Critical
<1>3. \A q \in Ops : Queued(q)' <=> Queued(q)
  BY <1>1, <1>2 DEF Queued
<1> QED BY <1>2, <1>3 DEF Elsewhere

LEMMA RequestElsewhere ==
  ASSUME IInv, NEW r \in Requests,
         \/ VerifyRejects(r)   \/ VerifyAccepts(r) \/ RecordRejection(r) \/ RecordDenial(r)
         \/ EvidenceLost(r)    \/ ReadContent(r)   \/ RecordOutcome(r)   \/ OutcomeLost(r)
  PROVE  Elsewhere
<1>0. r \in Ops /\ r \notin Admins
  BY Typed
<1>1. leases' = leases /\ target' = target
  BY DEF VerifyRejects, VerifyAccepts, RecordRejection, RecordDenial, EvidenceLost, ReadContent,
         RecordOutcome, OutcomeLost, callVars, nameVars
<1>2. /\ pc[r] # "waiting"
      /\ \E place : /\ pc' = [pc EXCEPT ![r] = place] /\ place # "waiting"
                    /\ Critical(r) <=> place \in {"leased", "settling"}
  <2>1. CASE VerifyRejects(r) \/ VerifyAccepts(r)
    <3>1. pc[r] = "verifying" /\ ~Critical(r)
      BY <1>0, <2>1 DEF VerifyRejects, VerifyAccepts, Critical
    <3>2. \/ pc' = [pc EXCEPT ![r] = "rejecting"] \/ pc' = [pc EXCEPT ![r] = "allowing"]
          \/ pc' = [pc EXCEPT ![r] = "denying"]
      BY <2>1 DEF VerifyRejects, VerifyAccepts, Go
    <3> QED BY <3>1, <3>2
  <2>2. CASE \/ RecordRejection(r) \/ RecordDenial(r) \/ EvidenceLost(r) \/ RecordOutcome(r)
             \/ OutcomeLost(r)
    <3>1. pc[r] \in {"rejecting", "denying", "allowing", "recording"} /\ ~Critical(r)
      BY <1>0, <2>2
      DEF RecordRejection, RecordDenial, EvidenceLost, RecordOutcome, OutcomeLost, Critical
    <3>2. pc' = [pc EXCEPT ![r] = "done"]
      BY <2>2 DEF RecordRejection, RecordDenial, EvidenceLost, RecordOutcome, OutcomeLost,
                  Finish, Go
    <3>3. "done" # "waiting" /\ "done" \notin {"leased", "settling"}
      OBVIOUS
    <3>4. pc[r] # "waiting"
      BY <3>1
    <3> QED BY <3>1, <3>2, <3>3, <3>4
  <2>3. CASE ReadContent(r)
    <3>1. pc[r] = "leased" /\ Critical(r) /\ pc' = [pc EXCEPT ![r] = "settling"]
      BY <2>3 DEF ReadContent, Critical, Go
    <3> QED BY <3>1
  <2> QED BY <2>1, <2>2, <2>3
<1> QED BY <1>0, <1>1, <1>2, MovesElsewhere

LEMMA ReceiveElsewhere ==
  ASSUME IInv, NEW r \in Requests, NEW t, NEW x,
         ReceiveUnauthenticated(r, t, x) \/ Receive(r, t, x)
  PROVE  Elsewhere
<1>0. r \in Ops /\ r \notin Admins
  BY Typed
<1>1. pc[r] = "idle" /\ ~Queued(r) /\ ~Critical(r) /\ leases' = leases
  BY <1>0 DEF ReceiveUnauthenticated, Receive, Queued, Critical
<1>2. \A q \in Ops : target'[q] = target[q] \/ (q = r /\ ~Queued(q))
  BY <1>1, Typed DEF ReceiveUnauthenticated, Receive, callVars, nameVars
<1>3. PICK place \in {"rejecting", "verifying"} : pc' = [pc EXCEPT ![r] = place]
  BY DEF ReceiveUnauthenticated, Receive, Go
<1> QED BY <1>0, <1>1, <1>2, <1>3, MovesElsewhere

LEMMA EnterEnters ==
  ASSUME IInv, NEW o \in Ops,
         \/ o \in Requests /\ EnterLease(o)
         \/ o \in Admins /\ EnterAdmin(o)
  PROVE  Enters(o)
<1>1. /\ leases' = leases /\ target' = target /\ pc[o] = "waiting" /\ Holds(o)
      /\ \/ o \in Requests /\ pc' = [pc EXCEPT ![o] = "leased"]
         \/ o \in Admins /\ pc' = [pc EXCEPT ![o] = "verifying"]
  BY DEF EnterLease, EnterAdmin, Go
<1>2. \A q \in Ops \ {o} : pc'[q] = pc[q]
  BY <1>1, Typed
<1>3. Critical(o)'
  BY <1>1, Typed DEF Critical
<1>4. \A q \in Ops \ {o} : Spares(q)
  BY <1>1, <1>2 DEF Spares, Queued, Critical
<1> QED BY <1>1, <1>3, <1>4 DEF Enters

\* A call that asks for a lease starts to wait.
LEMMA WaitJoins ==
  ASSUME IInv, NEW o \in Ops, NEW m \in Mandates, ~Queued(o), JoinLease(o, m),
         pc' = [pc EXCEPT ![o] = "waiting"],
         target' = [target EXCEPT ![o] = m]
  PROVE  Joins(o, m)
<1>1. /\ pc'[o] = "waiting" /\ target'[o] = m
      /\ \A q \in Ops \ {o} : pc'[q] = pc[q] /\ target'[q] = target[q]
  BY Typed
<1>2. Queued(o)' /\ ~Critical(o)'
  BY <1>1 DEF Queued, Critical
<1>3. \A q \in Ops \ {o} : Spares(q)
  BY <1>1 DEF Spares, Queued, Critical
<1> QED BY <1>1, <1>2, <1>3 DEF Joins

LEMMA AttemptJoins ==
  ASSUME IInv, NEW r \in Requests, RecordAttempt(r)
  PROVE  \E m \in Mandates : Joins(r, m)
<1>0. r \in Ops /\ r \notin Admins /\ target \in [Ops -> Mandates \cup {None}]
  BY Typed
<1>1. /\ pc[r] = "allowing" /\ JoinLease(r, target[r])
      /\ pc' = [pc EXCEPT ![r] = "waiting"] /\ target' = target
  BY DEF RecordAttempt, Go, callVars, nameVars
<1>2. ~Queued(r)
  BY <1>0, <1>1 DEF Queued, Critical
<1>3. target[r] \in Mandates
  BY <1>0, <1>1 DEF IInv, Wiring, RequestWiring, Authenticated
<1>4. target' = [target EXCEPT ![r] = target[r]]
  BY <1>0, <1>1
<1> QED BY <1>0, <1>1, <1>2, <1>3, <1>4, WaitJoins

LEMMA StartJoins ==
  ASSUME IInv, NEW a \in Admins, StartRevoke(a) \/ StartRetire(a) \/ StartRehearsal(a)
  PROVE  Elsewhere \/ \E m \in Mandates : Joins(a, m)
<1>0. a \in Ops /\ a \notin Requests /\ agentMandate \in Mandates
  BY Typed
<1>1. pc[a] = "idle" /\ target' = [target EXCEPT ![a] = agentMandate]
  BY DEF StartRevoke, StartRetire, StartRehearsal
<1>2. ~Queued(a) /\ ~Critical(a)
  BY <1>0, <1>1 DEF Queued, Critical
<1>3. \/ JoinLease(a, agentMandate) /\ pc' = [pc EXCEPT ![a] = "waiting"]
      \/ leases' = leases /\ pc' = [pc EXCEPT ![a] = "done"]
  BY DEF StartRevoke, StartRetire, StartRehearsal, Go, Finish
<1>4. CASE JoinLease(a, agentMandate) /\ pc' = [pc EXCEPT ![a] = "waiting"]
  BY <1>0, <1>1, <1>2, <1>4, WaitJoins
<1>5. CASE leases' = leases /\ pc' = [pc EXCEPT ![a] = "done"]
  <2>1. \A q \in Ops : target'[q] = target[q] \/ (q = a /\ ~Queued(q))
    BY <1>1, <1>2, Typed
  <2> QED BY <1>0, <1>1, <1>2, <1>5, <2>1, MovesElsewhere
<1> QED BY <1>3, <1>4, <1>5

LEMMA SignElsewhere ==
  ASSUME IInv, NEW a \in Admins, SignRecords(a)
  PROVE  Elsewhere
<1>0. a \in Ops
  BY Typed
<1>1. /\ pc[a] = "verifying" /\ Critical(a) /\ pc' = [pc EXCEPT ![a] = "committing"]
      /\ leases' = leases /\ target' = target
  BY DEF SignRecords, Go, Critical
<1> QED BY <1>0, <1>1, MovesElsewhere

LEMMA GiveBackLeaves ==
  ASSUME IInv, NEW o \in Ops,
         \/ o \in Requests /\ (RefuseUnderLease(o) \/ SettleRead(o))
         \/ o \in Admins /\ (\/ RefuseAdmin(o) \/ CommitRevoke(o) \/ CommitSuccessor(o)
                             \/ CommitFails(o))
  PROVE  Leaves(o)
<1>1. /\ ReleaseLease(o) /\ target' = target /\ Critical(o)
      /\ \E place \in {"rejecting", "recording", "done"} : pc' = [pc EXCEPT ![o] = place]
  BY DEF RefuseUnderLease, SettleRead, RefuseAdmin, CommitRevoke, CommitSuccessor, CommitFails,
         Finish, Go, Critical, callVars, nameVars
<1>2. PICK place \in {"rejecting", "recording", "done"} : pc' = [pc EXCEPT ![o] = place]
  BY <1>1
<1>3. pc'[o] = place /\ \A q \in Ops \ {o} : pc'[q] = pc[q]
  BY <1>2, Typed
<1>4. ~Queued(o)'
  BY <1>3 DEF Queued, Critical
<1>5. \A q \in Ops \ {o} : Spares(q)
  BY <1>1, <1>3 DEF Spares, Queued, Critical
<1> QED BY <1>1, <1>4, <1>5 DEF Leaves

LEMMA StepKinds ==
  ASSUME IInv, [Next]_vars
  PROVE  \/ Elsewhere \/ Forgets
         \/ \E o \in Ops : Enters(o) \/ Leaves(o) \/ \E m \in Mandates : Joins(o, m)
<1>0. Requests \subseteq Ops /\ Admins \subseteq Ops
  BY Typed
<1>1. CASE \E r \in Requests, t \in 0 .. Len(passports), x \in Resources :
             ReceiveUnauthenticated(r, t, x) \/ Receive(r, t, x)
  BY <1>1, ReceiveElsewhere
<1>2. CASE \E r \in Requests : RequestStep(r)
  <2>1. PICK r \in Requests : RequestStep(r)
    BY <1>2
  <2> QED BY <1>0, <2>1, RequestElsewhere, AttemptJoins, EnterEnters, GiveBackLeaves
          DEF RequestStep
<1>3. CASE \E a \in Admins : StartRevoke(a) \/ StartRetire(a) \/ StartRehearsal(a)
  BY <1>0, <1>3, StartJoins
<1>4. CASE \E a \in Admins : AdminStep(a)
  <2>1. PICK a \in Admins : AdminStep(a)
    BY <1>4
  <2> QED BY <1>0, <2>1, SignElsewhere, EnterEnters, GiveBackLeaves DEF AdminStep
<1>5. CASE IssuePassport \/ EndSession \/ Tick \/ UNCHANGED vars
  <2>1. UNCHANGED <<leases, pc, target>>
    BY <1>5 DEF IssuePassport, EndSession, Tick, vars, callVars, nameVars
  <2> QED BY <2>1 DEF Elsewhere, Queued, Critical
<1>6. CASE Restart
  <2>1. \A o \in Ops : pc'[o] \in {"idle", "done"}
    BY <1>6 DEF Restart, Running
  <2>2. leases' = [m \in Mandates |-> <<>>]
    BY <1>6 DEF Restart
  <2> QED BY <2>1, <2>2 DEF Forgets, Queued, Critical
<1> QED BY <1>1, <1>2, <1>3, <1>4, <1>5, <1>6 DEF Next

-----------------------------------------------------------------------------
(* Each queue holds the calls that asked for it, each once. *)

LEMMA Members ==
  ASSUME QInv, NEW m \in Mandates, NEW i \in 1 .. Len(leases[m])
  PROVE  /\ leases[m] \in Seq(Ops) /\ leases[m][i] \in Ops
         /\ leases[m][i] \in Queuers /\ target[leases[m][i]] = m
BY Typed DEF QInv, QueuesHoldTheirOwn

\* While the queues stay, so does the invariant, if those in them stay queued.
LEMMA SameQueues ==
  ASSUME QInv, leases' = leases,
         Queuers' = Queuers, \A q \in Queuers : target'[q] = target[q]
  PROVE  QueuesHoldTheirOwn' /\ QueuedOnce' /\ QueuersHaveAPlace'
<1>1. \A m \in Mandates : \A i \in 1 .. Len(leases[m]) :
        leases[m][i] \in Queuers' /\ target'[leases[m][i]] = m
  BY Members
<1>2. QueuesHoldTheirOwn'
  BY <1>1 DEF QueuesHoldTheirOwn
<1>3. QueuedOnce'
  BY DEF QueuedOnce, QInv
<1>4. QueuersHaveAPlace'
  BY DEF QueuersHaveAPlace, QInv
<1> QED BY <1>2, <1>3, <1>4

\* A call that joins a queue is in none before.
LEMMA JoinKeepsQueues ==
  ASSUME QInv, NEW o \in Ops, NEW m \in Mandates, Joins(o, m)
  PROVE  QueuesHoldTheirOwn' /\ QueuedOnce' /\ QueuersHaveAPlace'
<1>0. /\ leases \in [Mandates -> Seq(Ops)] /\ leases[m] \in Seq(Ops)
      /\ leases' = [leases EXCEPT ![m] = Append(@, o)]
      /\ o \in Queuers' /\ target'[o] = m /\ o \notin Queuers
  BY Typed DEF QInv, Joins, JoinLease, Queuers
<1>1. \A q \in Queuers : q # o /\ q \in Queuers' /\ target'[q] = target[q]
  BY DEF Joins, Spares, Queuers, Queued, Critical
<1>2. \A j \in Mandates : \A i \in 1 .. Len(leases[j]) :
        /\ leases[j][i] # o
        /\ leases[j][i] \in Queuers' /\ target'[leases[j][i]] = j
  BY <1>1, Members
<1>3. \A j \in Mandates : j # m => leases'[j] = leases[j]
  BY <1>0
<1>4. /\ Len(leases'[m]) = Len(leases[m]) + 1
      /\ leases'[m][Len(leases[m]) + 1] = o
      /\ \A i \in 1 .. Len(leases[m]) : leases'[m][i] = leases[m][i]
      /\ Len(leases[m]) \in Nat
  BY <1>0
<1>5. ASSUME NEW j \in Mandates, NEW i \in 1 .. Len(leases'[j])
      PROVE  leases'[j][i] \in Queuers' /\ target'[leases'[j][i]] = j
  <2>1. CASE j # m
    BY <1>2, <1>3, <1>5, <2>1
  <2>2. CASE j = m /\ i = Len(leases[m]) + 1
    BY <1>0, <1>4, <2>2
  <2>3. CASE j = m /\ i # Len(leases[m]) + 1
    <3>1. i \in 1 .. Len(leases[m])
      BY <1>4, <1>5, <2>3
    <3> QED BY <1>2, <1>4, <2>3, <3>1
  <2> QED BY <2>1, <2>2, <2>3
<1>6. QueuesHoldTheirOwn'
  BY <1>5 DEF QueuesHoldTheirOwn
<1>7. ASSUME NEW j \in Mandates, NEW i \in 1 .. Len(leases'[j]), NEW h \in 1 .. Len(leases'[j]),
             leases'[j][i] = leases'[j][h]
      PROVE  i = h
  <2>0. \A x, y \in 1 .. Len(leases[j]) : leases[j][x] = leases[j][y] => x = y
    BY DEF QInv, QueuedOnce
  <2>1. CASE j # m
    BY <1>3, <1>7, <2>0, <2>1
  <2>2. CASE j = m
    <3>1. i \in 1 .. Len(leases[m]) \/ i = Len(leases[m]) + 1
      BY <1>4, <1>7, <2>2
    <3>2. h \in 1 .. Len(leases[m]) \/ h = Len(leases[m]) + 1
      BY <1>4, <1>7, <2>2
    <3>3. \A x \in 1 .. Len(leases[m]) : leases'[m][x] # o
      BY <1>2, <1>4
    <3>4. CASE i \in 1 .. Len(leases[m]) /\ h \in 1 .. Len(leases[m])
      <4>1. leases[m][i] = leases[m][h]
        BY <1>4, <1>7, <2>2, <3>4
      <4> QED BY <2>0, <2>2, <3>4, <4>1
    <3>5. CASE i = Len(leases[m]) + 1 \/ h = Len(leases[m]) + 1
      <4>1. leases'[m][i] = o /\ leases'[m][h] = o
        BY <1>4, <1>7, <2>2, <3>5
      <4> QED BY <3>1, <3>2, <3>3, <4>1
    <3> QED BY <3>1, <3>2, <3>4, <3>5
  <2> QED BY <2>1, <2>2
<1>8. QueuedOnce'
  BY <1>7 DEF QueuedOnce
<1>9. ASSUME NEW q \in Ops, q \in Queuers', q # o
      PROVE  q \in Queuers /\ target'[q] = target[q]
  BY <1>9 DEF Joins, Spares, Queuers, Queued, Critical
<1>10. ASSUME NEW q \in Ops, q \in Queuers'
       PROVE  /\ target'[q] \in Mandates
              /\ \E i \in 1 .. Len(leases'[target'[q]]) : leases'[target'[q]][i] = q
  <2>1. CASE q = o
    <3>1. Len(leases[m]) + 1 \in 1 .. Len(leases'[m])
      BY <1>4
    <3> QED BY <1>0, <1>4, <2>1, <3>1
  <2>2. CASE q # o
    <3>1. q \in Queuers /\ target'[q] = target[q]
      BY <1>9, <1>10, <2>2
    <3>2. /\ target[q] \in Mandates
          /\ \E i \in 1 .. Len(leases[target[q]]) : leases[target[q]][i] = q
      BY <3>1 DEF QInv, QueuersHaveAPlace
    <3>3. CASE target[q] # m
      BY <1>3, <3>1, <3>2, <3>3
    <3>4. CASE target[q] = m
      <4>1. \A i \in 1 .. Len(leases[m]) : i \in 1 .. Len(leases'[m])
        BY <1>4
      <4> QED BY <1>4, <3>1, <3>2, <3>4, <4>1
    <3> QED BY <3>3, <3>4
  <2> QED BY <2>1, <2>2
<1>11. QueuersHaveAPlace'
  BY <1>10 DEF QueuersHaveAPlace, Queuers
<1> QED BY <1>6, <1>8, <1>11

\* A call that leaves was at the head of its queue and is in none afterwards.
LEMMA LeaveKeepsQueues ==
  ASSUME QInv, NEW o \in Ops, Leaves(o)
  PROVE  QueuesHoldTheirOwn' /\ QueuedOnce' /\ QueuersHaveAPlace'
<1> DEFINE k == target[o]
<1>0. /\ k \in Mandates /\ leases[k] \in Seq(Ops) /\ leases[k] # <<>>
      /\ Head(leases[k]) = o /\ target' = target /\ leases \in [Mandates -> Seq(Ops)]
      /\ leases' = [leases EXCEPT ![k] = Tail(@)]
  BY CriticalFacts, Typed DEF QInv, Leaves, ReleaseLease
<1>1. \A q \in Queuers : q # o => q \in Queuers' /\ target'[q] = target[q]
  BY DEF Leaves, Spares, Queuers, Queued, Critical
<1>2. \A j \in Mandates : j # k => leases'[j] = leases[j]
  BY <1>0
<1> HIDE DEF k
<1>3. Len(leases[k]) \in Nat /\ Len(leases[k]) # 0 /\ leases[k][1] = o
  BY <1>0, EmptySeq
<1>4. /\ Len(leases'[k]) = Len(leases[k]) - 1
      /\ \A i \in 1 .. Len(leases'[k]) : leases'[k][i] = leases[k][i + 1]
  <2>1. leases'[k] = Tail(leases[k])
    BY <1>0
  <2> QED BY <1>0, <2>1, HeadTailProperties
<1>5. \A x, y \in 1 .. Len(leases[k]) : leases[k][x] = leases[k][y] => x = y
  BY <1>0 DEF QInv, QueuedOnce
<1>6. \A i \in 1 .. Len(leases'[k]) : i + 1 \in 1 .. Len(leases[k]) /\ i + 1 # 1
  BY <1>3, <1>4
<1>7. ASSUME NEW j \in Mandates, NEW i \in 1 .. Len(leases'[j])
      PROVE  leases'[j][i] \in Queuers' /\ target'[leases'[j][i]] = j
  <2>1. CASE j # k
    <3>1. /\ leases'[j][i] = leases[j][i] /\ leases[j][i] \in Ops
          /\ leases[j][i] \in Queuers /\ target[leases[j][i]] = j
      BY <1>2, <1>7, <2>1, Members
    <3>2. leases[j][i] # o
      BY <2>1, <3>1 DEF k
    <3> QED BY <1>1, <3>1, <3>2
  <2>2. CASE j = k
    <3>1. i + 1 \in 1 .. Len(leases[k]) /\ i + 1 # 1 /\ 1 \in 1 .. Len(leases[k])
      BY <1>3, <1>6, <1>7, <2>2
    <3>2. leases[k][i + 1] # o
      BY <1>3, <1>5, <3>1
    <3>3. /\ leases[k][i + 1] \in Ops /\ leases[k][i + 1] \in Queuers
          /\ target[leases[k][i + 1]] = k
      BY <1>0, <3>1, Members
    <3>4. leases'[k][i] = leases[k][i + 1]
      BY <1>4, <1>7, <2>2
    <3> QED BY <1>1, <2>2, <3>2, <3>3, <3>4
  <2> QED BY <2>1, <2>2
<1>8. QueuesHoldTheirOwn'
  BY <1>7 DEF QueuesHoldTheirOwn
<1>9. ASSUME NEW j \in Mandates, NEW i \in 1 .. Len(leases'[j]), NEW h \in 1 .. Len(leases'[j]),
             leases'[j][i] = leases'[j][h]
      PROVE  i = h
  <2>1. CASE j # k
    BY <1>2, <1>9, <2>1 DEF QInv, QueuedOnce
  <2>2. CASE j = k
    <3>1. i + 1 = h + 1
      BY <1>4, <1>5, <1>6, <1>9, <2>2
    <3> QED BY <1>9, <3>1, <1>4, <1>3, <2>2
  <2> QED BY <2>1, <2>2
<1>10. QueuedOnce'
  BY <1>9 DEF QueuedOnce
<1>11. ASSUME NEW q \in Ops, q \in Queuers'
       PROVE  q # o /\ q \in Queuers
  BY <1>11 DEF Leaves, Spares, Queuers, Queued, Critical
<1>12. ASSUME NEW q \in Ops, q \in Queuers'
       PROVE  /\ target'[q] \in Mandates
              /\ \E i \in 1 .. Len(leases'[target'[q]]) : leases'[target'[q]][i] = q
  <2>1. q # o /\ q \in Queuers /\ target'[q] = target[q]
    BY <1>0, <1>11, <1>12
  <2>2. target[q] \in Mandates
    BY <2>1 DEF QInv, QueuersHaveAPlace
  <2>3. PICK i \in 1 .. Len(leases[target[q]]) : leases[target[q]][i] = q
    BY <2>1 DEF QInv, QueuersHaveAPlace
  <2>4. CASE target[q] # k
    BY <1>2, <2>1, <2>2, <2>3, <2>4
  <2>5. CASE target[q] = k
    <3>1. i # 1
      BY <1>3, <2>1, <2>3, <2>5
    <3>2. i - 1 \in 1 .. Len(leases'[k]) /\ (i - 1) + 1 = i
      BY <1>3, <1>4, <2>3, <2>5, <3>1
    <3> QED BY <1>4, <2>1, <2>2, <2>3, <2>5, <3>2
  <2> QED BY <2>4, <2>5
<1>13. QueuersHaveAPlace'
  BY <1>12 DEF QueuersHaveAPlace, Queuers
<1> QED BY <1>8, <1>10, <1>13

LEMMA QueueStep ==
  ASSUME QInv, [Next]_vars
  PROVE  QInv'
<1>1. IInv'
  BY InvariantStep DEF QInv
<1>2. \/ Elsewhere \/ Forgets
      \/ \E o \in Ops : Enters(o) \/ Leaves(o) \/ \E m \in Mandates : Joins(o, m)
  BY StepKinds DEF QInv
<1>3. QueuesHoldTheirOwn' /\ QueuedOnce' /\ QueuersHaveAPlace'
  <2>1. CASE Elsewhere
    <3>1. Queuers' = Queuers /\ \A q \in Queuers : target'[q] = target[q]
      BY <2>1 DEF Elsewhere, Queuers, Queued, Critical
    <3> QED BY <2>1, <3>1, SameQueues DEF Elsewhere
  <2>2. CASE Forgets
    <3>1. \A m \in Mandates : Len(leases'[m]) = 0
      BY <2>2 DEF Forgets
    <3>2. \A m \in Mandates : 1 .. Len(leases'[m]) = {}
      BY <3>1
    <3>3. Queuers' = {}
      BY <2>2 DEF Forgets, Queuers, Queued, Critical
    <3> QED BY <3>2, <3>3 DEF QueuesHoldTheirOwn, QueuedOnce, QueuersHaveAPlace
  <2>3. ASSUME NEW o \in Ops, Enters(o)
        PROVE  QueuesHoldTheirOwn' /\ QueuedOnce' /\ QueuersHaveAPlace'
    <3>1. Queuers' = Queuers /\ \A q \in Queuers : target'[q] = target[q]
      BY <2>3 DEF Enters, Spares, Queuers, Queued, Critical
    <3> QED BY <2>3, <3>1, SameQueues DEF Enters
  <2> QED BY <1>2, <2>1, <2>2, <2>3, JoinKeepsQueues, LeaveKeepsQueues
<1> QED BY <1>1, <1>3 DEF QInv

\* A lease is asked for once, and its queue holds those who asked and have not given it
\* back (withMandateOperation).
THEOREM QueueInvariant == Spec => []QInv
<1>1. Init => QInv
  <2>1. ASSUME Init PROVE QueuesHoldTheirOwn /\ QueuedOnce /\ QueuersHaveAPlace
    <3>1. \A m \in Mandates : Len(leases[m]) = 0
      BY <2>1 DEF Init
    <3>2. \A m \in Mandates : 1 .. Len(leases[m]) = {}
      BY <3>1
    <3>3. \A o \in Ops : ~Queued(o)
      BY <2>1 DEF Init, Queued, Critical
    <3> QED BY <3>2, <3>3 DEF QueuesHoldTheirOwn, QueuedOnce, QueuersHaveAPlace, Queuers
  <2> QED BY <2>1, InitInvariant DEF QInv
<1> QED BY <1>1, QueueStep, PTL DEF Spec

\* Whoever waits for a lease waits behind a call on the same Mandate whose turn it is: one
\* that works under the lease or, at the head of the queue, is about to.
LeaseIsServed ==
  \A o \in Ops : pc[o] = "waiting" =>
    \E h \in Ops : Queued(h) /\ target[h] = target[o] /\ Holds(h)

\* No call waits for a lease that nobody has or is about to take: however requests,
\* revocations and rehearsals queue up, fail or die, the lease of a Mandate is never left
\* behind with calls waiting for it (the finally of withMandateOperation).
THEOREM LeaseIsServedHolds == Spec => []LeaseIsServed
<1>1. QInv => LeaseIsServed
  <2> SUFFICES ASSUME QInv, NEW o \in Ops, pc[o] = "waiting"
               PROVE  \E h \in Ops : Queued(h) /\ target[h] = target[o] /\ Holds(h)
    BY DEF LeaseIsServed
  <2> DEFINE m == target[o]
  <2>1. m \in Mandates /\ \E i \in 1 .. Len(leases[m]) : leases[m][i] = o
    BY DEF QInv, QueuersHaveAPlace, Queuers, Queued
  <2>2. leases[m] \in Seq(Ops)
    BY <2>1, Typed DEF QInv
  <2>3. Len(leases[m]) \in Nat /\ 1 \in 1 .. Len(leases[m]) /\ leases[m] # <<>>
    BY <2>1, <2>2, EmptySeq
  <2> DEFINE h == leases[m][1]
  <2>4. h \in Ops /\ h \in Queuers /\ target[h] = m
    BY <2>1, <2>3, Members
  <2>5. leases[m] # <<>> /\ Head(leases[m]) = h
    BY <2>2, <2>3
  <2> HIDE DEF m, h
  <2>6. Holds(h)
    BY <2>4, <2>5 DEF Holds
  <2> QED BY <2>4, <2>6 DEF m, Queuers
<1> QED BY <1>1, QueueInvariant, PTL

-----------------------------------------------------------------------------
(* The leases are used as the lock. *)

LEMMA ElsewhereStutters ==
  ASSUME Elsewhere
  PROVE  UNCHANGED Lease!lockVars
<1>1. leases' = leases /\ {o \in Ops : Critical(o)'} = {o \in Ops : Critical(o)}
  BY DEF Elsewhere
<1> QED BY <1>1 DEF Lease!lockVars, Critical

LEMMA EntersLock ==
  ASSUME IInv, NEW o \in Ops, Enters(o)
  PROVE  \E k \in Mandates : Lease!Enter(o, k)
<1>1. target[o] \in Mandates
  BY WaitingTarget DEF Enters
<1>2. {q \in Ops : Critical(q)'} = {q \in Ops : Critical(q)} \cup {o}
  BY DEF Enters, Spares
<1>3. Holds(o) /\ leases' = leases
  BY DEF Enters
<1> QED BY <1>1, <1>2, <1>3 DEF Lease!Enter, Lease!Holds, Holds, Critical

LEMMA JoinsLock ==
  ASSUME QInv, NEW o \in Ops, NEW m \in Mandates, Joins(o, m)
  PROVE  Lease!Join(o, m)
<1>1. \A j \in Mandates : \A i \in 1 .. Len(leases[j]) : leases[j][i] # o
  BY Members DEF Joins, Queuers
<1>2. {q \in Ops : Critical(q)'} = {q \in Ops : Critical(q)}
  BY DEF Joins, Spares, Queued
<1>3. leases' = [leases EXCEPT ![m] = Append(@, o)]
  BY DEF Joins, JoinLease
<1> QED BY <1>1, <1>2, <1>3 DEF Lease!Join, Critical

LEMMA LeavesLock ==
  ASSUME IInv, NEW o \in Ops, Leaves(o)
  PROVE  \E k \in Mandates : Lease!Leave(o, k)
<1>1. target[o] \in Mandates /\ leases[target[o]] # <<>> /\ Head(leases[target[o]]) = o
  BY CriticalFacts DEF Leaves
<1>2. /\ o \in {q \in Ops : Critical(q)}
      /\ {q \in Ops : Critical(q)'} = {q \in Ops : Critical(q)} \ {o}
  BY DEF Leaves, Spares, Queued
<1>3. leases' = [leases EXCEPT ![target[o]] = Tail(@)]
  BY DEF Leaves, ReleaseLease
<1> QED BY <1>1, <1>2, <1>3 DEF Lease!Leave, Lease!Holds, Critical

LEMMA ForgetsLock ==
  ASSUME Forgets
  PROVE  Lease!Forget
<1>1. {q \in Ops : Critical(q)'} = {}
  BY DEF Forgets, Queued
<1> QED BY <1>1 DEF Forgets, Lease!Forget, Critical

\* The operations of the module use each Mandate's lease as the lock FifoLock specifies:
\* they ask once, work only while they own it and always give it back (the callers of
\* withMandateOperation).
THEOREM LeaseDisciplineHolds == Spec => LeaseDiscipline
<1>1. Init => Lease!LockInit
  <2>1. ASSUME Init PROVE {o \in Ops : Critical(o)} = {}
    <3>1. \A o \in Ops : pc[o] = "idle"
      BY <2>1 DEF Init
    <3> QED BY <3>1 DEF Critical
  <2> QED BY <2>1 DEF Init, Lease!LockInit
<1>2. QInv /\ [Next]_vars => [Lease!LockNext]_(Lease!lockVars)
  <2>1. ASSUME QInv, [Next]_vars PROVE Lease!LockNext \/ UNCHANGED Lease!lockVars
    <3>0. IInv
      BY <2>1 DEF QInv
    <3>1. CASE Elsewhere
      BY <3>1, ElsewhereStutters
    <3>2. CASE Forgets
      BY <3>2, ForgetsLock DEF Lease!LockNext
    <3>3. ASSUME NEW o \in Ops, Enters(o) PROVE Lease!LockNext
      BY <3>0, <3>3, EntersLock DEF Lease!LockNext
    <3>4. ASSUME NEW o \in Ops, Leaves(o) PROVE Lease!LockNext
      BY <3>0, <3>4, LeavesLock DEF Lease!LockNext
    <3>5. ASSUME NEW o \in Ops, NEW m \in Mandates, Joins(o, m) PROVE Lease!LockNext
      BY <2>1, <3>5, JoinsLock DEF Lease!LockNext
    <3> QED BY <2>1, <3>0, <3>1, <3>2, <3>3, <3>4, <3>5, StepKinds
  <2> QED BY <2>1
<1> QED BY <1>1, <1>2, QueueInvariant, PTL DEF Spec, LeaseDiscipline, Lease!LockSpec
=============================================================================
