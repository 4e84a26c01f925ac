--------------------------- MODULE DemoProofProofs ---------------------------
(***************************************************************************)
(* What the server's summary of its own enforcement shows is what          *)
(* happened, and once proved it only advances, for any number of requests, *)
(* Mandates and Passports, at any time and across restarts.                *)
(***************************************************************************)
EXTENDS DemoProof, GatewayProofs, FiniteSetTheorems, WellFoundedInduction

-----------------------------------------------------------------------------
(* Which request find takes *)

\* A set of natural numbers that is not empty has a least one.
LEMMA LeastNatural ==
  ASSUME NEW T, T \subseteq Nat, T # {}
  PROVE  \E x \in T : \A y \in T : ~(y < x)
<1> DEFINE R == {ss \in Nat \X Nat : ss[1] < ss[2]}
<1>1. IsWellFoundedOn(R, Nat)
  BY NatLessThanWellFounded DEF OpToRel
<1>2. \A x, y \in Nat : y < x => <<y, x>> \in R
  OBVIOUS
<1> HIDE DEF R
<1>3. \E x \in T : \A y \in T : ~(<<y, x>> \in R)
  BY <1>1, WFMin
<1> QED BY <1>2, <1>3

\* Every request that was authenticated has its place in the order of arrival.
HasArrived(r) == \E i \in 1 .. Len(arrived) : arrived[i] = r
Arrived == /\ arrived \in Seq(Requests)
           /\ \A r \in Requests : target[r] # None => HasArrived(r)

\* find takes a request of the set it searches.
LEMMA FirstIsOne ==
  ASSUME arrived \in Seq(Requests), NEW S, S # {}, \A r \in S : HasArrived(r)
  PROVE  First(S) \in S
<1> DEFINE T == {i \in 1 .. Len(arrived) : arrived[i] \in S}
           Earliest(i) == arrived[i] \in S /\ \A j \in 1 .. i - 1 : arrived[j] \notin S
<1>1. Len(arrived) \in Nat /\ T \subseteq Nat /\ T # {}
  BY DEF HasArrived
<1>2. PICK x \in T : \A y \in T : ~(y < x)
  BY <1>1, LeastNatural
<1>3. x \in 1 .. Len(arrived) /\ Earliest(x)
  BY <1>1, <1>2
<1>4. First(S) = arrived[CHOOSE i \in 1 .. Len(arrived) : Earliest(i)]
  BY DEF First
<1> HIDE DEF Earliest
<1>5. Earliest(CHOOSE i \in 1 .. Len(arrived) : Earliest(i))
  BY <1>3
<1> QED BY <1>4, <1>5 DEF Earliest

-----------------------------------------------------------------------------
(* The inductive invariant *)

\* Nothing but the principal's own document was read, and nobody is answered early.
OwnOnly(r) == reads[r] # <<>> => resource[r] = "own"
Unanswered(r) == pc[r] # "done" => result[r] = "none"
DInv == IInv /\ Arrived /\ \A r \in Requests : OwnOnly(r) /\ Unanswered(r)

LEMMA DemoInitInvariant == DemoInit => DInv
<1> SUFFICES ASSUME DemoInit PROVE DInv
  OBVIOUS
<1>1. IInv
  BY InitInvariant DEF DemoInit
<1>2. arrived \in Seq(Requests)
  BY DEF DemoInit
<1>3. \A r \in Requests : /\ r \in Ops /\ target[r] = None /\ reads[r] = <<>>
                          /\ result[r] = "none"
  BY DEF DemoInit, Init, Ops
<1> QED BY <1>1, <1>2, <1>3 DEF DInv, Arrived, OwnOnly, Unanswered

\* A request that arrives is the only one that does.
LEMMA OneArrival ==
  ASSUME IInv, NEW r \in Requests, NEW t \in Nat, NEW x \in Resources, Receive(r, t, x)
  PROVE  Arrives(r) /\ \A q \in Requests : Arrives(q) => q = r
<1>1. pc \in [Ops -> Progress] /\ Requests \subseteq Ops
  BY DEF IInv, TypeOK, CallType, Ops
<1> QED BY <1>1 DEF Receive, Arrives, Go

\* Only the arrival of a request says which Mandate it is under.
LEMMA TargetKept ==
  ASSUME IInv, [Next]_vars, NEW r \in Requests,
         ~ \E t \in 0 .. Len(passports), x \in Resources : Receive(r, t, x)
  PROVE  target'[r] = target[r]
BY RequestFrameHolds
   DEF RequestFrame, SameRequest, ReceiveUnauthenticated, RequestStep, Restart,
       VerifyRejects, VerifyAccepts, RecordRejection, RecordDenial, RecordAttempt,
       EvidenceLost, EnterLease, ReadContent, RefuseUnderLease, SettleRead,
       RecordOutcome, OutcomeLost, callVars, nameVars

\* The order of arrival only grows, and holds who has just arrived.
LEMMA ArrivedStep ==
  ASSUME IInv, Arrived, [DemoNext]_<<vars, demoVars>>
  PROVE  Arrived'
<1> USE DEF Arrived, HasArrived
<1>0. [Next]_vars
  BY DEF DemoNext
<1>1. CASE arrived' = arrived
  <2>1. CASE UNCHANGED vars
    BY <1>1, <2>1 DEF vars
  <2>2. CASE DemoNext
    <3>0. ASSUME NEW r \in Requests, Arrives(r) PROVE FALSE
      <4>1. arrived' = Append(arrived, CHOOSE q \in Requests : Arrives(q))
        BY <2>2, <3>0 DEF DemoNext, Observe
      <4>2. (CHOOSE q \in Requests : Arrives(q)) \in Requests
        BY <3>0
      <4>3. Len(arrived') = Len(arrived) + 1
        BY <4>1, <4>2
      <4> QED BY <1>1, <4>3
    <3>1. ASSUME NEW r \in Requests, target'[r] # None PROVE HasArrived(r)
      <4>1. ~ \E t \in 0 .. Len(passports), x \in Resources : Receive(r, t, x)
        BY <3>0, OneArrival
      <4>2. target'[r] = target[r]
        BY <1>0, <4>1, TargetKept
      <4> QED BY <3>1, <4>2
    <3> QED BY <1>1, <3>1
  <2> QED BY <2>1, <2>2 DEF vars, demoVars
<1>2. CASE /\ \E r \in Requests : Arrives(r)
           /\ arrived' = Append(arrived, CHOOSE r \in Requests : Arrives(r))
  <2> DEFINE a == CHOOSE r \in Requests : Arrives(r)
  <2>1. a \in Requests /\ Arrives(a)
    BY <1>2
  <2> HIDE DEF a
  <2>2. arrived' = Append(arrived, a)
    BY <1>2 DEF a
  <2>3. /\ arrived' \in Seq(Requests) /\ Len(arrived') = Len(arrived) + 1
        /\ \A i \in 1 .. Len(arrived) : arrived'[i] = arrived[i]
        /\ arrived'[Len(arrived) + 1] = a /\ Len(arrived) \in Nat
    BY <2>1, <2>2
  <2>4. ASSUME NEW r \in Requests, target'[r] # None PROVE HasArrived(r)'
    <3>1. CASE \E t \in 0 .. Len(passports), x \in Resources : Receive(r, t, x)
      <4>1. Arrives(r) /\ a = r
        BY <2>1, <3>1, OneArrival
      <4> QED BY <2>3, <4>1
    <3>2. CASE ~ \E t \in 0 .. Len(passports), x \in Resources : Receive(r, t, x)
      <4>1. target'[r] = target[r]
        BY <1>0, <3>2, TargetKept
      <4>2. PICK i \in 1 .. Len(arrived) : arrived[i] = r
        BY <2>4, <4>1
      <4> QED BY <2>3, <4>2
    <3> QED BY <3>1, <3>2
  <2> QED BY <2>3, <2>4
<1> QED BY <1>1, <1>2 DEF DemoNext, Observe, demoVars

\* No step reads another's document or answers before the end.
LEMMA RequestOkStep ==
  ASSUME IInv, [Next]_vars, NEW r \in Requests, OwnOnly(r), Unanswered(r)
  PROVE  OwnOnly(r)' /\ Unanswered(r)'
<1> USE DEF OwnOnly, Unanswered, callVars, nameVars, requestVars, Go, Finish
<1>0. /\ r \in Ops /\ TrailOf(r)
      /\ pc \in [Ops -> Progress] /\ result \in [Ops -> Results]
      /\ resource \in [Requests -> Resources] /\ reads \in [Requests -> Seq({"ok", "error"})]
  BY DEF IInv, Trails, TypeOK, CallType, ReadType, Ops
<1>1. CASE SameRequest(r)
  BY <1>1 DEF SameRequest
<1>2. CASE \E t \in 0 .. Len(passports), x \in Resources :
             ReceiveUnauthenticated(r, t, x) \/ Receive(r, t, x)
  <2>1. pc[r] = "idle" /\ reads'[r] = reads[r] /\ result'[r] = result[r] /\ reads[r] = <<>>
    BY <1>0, <1>2 DEF ReceiveUnauthenticated, Receive, TrailOf, Before
  <2> QED BY <2>1
<1>3. CASE RequestStep(r)
  <2>1. resource' = resource /\ pc[r] # "done"
    BY <1>3 DEF RequestStep, VerifyRejects, VerifyAccepts, RecordRejection, RecordDenial,
         RecordAttempt, EvidenceLost, EnterLease, ReadContent, RefuseUnderLease, SettleRead,
         RecordOutcome, OutcomeLost
  <2>2. pc'[r] = "done" \/ result'[r] = result[r]
    BY <1>0, <1>3 DEF RequestStep, VerifyRejects, VerifyAccepts, RecordRejection, RecordDenial,
         RecordAttempt, EvidenceLost, EnterLease, ReadContent, RefuseUnderLease, SettleRead,
         RecordOutcome, OutcomeLost
  <2>3. reads' = reads \/ resource[r] = "own"
    BY <1>0, <1>3 DEF RequestStep, VerifyRejects, VerifyAccepts, RecordRejection, RecordDenial,
         RecordAttempt, EvidenceLost, EnterLease, ReadContent, RefuseUnderLease, SettleRead,
         RecordOutcome, OutcomeLost, TrailOf, Under
  <2> QED BY <2>1, <2>2, <2>3
<1>4. CASE Restart
  <2>1. /\ reads' = reads /\ resource' = resource
        /\ \/ pc'[r] = "done"
           \/ pc'[r] = pc[r] /\ result'[r] = result[r]
    BY <1>0, <1>4 DEF Restart, Running
  <2> QED BY <2>1
<1> QED BY <1>1, <1>2, <1>3, <1>4, RequestFrameHolds DEF RequestFrame

LEMMA DemoInvariantStep == DInv /\ [DemoNext]_<<vars, demoVars>> => DInv'
<1> SUFFICES ASSUME DInv, [DemoNext]_<<vars, demoVars>> PROVE DInv'
  OBVIOUS
<1>1. [Next]_vars
  BY DEF DemoNext
<1> QED BY <1>1, InvariantStep, ArrivedStep, RequestOkStep DEF DInv

\* The inductive invariant: that of the enforcement path, and that the order of arrival
\* holds every authenticated request, each of which reads its own document if any.
THEOREM DemoInvariant == DemoSpec => []DInv
BY DemoInitInvariant, DemoInvariantStep, PTL DEF DemoSpec

-----------------------------------------------------------------------------
(* What the summary shows is what happened *)

\* What the events of a request say of its outcome.
LEMMA KindCases ==
  ASSUME DInv, NEW r \in Requests
  PROVE  \/ /\ KindsOf(r) = {"allow", "attempting", "succeeded"}
            /\ result[r] = "200" /\ reads[r] = <<"ok">> /\ resource[r] = "own"
         \/ /\ KindsOf(r) = {"allow", "attempting", "failed"}
            /\ result[r] = "502" /\ resource[r] = "own"
         \/ /\ KindsOf(r) \in {{"rejection", "not_attempted"}, {"deny", "not_attempted"},
                               {"allow", "attempting", "rejection", "not_attempted"}}
            /\ result[r] = "403" /\ reads[r] = <<>>
         \/ /\ KindsOf(r) = {"allow", "attempting"}
            /\ result[r] \notin {"200", "403"} /\ (reads[r] # <<>> => resource[r] = "own")
         \/ /\ KindsOf(r) = {}
            /\ result[r] \notin {"200", "403"} /\ reads[r] = <<>>
<1>0. /\ rev[r] \in Nat /\ KindsOf(r) = Kinds(audit[r])
      /\ OwnOnly(r) /\ Unanswered(r) /\ <<"ok">> # <<>> /\ <<"error">> # <<>>
  BY TrailCases DEF DInv
<1> USE DEF OwnOnly, Unanswered
<1>1. CASE pc[r] # "done" /\ audit[r] = <<>> /\ reads[r] = <<>>
  <2>1. KindsOf(r) = {}
    BY <1>0, <1>1, TrailKinds
  <2> QED BY <1>0, <1>1, <2>1
<1>2. CASE pc[r] # "done" /\ audit[r] = AllowTrail(rev[r])
  <2>1. KindsOf(r) = {"allow", "attempting"}
    BY <1>0, <1>2, TrailKinds
  <2> QED BY <1>0, <1>2, <2>1
<1>3. CASE /\ pc[r] = "done" /\ result[r] = "200" /\ reads[r] = <<"ok">>
           /\ audit[r] = AllowTrail(rev[r]) \o <<Ev("succeeded")>>
  <2>1. KindsOf(r) = {"allow", "attempting", "succeeded"}
    BY <1>0, <1>3, TrailKinds
  <2> QED BY <1>0, <1>3, <2>1
<1>4. CASE /\ pc[r] = "done" /\ result[r] = "502" /\ reads[r] = <<"error">>
           /\ audit[r] = AllowTrail(rev[r]) \o <<Ev("failed")>>
  <2>1. KindsOf(r) = {"allow", "attempting", "failed"}
    BY <1>0, <1>4, TrailKinds
  <2> QED BY <1>0, <1>4, <2>1
<1>5. CASE pc[r] = "done" /\ result[r] = "403" /\ reads[r] = <<>> /\ audit[r] = RejectionTrail
  <2>1. KindsOf(r) = {"rejection", "not_attempted"}
    BY <1>0, <1>5, TrailKinds
  <2> QED BY <1>5, <2>1
<1>6. CASE pc[r] = "done" /\ result[r] = "403" /\ reads[r] = <<>> /\ audit[r] = DenyTrail(rev[r])
  <2>1. KindsOf(r) = {"deny", "not_attempted"}
    BY <1>0, <1>6, TrailKinds
  <2> QED BY <1>6, <2>1
<1>7. CASE /\ pc[r] = "done" /\ result[r] = "403" /\ reads[r] = <<>>
           /\ audit[r] = AllowTrail(rev[r]) \o RejectionTrail
  <2>1. KindsOf(r) = {"allow", "attempting", "rejection", "not_attempted"}
    BY <1>0, <1>7, TrailKinds
  <2> QED BY <1>7, <2>1
<1>8. CASE /\ pc[r] = "done" /\ result[r] \in {"503 before", "lost"} /\ reads[r] = <<>>
           /\ audit[r] = <<>>
  <2>1. KindsOf(r) = {}
    BY <1>0, <1>8, TrailKinds
  <2> QED BY <1>8, <2>1
<1>9. CASE /\ pc[r] = "done" /\ result[r] \in {"503 before", "503 after", "lost"}
           /\ audit[r] = AllowTrail(rev[r])
  <2>1. KindsOf(r) = {"allow", "attempting"}
    BY <1>0, <1>9, TrailKinds
  <2> QED BY <1>0, <1>9, <2>1
<1>10. IInv
  BY DEF DInv
<1> QED BY <1>1, <1>2, <1>3, <1>4, <1>5, <1>6, <1>7, <1>8, <1>9, <1>10, TrailCases

\* The requests that a phase quotes are requests under the Agent's Mandate, and their
\* events say what became of them.
LEMMA Quoted ==
  ASSUME DInv
  PROVE  /\ agentMandate # None
         /\ \A x \in Resources : SuccessfulReads(x) # {} =>
              First(SuccessfulReads(x)) \in SuccessfulReads(x)
         /\ OwnerDenials # {} => First(OwnerDenials) \in OwnerDenials
<1>1. agentMandate # None
  BY GatewayAssumption DEF DInv, IInv, TypeOK, StoreType
<1>2. arrived \in Seq(Requests) /\ \A r \in AuditForAgent : HasArrived(r)
  BY <1>1 DEF DInv, Arrived, AuditForAgent
<1>3. OwnerDenials \subseteq AuditForAgent
  BY DEF OwnerDenials
<1>4. \A x \in Resources : SuccessfulReads(x) \subseteq AuditForAgent
  BY DEF SuccessfulReads
<1> QED BY <1>1, <1>2, <1>3, <1>4, FirstIsOne

\* What each phase means for the status, the live Passport and the events.
LEMMA PhaseCases ==
  /\ Phase = "ready_turn_1" => AuditForAgent = {}
  /\ Phase \in TurnOneDone => /\ ActiveCredentialMatches
                              /\ MandateStatus \in {"active", "revoked"}
  /\ Phase = "ready_revoke" => MandateStatus = "active"
  /\ Phase = "complete" => MandateStatus = "revoked" /\ LifecycleDenial
  /\ ActiveCredentialMatches /\ MandateStatus = "active" => Phase = "ready_revoke"
  /\ ActiveCredentialMatches /\ MandateStatus = "revoked" =>
       Phase = IF LifecycleDenial THEN "complete" ELSE "ready_turn_2"
<1>1. MandateStatus \in {"active", "revoked", "expired"}
  BY DEF MandateStatus
<1>2. CASE MandateStatus = "active"
  <2>1. CASE ActiveCredentialMatches
    <3>1. SuccessfulReads("own") # {}
      BY <2>1 DEF ActiveCredentialMatches, CoherentTurnOne
    <3>2. AuditForAgent # {}
      BY <3>1 DEF SuccessfulReads
    <3>3. Phase = "ready_revoke"
      BY <1>2, <2>1, <3>2 DEF Phase
    <3> QED BY <1>2, <2>1, <3>3 DEF TurnOneDone
  <2>2. CASE ~ActiveCredentialMatches
    BY <1>2, <2>2 DEF Phase, TurnOneDone
  <2> QED BY <2>1, <2>2
<1>3. CASE MandateStatus = "revoked"
  BY <1>3 DEF Phase, TurnOneDone
<1>4. CASE MandateStatus = "expired"
  BY <1>4 DEF Phase, TurnOneDone
<1> QED BY <1>1, <1>2, <1>3, <1>4

\* The summary shows what happened in every state of the invariant.
LEMMA SummaryFollows == DInv => SummaryIsReal
<1> SUFFICES ASSUME DInv PROVE SummaryIsReal
  OBVIOUS
<1>1. ASSUME Phase = "ready_turn_1", NEW r \in UnderMandate PROVE reads[r] = <<>>
  <2>1. r \in Requests /\ r \notin AuditForAgent /\ target[r] = agentMandate
    BY <1>1, PhaseCases DEF UnderMandate
  <2>2. "allow" \notin KindsOf(r)
    BY <2>1 DEF AuditForAgent
  <2>3. reads[r] # <<>> => "allow" \in KindsOf(r)
    BY <2>1, AuditIsTrue DEF DInv, AuditTruth
  <2> QED BY <2>2, <2>3
<1>2. \A r \in Requests : resource[r] = "foreign" => reads[r] = <<>>
  BY DEF DInv, OwnOnly
<1>3. ASSUME Phase \in TurnOneDone
      PROVE  /\ \E r \in UnderSession : resource[r] = "own" /\ reads[r] = <<"ok">>
             /\ \E r \in UnderSession : resource[r] = "foreign" /\ result[r] = "403"
  <2>1. ActiveCredentialMatches
    BY <1>3, PhaseCases
  <2>2. /\ AliceAllow \in SuccessfulReads("own") /\ BobDeny \in OwnerDenials
        /\ token[AliceAllow] = session /\ token[BobDeny] = session
        /\ now < passports[session].exp
    BY <2>1, Quoted DEF ActiveCredentialMatches, CoherentTurnOne, AliceAllow, BobDeny, Resources
  <2>3. AliceAllow \in UnderSession /\ BobDeny \in UnderSession
    BY <2>2 DEF UnderSession, UnderMandate, SuccessfulReads, OwnerDenials, AuditForAgent
  <2>4. resource[AliceAllow] = "own" /\ reads[AliceAllow] = <<"ok">>
    <3>1. AliceAllow \in Requests /\ "succeeded" \in KindsOf(AliceAllow)
      BY <2>2 DEF SuccessfulReads, AuditForAgent
    <3>2. resource[AliceAllow] = "own"
      BY <2>2 DEF SuccessfulReads
    <3> QED BY <3>1, <3>2, KindCases
  <2>5. resource[BobDeny] = "foreign" /\ result[BobDeny] = "403"
    <3>1. BobDeny \in Requests /\ "deny" \in KindsOf(BobDeny)
      BY <2>2 DEF OwnerDenials, AuditForAgent
    <3>2. resource[BobDeny] = "foreign"
      BY <2>2 DEF OwnerDenials
    <3> QED BY <3>1, <3>2, KindCases
  <2> QED BY <2>3, <2>4, <2>5
<1>4. ASSUME Phase = "complete"
      PROVE  /\ \A m \in Installed : ~Active(records[m], now)
             /\ \E r \in UnderSession : result[r] = "403" /\ reads[r] = <<>> /\ r \in refusal
  <2>1. MandateStatus = "revoked" /\ LifecycleDenial /\ ActiveCredentialMatches
    BY <1>4, PhaseCases DEF TurnOneDone
  <2>2. \A m \in Installed : records[m].status = "revoked"
    BY <2>1 DEF DInv, IInv, OneActiveMandate, MandateStatus
  <2>3. PICK r \in AuditForAgent \cap refusal : /\ "rejection" \in KindsOf(r)
                                                /\ token[r] = token[AliceAllow]
    BY <2>1 DEF LifecycleDenial
  <2>4. r \in UnderSession /\ r \in Requests
    BY <2>1, <2>3 DEF ActiveCredentialMatches, AuditForAgent, UnderSession, UnderMandate
  <2>5. result[r] = "403" /\ reads[r] = <<>>
    BY <2>3, <2>4, KindCases
  <2> QED BY <2>2, <2>3, <2>4, <2>5 DEF Active
<1>5. SuccessfulReadCount("foreign") = 0
  <2>1. ASSUME NEW r \in SuccessfulReads("foreign") PROVE FALSE
    <3>1. r \in Requests /\ "succeeded" \in KindsOf(r) /\ resource[r] = "foreign"
      BY DEF SuccessfulReads, AuditForAgent
    <3> QED BY <3>1, KindCases
  <2>2. SuccessfulReads("foreign") = {}
    BY <2>1
  <2> QED BY <2>2, FS_EmptySet DEF SuccessfulReadCount
<1>6. SuccessfulReadCount("own") = Cardinality({r \in UnderMandate : result[r] = "200"})
  <2>1. ASSUME NEW r \in SuccessfulReads("own")
        PROVE  r \in UnderMandate /\ result[r] = "200"
    <3>1. r \in Requests /\ "succeeded" \in KindsOf(r) /\ r \in UnderMandate
      BY DEF SuccessfulReads, AuditForAgent, UnderMandate
    <3> QED BY <3>1, KindCases
  <2>2. ASSUME NEW r \in UnderMandate, result[r] = "200"
        PROVE  r \in SuccessfulReads("own")
    <3>1. r \in Requests /\ target[r] = agentMandate
      BY DEF UnderMandate
    <3>2. KindsOf(r) = {"allow", "attempting", "succeeded"} /\ resource[r] = "own"
      BY <2>2, <3>1, KindCases
    <3> QED BY <3>1, <3>2 DEF SuccessfulReads, AuditForAgent
  <2>3. SuccessfulReads("own") = {r \in UnderMandate : result[r] = "200"}
    BY <2>1, <2>2
  <2> QED BY <2>3 DEF SuccessfulReadCount
<1>7. Phase \in TurnOneDone \/ Phase # "complete"
  BY DEF TurnOneDone
<1> QED BY <1>1, <1>2, <1>3, <1>4, <1>5, <1>6, <1>7 DEF SummaryIsReal

\* What the summary shows of turn 1, of the refusal and of the reads is what happened,
\* all of it under the Mandate that the Agent has now (securitySummary).
THEOREM SummaryIsRealHolds == DemoSpec => []SummaryIsReal
BY DemoInvariant, SummaryFollows, PTL

-----------------------------------------------------------------------------
(* A proved turn 1 only advances *)

\* What a request is under, presents and asks for stays, and its trail only grows.
LEMMA RequestKept ==
  ASSUME IInv, [Next]_vars, NEW r \in Requests
  PROVE  /\ KindsOf(r) \subseteq KindsOf(r)'
         /\ KindsOf(r)' # {} => /\ target'[r] = target[r] /\ token'[r] = token[r]
                                /\ resource'[r] = resource[r]
<1> USE DEF callVars, nameVars, requestVars, durableVars
<1>0. /\ TrailOf(r) /\ audit \in [Requests -> Seq(Event)] /\ rev[r] \in Nat
      /\ r \in Ops
  BY DEF IInv, Trails, TypeOK, StoreType, CallType, Ops
<1>1. ASSUME audit'[r] = audit[r] PROVE KindsOf(r)' = KindsOf(r)
  BY <1>1 DEF KindsOf
<1>2. ASSUME NEW e \in Seq(Event), audit' = [audit EXCEPT ![r] = @ \o e]
      PROVE  KindsOf(r) \subseteq KindsOf(r)'
  <2>1. audit'[r] = audit[r] \o e /\ audit[r] \in Seq(Event)
    BY <1>0, <1>2
  <2>2. /\ Len(audit[r]) \in Nat /\ Len(audit'[r]) \in Nat /\ Len(audit[r]) <= Len(audit'[r])
        /\ \A i \in 1 .. Len(audit[r]) : audit'[r][i] = audit[r][i]
    BY <2>1
  <2> QED BY <2>2 DEF KindsOf
<1>3. CASE SameRequest(r)
  BY <1>1, <1>3 DEF SameRequest
<1>4. CASE \E t \in 0 .. Len(passports), x \in Resources :
             ReceiveUnauthenticated(r, t, x) \/ Receive(r, t, x)
  <2>1. audit' = audit /\ audit[r] = <<>>
    BY <1>0, <1>4 DEF ReceiveUnauthenticated, Receive, TrailOf, Before
  <2>2. KindsOf(r) = {} /\ KindsOf(r)' = {}
    BY <2>1 DEF KindsOf
  <2> QED BY <2>2
<1>5. CASE RequestStep(r)
  <2>1. target' = target /\ token' = token /\ resource' = resource
    BY <1>5 DEF RequestStep, VerifyRejects, VerifyAccepts, RecordRejection, RecordDenial,
         RecordAttempt, EvidenceLost, EnterLease, ReadContent, RefuseUnderLease, SettleRead,
         RecordOutcome, OutcomeLost
  <2>2. audit' = audit \/ \E e \in Seq(Event) : audit' = [audit EXCEPT ![r] = @ \o e]
    BY <1>0, <1>5, EventTypes
       DEF RequestStep, VerifyRejects, VerifyAccepts, RecordRejection, RecordDenial,
         RecordAttempt, EvidenceLost, EnterLease, ReadContent, RefuseUnderLease, SettleRead,
         RecordOutcome, OutcomeLost, AppendEvents
  <2> QED BY <1>1, <1>2, <2>1, <2>2
<1>6. CASE Restart
  BY <1>1, <1>6 DEF Restart
<1> QED BY <1>3, <1>4, <1>5, <1>6, RequestFrameHolds DEF RequestFrame

\* The step leaves a story as SameStory describes it.
Continues == /\ session # 0 /\ session' = session /\ agentMandate' = agentMandate
             /\ \A r \in UnderMandate : token[r] = session
             /\ now' < passports'[session].exp
             /\ MandateStatus' # "expired"

\* Whoever is quoted in the next state was under this Mandate before, with the Passport
\* that is still live.
LEMMA QuotedKept ==
  ASSUME DInv, [DemoNext]_<<vars, demoVars>>, Continues
  PROVE  /\ AuditForAgent \subseteq AuditForAgent'
         /\ \A x \in Resources : SuccessfulReads(x) \subseteq SuccessfulReads(x)'
         /\ OwnerDenials \subseteq OwnerDenials'
         /\ \A r \in AuditForAgent' : token'[r] = session
<1>0. [Next]_vars /\ IInv /\ agentMandate' = agentMandate
  BY DEF DemoNext, DInv, Continues
<1>1. ASSUME NEW r \in AuditForAgent
      PROVE  /\ r \in AuditForAgent' /\ resource'[r] = resource[r]
             /\ KindsOf(r) \subseteq KindsOf(r)'
  <2>1. r \in Requests /\ target[r] = agentMandate /\ KindsOf(r) # {}
        /\ KindsOf(r) \cap {"allow", "deny", "rejection"} # {}
    BY DEF AuditForAgent
  <2>2. /\ KindsOf(r) \subseteq KindsOf(r)' /\ target'[r] = target[r]
        /\ resource'[r] = resource[r]
    BY <1>0, <2>1, RequestKept
  <2> QED BY <1>0, <2>1, <2>2 DEF AuditForAgent
<1>2. ASSUME NEW x \in Resources PROVE SuccessfulReads(x) \subseteq SuccessfulReads(x)'
  BY <1>1 DEF SuccessfulReads
<1>3. OwnerDenials \subseteq OwnerDenials'
  BY <1>1 DEF OwnerDenials
<1>4. ASSUME NEW r \in AuditForAgent' PROVE token'[r] = session
  <2>1. r \in Requests /\ target'[r] = agentMandate /\ KindsOf(r)' # {}
    BY <1>0 DEF AuditForAgent
  <2>2. target[r] = agentMandate /\ token'[r] = token[r]
    BY <1>0, <2>1, RequestKept
  <2> QED BY <2>1, <2>2 DEF Continues, UnderMandate
<1> QED BY <1>1, <1>2, <1>3, <1>4

\* Turn 1 stays proved, a revoked Mandate revoked, and the refusal recorded.
LEMMA PhaseStep ==
  ASSUME DInv, [DemoNext]_<<vars, demoVars>>, Continues, Phase \in TurnOneDone
  PROVE  Advances(Phase, Phase')
<1>0. [Next]_vars /\ IInv /\ DInv' /\ agentMandate' = agentMandate /\ session' = session
  BY DemoInvariantStep DEF DemoNext, DInv, Continues
<1>1. ActiveCredentialMatches /\ MandateStatus \in {"active", "revoked"}
  BY PhaseCases
<1>2. SuccessfulReads("own")' # {} /\ OwnerDenials' # {}
  BY <1>1, QuotedKept DEF ActiveCredentialMatches, CoherentTurnOne, Resources
<1>3. AliceAllow' \in SuccessfulReads("own")' /\ BobDeny' \in OwnerDenials'
  <2>1. (DInv => /\ \A x \in Resources : SuccessfulReads(x) # {} =>
                      First(SuccessfulReads(x)) \in SuccessfulReads(x)
                 /\ OwnerDenials # {} => First(OwnerDenials) \in OwnerDenials)'
    BY Quoted, PTL
  <2> QED BY <1>0, <1>2, <2>1 DEF AliceAllow, BobDeny, Resources
<1>4. token'[AliceAllow'] = session /\ token'[BobDeny'] = session
  BY <1>3, QuotedKept DEF SuccessfulReads, OwnerDenials
<1>5. ActiveCredentialMatches'
  BY <1>0, <1>2, <1>4 DEF ActiveCredentialMatches, CoherentTurnOne, Continues
<1>6. MandateStatus' \in {"active", "revoked"}
  BY Zenon DEF MandateStatus, Continues
<1>7. MandateStatus = "revoked" => MandateStatus' = "revoked"
  <2>1. agentMandate \in Installed
    BY <1>0 DEF IInv, Wiring
  <2>2. records'[agentMandate] = records[agentMandate]
          \/ records'[agentMandate].status = "revoked"
    BY <1>0, <2>1, RecordsStep DEF Advanced
  <2>3. records[agentMandate].status = "revoked" => records'[agentMandate].status = "revoked"
    BY <2>2
  <2>4. MandateStatus = "revoked" <=> records[agentMandate].status = "revoked"
    BY Zenon DEF MandateStatus
  <2>5. MandateStatus' = "revoked" <=> records'[agentMandate'].status = "revoked"
    BY Zenon DEF MandateStatus
  <2> QED BY <1>0, <2>3, <2>4, <2>5
<1>8. LifecycleDenial => LifecycleDenial'
  <2> SUFFICES ASSUME NEW r \in AuditForAgent \cap refusal,
                      {"rejection", "not_attempted"} \subseteq KindsOf(r)
               PROVE  LifecycleDenial'
    BY DEF LifecycleDenial
  <2>1. r \in AuditForAgent' /\ r \in refusal' /\ token'[r] = session /\ r \in Requests
    BY QuotedKept DEF DemoNext, Observe, demoVars, AuditForAgent
  <2>2. {"rejection", "not_attempted"} \subseteq KindsOf(r)'
    BY <1>0, <2>1, RequestKept
  <2> QED BY <1>4, <2>1, <2>2 DEF LifecycleDenial
<1>9. /\ MandateStatus' = "active" => Phase' = "ready_revoke"
      /\ MandateStatus' = "revoked" =>
           Phase' = IF LifecycleDenial' THEN "complete" ELSE "ready_turn_2"
  <2>1. (/\ ActiveCredentialMatches /\ MandateStatus = "active" => Phase = "ready_revoke"
         /\ ActiveCredentialMatches /\ MandateStatus = "revoked" =>
              Phase = IF LifecycleDenial THEN "complete" ELSE "ready_turn_2")'
    BY PhaseCases, PTL
  <2> QED BY <1>5, <2>1
<1>10. CASE MandateStatus' = "active"
  <2>1. Phase = "ready_revoke"
    BY <1>1, <1>7, <1>10, PhaseCases
  <2> QED BY <1>9, <1>10, <2>1 DEF Advances, Rank, TurnOneDone
<1>11. CASE MandateStatus' = "revoked"
  <2>1. Phase = "complete" => Phase' = "complete"
    BY <1>8, <1>9, <1>11, PhaseCases
  <2>2. Phase' \in {"complete", "ready_turn_2"}
    BY <1>9, <1>11
  <2> QED BY <2>1, <2>2 DEF Advances, Rank, TurnOneDone
<1> QED BY <1>6, <1>10, <1>11

\* While the Mandate, the session and both lifetimes last, a proved turn 1 stays proved
\* and the phase never falls back, whatever requests are in flight (deriveDemoProof).
THEOREM PhaseAdvancesHolds == DemoSpec => PhaseAdvances
<1>1. DInv /\ [DemoNext]_<<vars, demoVars>> =>
        [SameStory => Advances(Phase, Phase')]_<<vars, demoVars>>
  <2> SUFFICES ASSUME DInv, [DemoNext]_<<vars, demoVars>>, SameStory, Phase \in TurnOneDone
               PROVE  Advances(Phase, Phase')
    BY DEF Advances
  <2>1. passports'[session] = passports[session]
    <3>1. [Next]_vars /\ IInv /\ session \in 0 .. Len(passports) /\ session # 0
      BY DEF DemoNext, DInv, IInv, Wiring, SameStory
    <3>2. session \in 1 .. Len(passports)
      BY <3>1, PassportsStep
    <3> QED BY <3>1, <3>2, PassportsStep
  <2>2. Continues
    BY <2>1 DEF SameStory, Continues
  <2> QED BY <2>2, PhaseStep
<1> QED BY <1>1, DemoInvariant, PTL DEF DemoSpec, PhaseAdvances
=============================================================================
