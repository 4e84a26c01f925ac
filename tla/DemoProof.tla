----------------------------- MODULE DemoProof ------------------------------
(***************************************************************************)
(* The proof the server shows of its own enforcement: securitySummary      *)
(* derives a phase and a count of reads from the durable events of the     *)
(* Agent's current Mandate, the cached Passport and the Mandate's status.  *)
(* The summary is computed without an await, so it is a state function of  *)
(* Gateway, evaluated here in every state the enforcement path reaches.    *)
(*                                                                         *)
(* The order of the events and the code of a rejection are what the phase  *)
(* adds to Gateway's trails; two history variables record them.  The     *)
(* Agent is the demo Agent, whose principal owns alice-doc-001 ("own") and *)
(* not bob-payroll-001 ("foreign").                                        *)
(***************************************************************************)
EXTENDS Gateway, FiniteSets

\* Bounds of the model: requests that run at once, requests that end without an
\* outcome in the Agent's audit.
CONSTANTS MaxInFlight, MaxSilent
ASSUME DemoAssumption == MaxInFlight \in Nat /\ MaxSilent \in Nat

VARIABLES arrived,   \* requests in the order of their occurredAt
          refusal    \* requests refused with DENY_MANDATE_LIFECYCLE

demoVars == <<arrived, refusal>>

DemoInit == Init /\ arrived = <<>> /\ refusal = {}

\* occurredAt is taken when the request arrives.  (No two requests arrive in one
\* millisecond; a request without a valid Passport leaves no event of the Agent.)
Arrives(r) == pc[r] = "idle" /\ pc'[r] = "verifying"

\* verifyCurrent judges the lifecycle before revision and Passport are compared.
RefusedByLifecycle(r) == /\ pc[r] \in {"verifying", "leased"}
                         /\ pc'[r] = "rejecting"
                         /\ ~Active(seen[r], at[r])

Observe ==
  /\ arrived' = IF \E r \in Requests : Arrives(r)
                  THEN Append(arrived, CHOOSE r \in Requests : Arrives(r)) ELSE arrived
  /\ refusal' = refusal \cup {r \in Requests : RefusedByLifecycle(r)}

Silent == {r \in Requests :
             pc[r] # "idle" /\ (target[r] = None \/ result[r] \in {"503 before", "503 after"})}

DemoNext == /\ Next /\ Observe
            /\ Cardinality((Running \cap Requests)') <= MaxInFlight
            /\ Cardinality(Silent') <= MaxSilent

DemoSpec == DemoInit /\ [][DemoNext]_<<vars, demoVars>>

-----------------------------------------------------------------------------
(* auditForAgent, successfulReadCount and deriveDemoProof *)

AuditOfEveryMandate == {r \in Requests : target[r] # None /\ audit[r] # <<>>}   \* mutant
\* The requests whose decision or rejection names the Agent's current Mandate; a
\* request without a verified Passport names neither an Agent nor a Mandate.
AuditForAgent ==
  {r \in Requests : /\ target[r] = agentMandate
                    /\ KindsOf(r) \cap {"allow", "deny", "rejection"} # {}}

SuccessfulReads(x) ==
  {r \in AuditForAgent : resource[r] = x /\ {"allow", "succeeded"} \subseteq KindsOf(r)}
SuccessfulReadCount(x) == Cardinality(SuccessfulReads(x))

OwnerDenials ==
  {r \in AuditForAgent : resource[r] = "foreign" /\ {"deny", "not_attempted"} \subseteq KindsOf(r)}

\* listForAgent sorts by occurredAt, find takes the first.
First(S) == arrived[CHOOSE i \in 1 .. Len(arrived) :
                      arrived[i] \in S /\ \A j \in 1 .. i - 1 : arrived[j] \notin S]

AliceAllow == First(SuccessfulReads("own"))
BobDeny    == First(OwnerDenials)

AnyTurnOne == SuccessfulReads("own") # {} /\ OwnerDenials # {}      \* mutant
EveryReadSettled ==                                                 \* mutant
  /\ AnyTurnOne /\ token[AliceAllow] = token[BobDeny]
  /\ \A r \in AuditForAgent :
       resource[r] = "own" /\ "allow" \in KindsOf(r) => "succeeded" \in KindsOf(r)
\* One Passport read its own document and was denied the foreign one.
CoherentTurnOne == /\ SuccessfulReads("own") # {}
                   /\ OwnerDenials # {}
                   /\ token[AliceAllow] = token[BobDeny]

ActiveCredentialMatches == /\ session # 0 /\ now < passports[session].exp
                           /\ CoherentTurnOne /\ session = token[AliceAllow]

LifecycleDenial ==
  \E r \in AuditForAgent \cap refusal :
     /\ {"rejection", "not_attempted"} \subseteq KindsOf(r)
     /\ token[r] = token[AliceAllow]

\* effectiveLifecycleStatus
MandateStatus == IF records[agentMandate].status = "revoked" THEN "revoked"
                 ELSE IF now < records[agentMandate].until THEN "active" ELSE "expired"

Phase ==
  CASE MandateStatus = "active" /\ ActiveCredentialMatches -> "ready_revoke"
    [] MandateStatus = "active" /\ AuditForAgent = {} -> "ready_turn_1"
    [] MandateStatus = "revoked" /\ ActiveCredentialMatches ->
         IF LifecycleDenial THEN "complete" ELSE "ready_turn_2"
    [] OTHER -> "invalid"
-----------------------------------------------------------------------------
(* What the summary promises to who looks at it *)

TurnOneDone == {"ready_revoke", "ready_turn_2", "complete"}

\* What the summary shows is what happened, and all of it under the Mandate the
\* Agent has now: before turn 1 nothing was read; after it the live Passport has read
\* its own document and been denied the foreign one, which nobody read; a complete
\* proof has that same Passport refused under the revoked Mandate without a read; and
\* a read is counted exactly when its caller got the content (securitySummary).
UnderMandate == {r \in Requests : target[r] = agentMandate}
UnderSession == {r \in UnderMandate : token[r] = session /\ now < passports[session].exp}
SummaryIsReal ==
  LET phase == Phase
  IN  /\ phase = "ready_turn_1" => \A r \in UnderMandate : reads[r] = <<>>
      /\ phase \in TurnOneDone =>
           /\ \E r \in UnderSession : resource[r] = "own" /\ reads[r] = <<"ok">>
           /\ \E r \in UnderSession : resource[r] = "foreign" /\ result[r] = "403"
           /\ \A r \in Requests : resource[r] = "foreign" => reads[r] = <<>>
      /\ phase = "complete" =>
           /\ \A m \in Installed : ~Active(records[m], now)
           /\ \E r \in UnderSession : result[r] = "403" /\ reads[r] = <<>> /\ r \in refusal
      /\ SuccessfulReadCount("foreign") = 0
      /\ SuccessfulReadCount("own") = Cardinality({r \in UnderMandate : result[r] = "200"})

\* "ready_turn_1 -> ready_revoke -> ready_turn_2 -> complete" (docs/ARCHITECTURE.md):
\* once turn 1 is proved the phase only advances, whatever requests are still in
\* flight, while Mandate, session and both lifetimes last and as long as no other
\* Passport was ever presented under the Mandate.
Rank == [ready_revoke |-> 1, ready_turn_2 |-> 2, complete |-> 3]
Advances(from, to) == from \in TurnOneDone => to \in TurnOneDone /\ Rank[to] >= Rank[from]
SameStory == /\ session # 0 /\ session' = session /\ agentMandate' = agentMandate
             /\ \A r \in UnderMandate : token[r] = session
             /\ now' < passports[session].exp
             /\ MandateStatus' # "expired"
PhaseAdvances == [][SameStory => Advances(Phase, Phase')]_<<vars, demoVars>>
=============================================================================
