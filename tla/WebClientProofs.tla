--------------------------- MODULE WebClientProofs ---------------------------
(***************************************************************************)
(* What the tab shows is of the selected Agent, for any number of Agents,  *)
(* Runs, overlapping loads and refreshes, and whatever is lost or late.    *)
(* A Run in progress that it shows is being polled, while nothing fails.   *)
(***************************************************************************)
EXTENDS WebClient, TLAPS

-----------------------------------------------------------------------------
(* The inductive invariant *)

\* Where the callbacks may be.
PlaceNames == {"idle", "loading", "failed", "get", "refresh", "lastRefresh", "final",
               "post", "polling", "recover", "created", "changed", "dashboard",
               "signIn", "signOut", "create", "save", "stop", "start", "delete",
               "revoke", "rehearse", "send"}
Place == [at : PlaceNames, for : Nat]
Places == [Procs -> Place]

TypeOK ==
  /\ pc \in Places
  /\ selectedId \in Nat
  /\ lastRun \in [Agents -> Nat]

\* The requests a callback may wait for where it is.
Expected(p) ==
  CASE p[1] = "poll" -> {"run", "evidence", "agents"}
    [] p[1] = "send" -> {"post", "evidence", "agents"}
    [] OTHER -> IF pc[p] = Idle THEN {}
                ELSE IF p[1] = "load" THEN {"evidence", "runs"}
                ELSE IF p[1] = "timer" \/ At(p, {"refresh"}) THEN {"evidence"}
                ELSE IF At(p, {"created", "changed", "dashboard"}) THEN {"agents"}
                ELSE {"post"}

\* What a callback is told is about its Agent.
AnswerOk(p, k) ==
  LET x == answer[<<p, k>>] IN
  /\ k = "evidence" => x.agent = AgentOf(p)
  /\ k = "run" => x.agent = AgentOf(p)
  /\ k = "runs" => x = Nothing \/ x.agent = AgentOf(p)
  /\ k = "post" /\ p[1] = "send" => x.agent = p[2] /\ x.run \in Nat

\* A callback waits only for what it has asked for; one that changes its Agent has
\* each request in one place at most.
ProcOk(p) ==
  /\ \A k : Awaits(p, k) => k \in Expected(p)
  /\ p[1] \notin {"poll", "send"} =>
       \A k : /\ <<p, k>> \in sent => ~Arrived(p, k) /\ <<p, k>> \notin rejected
              /\ <<p, k>> \in rejected => ~Arrived(p, k)
  /\ \A k : Arrived(p, k) => AnswerOk(p, k)

IInv == TypeOK /\ ShownBelongsToSelected /\ \A p \in Procs : ProcOk(p)

-----------------------------------------------------------------------------
(* Callbacks and their requests *)

LEMMA ProcFacts ==
  ASSUME NEW p \in Procs
  PROVE  /\ p[1] \in {"load", "timer", "click", "send", "poll"}
         /\ p[1] \in {"send", "poll"} => p[2] \in Agents
         /\ p[1] = "load" => \E l \in Loads : p = Load(l)
         /\ p[1] = "click" => \E s \in Slots : p = Click(s)
         /\ p[1] = "timer" => \E t \in Timers : p = Timer(t)
         /\ p[1] = "send" => p = Send(p[2])
BY DEF Procs, Load, Timer, Click, Send, Poll

LEMMA ProcNames ==
  /\ \A l \in Loads : Load(l) \in Procs
  /\ \A s \in Slots : Click(s) \in Procs
  /\ \A a \in Agents : Send(a) \in Procs
  /\ \A t \in Timers : Timer(t) \in Procs
  /\ \A l : Load(l)[1] = "load"
  /\ \A s : Click(s)[1] = "click"
  /\ \A a : Send(a)[1] = "send" /\ Send(a)[2] = a
  /\ \A t : Timer(t)[1] = "timer"
  /\ \A a, n : Poll(a, n)[1] = "poll" /\ Poll(a, n)[2] = a
BY DEF Procs, Load, Timer, Click, Send, Poll

LEMMA Pairs ==
  /\ \A p, q, k, j : <<p, k>> = <<q, j>> <=> p = q /\ k = j
  /\ \A p, q, k, ks : <<q, k>> \in {p} \X ks <=> p = q /\ k \in ks
<1>1. \A p, q, k, j : <<p, k>> = <<q, j>> <=> p = q /\ k = j
  OBVIOUS
<1>2. \A p, q, k, ks : <<q, k>> \in {p} \X ks <=> p = q /\ k \in ks
  OBVIOUS
<1> QED BY <1>1, <1>2

LEMMA WithoutFacts ==
  ASSUME NEW p, NEW ks
  PROVE  /\ \A q, k : <<q, k>> \in DOMAIN Without(p, ks) <=>
                        <<q, k>> \in DOMAIN answer /\ ~(q = p /\ k \in ks)
         /\ \A x \in DOMAIN Without(p, ks) : Without(p, ks)[x] = answer[x]
<1>1. /\ DOMAIN Without(p, ks) = DOMAIN answer \ ({p} \X ks)
      /\ \A x \in DOMAIN Without(p, ks) : Without(p, ks)[x] = answer[x]
  BY DEF Without, Restrict
<1> QED BY <1>1, Pairs

LEMMA WithFacts ==
  ASSUME NEW p, NEW k, NEW result
  PROVE  /\ \A q, j : <<q, j>> \in DOMAIN With(p, k, result) <=>
                        <<q, j>> \in DOMAIN answer \/ (q = p /\ j = k)
         /\ With(p, k, result)[<<p, k>>] = result
         /\ \A x \in DOMAIN answer : x # <<p, k>> => With(p, k, result)[x] = answer[x]
<1>1. /\ DOMAIN With(p, k, result) = DOMAIN answer \cup {<<p, k>>}
      /\ With(p, k, result)[<<p, k>>] = result
      /\ \A x \in DOMAIN answer : x # <<p, k>> => With(p, k, result)[x] = answer[x]
  BY DEF With
<1> QED BY <1>1, Pairs

\* A callback that talks about one Agent, whatever it is at.
Fixed(q) == q[1] \in {"poll", "send"}

\* A callback keeps its part of the invariant while it may wait for the same requests
\* about the same Agent, and nothing new is refused or arrives for it.
LEMMA Keeps ==
  ASSUME NEW q, ProcOk(q), Expected(q)' = Expected(q), AgentOf(q)' = AgentOf(q),
         \A k : <<q, k>> \in sent' =>
                  \/ <<q, k>> \in sent
                  \/ Fixed(q) /\ k \in Expected(q),
         \A k : <<q, k>> \in rejected' => <<q, k>> \in rejected,
         \A k : <<q, k>> \in DOMAIN answer' =>
                  <<q, k>> \in DOMAIN answer /\ answer'[<<q, k>>] = answer[<<q, k>>]
  PROVE  ProcOk(q)'
<1>2. \A k : Awaits(q, k)' => k \in Expected(q)'
  BY DEF ProcOk, Awaits, Arrived
<1>3. q[1] \notin {"poll", "send"} =>
        \A k : /\ <<q, k>> \in sent' => ~Arrived(q, k)' /\ <<q, k>> \notin rejected'
               /\ <<q, k>> \in rejected' => ~Arrived(q, k)'
  BY DEF ProcOk, Arrived, Fixed
<1>4. ASSUME NEW k, Arrived(q, k)' PROVE AnswerOk(q, k)'
  <2>1. AnswerOk(q, k) /\ answer'[<<q, k>>] = answer[<<q, k>>]
    BY <1>4 DEF ProcOk, Arrived
  <2> QED BY <2>1 DEF AnswerOk
<1> QED BY <1>2, <1>3, <1>4 DEF ProcOk

\* No answer arrives, nothing fails; at most answers are used and failures handled.
Quiet ==
  /\ rejected' \subseteq rejected
  /\ answer' = answer \/ \E p, ks : answer' = Without(p, ks)

\* What q asks for in this step is what it may ask for anyway.
AsksFreely(q) ==
  \A k : <<q, k>> \in sent' => \/ <<q, k>> \in sent
                               \/ Fixed(q) /\ k \in Expected(q)

\* A callback that stays where it is, or talks about one Agent, keeps its part of the
\* invariant in a step of the tab.
LEMMA Stays ==
  ASSUME NEW q, ProcOk(q), Quiet, AsksFreely(q), pc'[q] = pc[q] \/ Fixed(q)
  PROVE  ProcOk(q)'
<1>1. Expected(q)' = Expected(q) /\ AgentOf(q)' = AgentOf(q)
  BY DEF Fixed, Expected, AgentOf, At
<1>2. \A k : <<q, k>> \in DOMAIN answer' =>
               <<q, k>> \in DOMAIN answer /\ answer'[<<q, k>>] = answer[<<q, k>>]
  <2>1. CASE answer' = answer
    BY <2>1
  <2>2. CASE \E p, ks : answer' = Without(p, ks)
    <3>1. PICK p, ks : answer' = Without(p, ks)
      BY <2>2
    <3> QED BY <3>1, WithoutFacts
  <2> QED BY <2>1, <2>2 DEF Quiet
<1> QED BY <1>1, <1>2, Keeps DEF Quiet, AsksFreely

\* A callback that waits for nothing keeps it too.
LEMMA WaitsForNothing ==
  ASSUME NEW q, \A k : ~Awaits(q, k)'
  PROVE  ProcOk(q)'
BY DEF ProcOk, Awaits, Arrived

\* A callback that has just asked keeps it.
LEMMA HasAsked ==
  ASSUME NEW q, \A k : <<q, k>> \in sent' => k \in Expected(q)',
         \A k : <<q, k>> \notin rejected' /\ ~Arrived(q, k)'
  PROVE  ProcOk(q)'
BY DEF ProcOk, Awaits, Arrived

-----------------------------------------------------------------------------
(* Steps that leave what is shown and what is asked alone *)

LEMMA NothingMoves ==
  ASSUME IInv, UNCHANGED <<pc, selectedId, auditEvents, activeRun, sent, answer, rejected>>,
         lastRun' \in [Agents -> Nat]
  PROVE  IInv'
<1>1. TypeOK' /\ ShownBelongsToSelected'
  BY DEF IInv, TypeOK, ShownBelongsToSelected
<1>2. \A q \in Procs : ProcOk(q)'
  <2>1. Quiet /\ \A q : AsksFreely(q)
    BY DEF Quiet, AsksFreely
  <2> QED BY <2>1, Stays DEF IInv
<1> QED BY <1>1, <1>2 DEF IInv

\* A request that is handled: its answer is given.
LEMMA Answered ==
  ASSUME IInv, NEW p \in Procs, NEW k, NEW result, <<p, k>> \in sent,
         UNCHANGED <<pc, selectedId, auditEvents, activeRun, rejected>>,
         lastRun' \in [Agents -> Nat],
         sent' = sent \ {<<p, k>>}, answer' = With(p, k, result),
         AnswerOk(p, k)'
  PROVE  IInv'
<1>1. TypeOK' /\ ShownBelongsToSelected'
  BY DEF IInv, TypeOK, ShownBelongsToSelected
<1>2. ASSUME NEW q \in Procs PROVE ProcOk(q)'
  <2>0. ProcOk(q)
    BY DEF IInv
  <2>1. Expected(q)' = Expected(q) /\ AgentOf(q)' = AgentOf(q)
    BY DEF Expected, AgentOf, At
  <2>2. \A j : /\ <<q, j>> \in sent' <=> <<q, j>> \in sent /\ ~(q = p /\ j = k)
               /\ Arrived(q, j)' <=> Arrived(q, j) \/ (q = p /\ j = k)
    BY WithFacts, Pairs DEF Arrived
  <2>3. \A j : Awaits(q, j)' => Awaits(q, j)
    BY <2>2 DEF Awaits
  <2>4. \A j : Awaits(q, j)' => j \in Expected(q)'
    BY <2>0, <2>1, <2>3 DEF ProcOk
  <2>5. q[1] \notin {"poll", "send"} =>
          \A j : /\ <<q, j>> \in sent' => ~Arrived(q, j)' /\ <<q, j>> \notin rejected'
                 /\ <<q, j>> \in rejected' => ~Arrived(q, j)'
    BY <2>0, <2>2 DEF ProcOk
  <2>6. ASSUME NEW j, Arrived(q, j)' PROVE AnswerOk(q, j)'
    <3>1. CASE q = p /\ j = k
      BY <3>1
    <3>2. CASE ~(q = p /\ j = k)
      <4>1. Arrived(q, j) /\ answer'[<<q, j>>] = answer[<<q, j>>]
        BY <2>2, <2>6, <3>2, WithFacts, Pairs DEF Arrived
      <4>2. AnswerOk(q, j)
        BY <2>0, <4>1 DEF ProcOk
      <4> QED BY <2>1, <4>1, <4>2 DEF AnswerOk
    <3> QED BY <3>1, <3>2
  <2> QED BY <2>4, <2>5, <2>6 DEF ProcOk
<1> QED BY <1>1, <1>2 DEF IInv

\* A request that is refused or lost, or whose answer is lost.
LEMMA Failed ==
  ASSUME IInv, NEW p \in Procs, NEW k, <<p, k>> \in sent \/ Arrived(p, k),
         UNCHANGED <<pc, selectedId, auditEvents, activeRun, lastRun>>,
         sent' = sent \ {<<p, k>>}, rejected' = rejected \cup {<<p, k>>},
         \/ answer' = Without(p, {k})
         \/ answer' = answer /\ <<p, k>> \in sent
  PROVE  IInv'
<1>1. TypeOK' /\ ShownBelongsToSelected'
  BY DEF IInv, TypeOK, ShownBelongsToSelected
<1>2. ASSUME NEW q \in Procs PROVE ProcOk(q)'
  <2>0. ProcOk(q)
    BY DEF IInv
  <2>1. Expected(q)' = Expected(q) /\ AgentOf(q)' = AgentOf(q)
    BY DEF Expected, AgentOf, At
  <2>2. \A j : /\ <<q, j>> \in sent' <=> <<q, j>> \in sent /\ ~(q = p /\ j = k)
               /\ <<q, j>> \in rejected' <=> <<q, j>> \in rejected \/ (q = p /\ j = k)
    BY Pairs
  <2>3. \A j : Arrived(q, j)' => Arrived(q, j) /\ answer'[<<q, j>>] = answer[<<q, j>>]
    BY WithoutFacts DEF Arrived
  <2>4. Arrived(p, k)' => answer' = answer /\ <<p, k>> \in sent
    BY WithoutFacts DEF Arrived
  <2>5. \A j : Awaits(q, j)' => Awaits(q, j)
    BY <2>2, <2>3 DEF Awaits
  <2>6. \A j : Awaits(q, j)' => j \in Expected(q)'
    BY <2>0, <2>1, <2>5 DEF ProcOk
  <2>7. q[1] \notin {"poll", "send"} =>
          \A j : /\ <<q, j>> \in sent' => ~Arrived(q, j)' /\ <<q, j>> \notin rejected'
                 /\ <<q, j>> \in rejected' => ~Arrived(q, j)'
    BY <2>0, <2>2, <2>3, <2>4 DEF ProcOk
  <2>8. \A j : Arrived(q, j)' => AnswerOk(q, j)'
    <3>1. \A j : Arrived(q, j)' => AnswerOk(q, j)
      BY <2>0, <2>3 DEF ProcOk
    <3> QED BY <2>1, <2>3, <3>1 DEF AnswerOk
  <2> QED BY <2>6, <2>7, <2>8 DEF ProcOk
<1> QED BY <1>1, <1>2 DEF IInv

-----------------------------------------------------------------------------
(* The server *)

LEMMA AnswerReadKeeps ==
  ASSUME IInv, NEW p \in Procs, NEW k \in Reads, AnswerRead(p, k)
  PROVE  IInv'
<1> DEFINE a == AgentOf(p)
<1>0. /\ <<p, k>> \in sent /\ sent' = sent \ {<<p, k>>}
      /\ UNCHANGED <<server, tab, pc, expected, bounds>>
  BY DEF AnswerRead
<1>1. /\ UNCHANGED <<pc, selectedId, auditEvents, activeRun, lastRun>>
      /\ lastRun' \in [Agents -> Nat]
  BY <1>0 DEF IInv, TypeOK, server, tab, account, evidence
<1>2. CASE live /\ (k # "agents" => status[a] \notin Absent)
  <2> DEFINE result == CASE k = "evidence" -> Evidence(a)
                         [] k = "runs" -> LatestRun(a)
                         [] k = "run" -> RunView(a, p[3])
                         [] k = "agents" -> status
  <2>1. answer' = With(p, k, result) /\ rejected' = rejected
    BY <1>2 DEF AnswerRead
  <2>2. AnswerOk(p, k)'
    <3>1. answer'[<<p, k>>] = result
      <4> HIDE DEF result
      <4> QED BY <2>1, WithFacts
    <3>2. AgentOf(p)' = a
      BY <1>1 DEF AgentOf
    <3>3. k = "evidence" => result.agent = a
      BY DEF Evidence
    <3>4. k = "runs" => result = Nothing \/ result.agent = a
      BY DEF LatestRun, RunView
    <3>5. k = "run" => result.agent = a
      BY DEF RunView
    <3>6. k # "post"
      BY DEF Reads
    <3> HIDE DEF result, a
    <3> QED BY <3>1, <3>2, <3>3, <3>4, <3>5, <3>6 DEF AnswerOk
  <2> HIDE DEF result
  <2> QED BY <1>0, <1>1, <2>1, <2>2, Answered
<1>3. CASE ~(live /\ (k # "agents" => status[a] \notin Absent))
  <2>1. rejected' = rejected \cup {<<p, k>>} /\ answer' = answer
    BY <1>3 DEF AnswerRead
  <2> QED BY <1>0, <1>1, <2>1, Failed
<1> QED BY <1>2, <1>3

\* A mutating request other than a message is handled or refused.
LEMMA ClickServed ==
  ASSUME IInv, NEW p \in Procs, p[1] = "click", Serve(p),
         \/ lastRun' = lastRun /\ \E result : Accept(p, result)
         \/ Refuse(p)
  PROVE  IInv'
<1>0. /\ <<p, "post">> \in sent /\ sent' = sent \ {<<p, "post">>}
      /\ UNCHANGED <<pc, selectedId, auditEvents, activeRun>>
  BY DEF Serve, tab, account, evidence
<1>1. CASE lastRun' = lastRun /\ \E result : Accept(p, result)
  <2>1. PICK result : Accept(p, result)
    BY <1>1
  <2>2. answer' = With(p, "post", result) /\ rejected' = rejected
    BY <2>1 DEF Accept
  <2>3. AnswerOk(p, "post")'
    BY DEF AnswerOk
  <2>4. lastRun' \in [Agents -> Nat]
    BY <1>1 DEF IInv, TypeOK
  <2> QED BY <1>0, <2>2, <2>3, <2>4, Answered
<1>2. CASE Refuse(p)
  <2>1. rejected' = rejected \cup {<<p, "post">>} /\ answer' = answer /\ lastRun' = lastRun
    BY <1>2 DEF Refuse, server
  <2> QED BY <1>0, <2>1, Failed
<1> QED BY <1>1, <1>2

LEMMA ServeClickKeeps ==
  ASSUME IInv, NEW p \in Procs, p[1] = "click",
         ServeSession(p) \/ ServeLifecycle(p) \/ ServeRevoke(p) \/ ServeRehearse(p)
  PROVE  IInv'
<1>1. Serve(p)
  BY DEF ServeSession, ServeLifecycle, ServeRevoke, ServeRehearse
<1>2. (lastRun' = lastRun /\ \E result : Accept(p, result)) \/ Refuse(p)
  <2>1. CASE ServeSession(p)
    BY <2>1 DEF ServeSession
  <2>2. CASE ServeLifecycle(p)
    BY <2>2 DEF ServeLifecycle
  <2>3. CASE ServeRevoke(p)
    BY <2>3 DEF ServeRevoke
  <2>4. CASE ServeRehearse(p)
    BY <2>4 DEF ServeRehearse
  <2> QED BY <2>1, <2>2, <2>3, <2>4
<1> QED BY <1>1, <1>2, ClickServed

LEMMA ServeSendKeeps ==
  ASSUME IInv, NEW a \in Agents, ServeSend(a)
  PROVE  IInv'
<1> DEFINE p == Send(a)
           result == [agent |-> a, run |-> lastRun[a] + 1, open |-> TRUE]
<1>0. /\ p \in Procs /\ p[1] = "send" /\ p[2] = a
      /\ <<p, "post">> \in sent /\ sent' = sent \ {<<p, "post">>}
      /\ UNCHANGED <<pc, selectedId, auditEvents, activeRun>>
  BY ProcNames DEF ServeSend, Serve, tab, account, evidence
<1>1. CASE live /\ status[a] = "ready"
  <2>1. /\ Accept(p, result)
        /\ lastRun' = [lastRun EXCEPT ![a] = @ + 1]
    BY <1>1 DEF ServeSend
  <2>2. lastRun' \in [Agents -> Nat] /\ lastRun[a] + 1 \in Nat
    BY <2>1 DEF IInv, TypeOK
  <2>3. answer' = With(p, "post", result) /\ rejected' = rejected
    BY <2>1 DEF Accept
  <2>4. answer'[<<p, "post">>] = result
    BY <2>3, WithFacts
  <2>5. result.agent = a /\ result.run \in Nat
    BY <2>2
  <2>6. AnswerOk(p, "post")'
    <3> HIDE DEF result
    <3> QED BY <1>0, <2>4, <2>5 DEF AnswerOk
  <2> HIDE DEF p, result
  <2> QED BY <1>0, <2>2, <2>3, <2>6, Answered
<1>2. CASE ~(live /\ status[a] = "ready")
  <2>1. rejected' = rejected \cup {<<p, "post">>} /\ answer' = answer /\ lastRun' = lastRun
    BY <1>2 DEF ServeSend, Refuse, server
  <2> HIDE DEF p
  <2> QED BY <1>0, <2>1, Failed
<1> QED BY <1>1, <1>2

LEMMA WorldKeeps ==
  ASSUME IInv, World
  PROVE  IInv'
<1>0. lastRun \in [Agents -> Nat]
  BY DEF IInv, TypeOK
<1>1. CASE \E a \in Agents : EventRecorded(a) \/ RunEnds(a)
  <2>1. UNCHANGED <<pc, lastRun, tab, sent, answer, rejected>>
    BY <1>1 DEF EventRecorded, RunEnds
  <2> QED BY <1>0, <2>1, NothingMoves DEF tab, account, evidence
<1>2. CASE SessionExpires
  <2>1. UNCHANGED <<pc, lastRun, tab, sent, answer, rejected>>
    BY <1>2 DEF SessionExpires
  <2> QED BY <1>0, <2>1, NothingMoves DEF tab, account, evidence
<1>3. ASSUME NEW p \in Procs, NEW k \in Reads \cup {"post"}, NetworkFails(p, k) PROVE IInv'
  BY <1>3, Failed DEF NetworkFails, server, tab, account, evidence
<1> QED BY <1>1, <1>2, <1>3 DEF World

-----------------------------------------------------------------------------
(* The tab: what the callbacks share *)

LEMMA IdlePlace == Idle \in Place
BY DEF Idle, Place, PlaceNames, NoAgent

\* A callback is put at a place, with the Agent or Run it is for; it goes on to a place.
Puts(f, p, x) == [f EXCEPT ![p] = x]
Goes(f, p, place) == [f EXCEPT ![p].at = place]

LEMMA PutAt ==
  ASSUME NEW f \in Places, NEW p \in Procs, NEW x \in Place
  PROVE  /\ Puts(f, p, x) \in Places
         /\ Puts(f, p, x)[p] = x
         /\ \A q \in Procs : q # p => Puts(f, p, x)[q] = f[q]
BY DEF Places, Puts

LEMMA GoesOn ==
  ASSUME NEW f \in Places, NEW p \in Procs, NEW place \in PlaceNames
  PROVE  /\ Goes(f, p, place) \in Places
         /\ Goes(f, p, place)[p].at = place
         /\ Goes(f, p, place)[p].for = f[p].for
         /\ \A q \in Procs : q # p => Goes(f, p, place)[q] = f[q]
<1> DEFINE x == [f[p] EXCEPT !.at = place]
<1>1. f[p] \in Place
  BY DEF Places
<1>2. x \in Place /\ x.at = place /\ x.for = f[p].for
  BY <1>1 DEF Place
<1>3. Goes(f, p, place) = Puts(f, p, x)
  BY DEF Goes, Puts
<1> HIDE DEF x
<1> QED BY <1>2, <1>3, PutAt

LEMMA GoesTo ==
  ASSUME NEW f \in Places, NEW p \in Procs, NEW place \in PlaceNames
  PROVE  /\ Goes(f, p, place) \in Places
         /\ \A q \in Procs : q # p => Goes(f, p, place)[q] = f[q]
BY GoesOn

LEMMA ExpectedNames ==
  ASSUME NEW p
  PROVE  Expected(p) \subseteq Reads \cup {"post"}
BY DEF Expected, Reads

\* A step of the tab in which every callback may go on as before.
LEMMA FreeStep ==
  ASSUME IInv, TypeOK', ShownBelongsToSelected', Quiet,
         \A q \in Procs : AsksFreely(q) /\ (pc'[q] = pc[q] \/ Fixed(q))
  PROVE  IInv'
BY Stays DEF IInv

\* A step of the tab for callback p.
LEMMA OwnStep ==
  ASSUME IInv, TypeOK', ShownBelongsToSelected', Quiet, NEW p \in Procs,
         \A q \in Procs \ {p} : AsksFreely(q) /\ (pc'[q] = pc[q] \/ Fixed(q)),
         ProcOk(p)'
  PROVE  IInv'
BY Stays DEF IInv

LEMMA AsksNothing ==
  ASSUME sent' = sent
  PROVE  \A q : AsksFreely(q)
BY DEF AsksFreely

LEMMA AsksOne ==
  ASSUME NEW p, NEW k, sent' = sent \cup {<<p, k>>}
  PROVE  /\ \A q : q # p => AsksFreely(q)
         /\ Fixed(p) /\ k \in Expected(p) => \A q : AsksFreely(q)
         /\ \A j : <<p, j>> \in sent' => <<p, j>> \in sent \/ j = k
<1>1. \A q, j : <<q, j>> \in sent' => <<q, j>> \in sent \/ (q = p /\ j = k)
  BY Pairs
<1> QED BY <1>1 DEF AsksFreely

LEMMA AsksSome ==
  ASSUME NEW p, NEW ks, sent' = sent \cup ({p} \X ks)
  PROVE  /\ \A q : q # p => AsksFreely(q)
         /\ Fixed(p) /\ ks \subseteq Expected(p) => \A q : AsksFreely(q)
         /\ \A j : <<p, j>> \in sent' => <<p, j>> \in sent \/ j \in ks
<1>1. \A q, j : <<q, j>> \in sent' => <<q, j>> \in sent \/ (q = p /\ j \in ks)
  BY Pairs
<1> QED BY <1>1 DEF AsksFreely

\* A new evidence is of the selected Agent.
LEMMA EvidenceShown ==
  ASSUME IInv, NEW p \in Procs, EvidenceArrives(p)
  PROVE  /\ ShownBelongsToSelected'
         /\ Quiet
         /\ answer' = Without(p, {"evidence"}) /\ rejected' = rejected
         /\ selectedId' = selectedId /\ lastRun' = lastRun
<1>1. /\ answer' = Without(p, {"evidence"}) /\ rejected' = rejected
      /\ selectedId' = selectedId /\ lastRun' = lastRun /\ activeRun' = activeRun
  BY DEF EvidenceArrives, account, server
<1>2. Quiet
  BY <1>1 DEF Quiet
<1>3. answer[<<p, "evidence">>].agent = AgentOf(p)
  BY DEF EvidenceArrives, IInv, ProcOk, AnswerOk
<1>4. \/ auditEvents' = auditEvents
      \/ auditEvents' = answer[<<p, "evidence">>] /\ selectedId = AgentOf(p)
  BY DEF EvidenceArrives, evidence
<1>5. ShownBelongsToSelected'
  BY <1>1, <1>3, <1>4 DEF IInv, ShownBelongsToSelected
<1> QED BY <1>1, <1>2, <1>5

LEMMA CaughtFacts ==
  ASSUME NEW p, ProcOk(p), Caught(p)
  PROVE  /\ rejected' \subseteq rejected
         /\ \A k : <<p, k>> \notin rejected'
         /\ \E k : <<p, k>> \in rejected
<1>1. rejected' = rejected \ ({p} \X Rejections(p)) /\ Rejections(p) # {}
  BY DEF Caught
<1>2. \A k : <<p, k>> \in rejected => k \in Rejections(p)
  BY ExpectedNames DEF ProcOk, Awaits, Rejections
<1>3. \A k : k \in Rejections(p) => <<p, k>> \in rejected
  BY DEF Rejections
<1> QED BY <1>1, <1>2, <1>3, Pairs

\* Starting to poll a Run moves nothing but its poller.
LEMMA StartPollFacts ==
  ASSUME NEW r, NEW pcs \in Places, StartPoll(r, pcs)
  PROVE  /\ pc' \in Places
         /\ \A q : AsksFreely(q)
         /\ \A q \in Procs : pc'[q] = pcs[q] \/ Fixed(q)
         /\ \A q, k : q[1] # "poll" => (<<q, k>> \in sent' <=> <<q, k>> \in sent)
<1> DEFINE poller == Poll(r.agent, r.run)
<1>0. poller[1] = "poll" /\ Fixed(poller) /\ "run" \in Expected(poller)
  BY ProcNames DEF Fixed, Expected
<1>1. CASE PollingNow(r)
  <2>1. pc' = pcs /\ sent' = sent
    BY <1>1 DEF StartPoll
  <2> QED BY <2>1, AsksNothing
<1>2. CASE ~PollingNow(r)
  <2>1. /\ pc' = Goes(pcs, poller, "get")
        /\ sent' = sent \cup {<<poller, "run">>}
    BY <1>2 DEF StartPoll, Goes
  <2> HIDE DEF poller
  <2>2. pc' \in Places /\ \A q \in Procs : pc'[q] = pcs[q] \/ q = poller
    <3>0. "get" \in PlaceNames
      BY DEF PlaceNames
    <3>1. CASE poller \in Procs
      BY <2>1, <3>0, <3>1, GoesTo
    <3>2. CASE poller \notin Procs
      <4>1. pc' = pcs
        BY <2>1, <3>2 DEF Places, Goes
      <4> QED BY <4>1
    <3> QED BY <3>1, <3>2
  <2>3. \A q : AsksFreely(q)
    BY <1>0, <2>1, AsksOne
  <2>4. \A q, k : q[1] # "poll" => (<<q, k>> \in sent' <=> <<q, k>> \in sent)
    BY <1>0, <2>1, Pairs
  <2> QED BY <1>0, <2>2, <2>3, <2>4
<1> QED BY <1>1, <1>2

-----------------------------------------------------------------------------
(* pollRun and sendMessage *)

LEMMA PollAnsweredKeeps ==
  ASSUME IInv, NEW p \in Procs, p[1] = "poll", PollAnswered(p)
  PROVE  IInv'
<1>0. /\ UNCHANGED <<selectedId, auditEvents, lastRun, rejected>>
      /\ answer' = Without(p, {"run"}) /\ sent' = sent \cup {<<p, "evidence">>}
  BY DEF PollAnswered, server, account, evidence
<1>1. Quiet
  BY <1>0 DEF Quiet
<1>2. pc' \in Places /\ \A q \in Procs : q # p => pc'[q] = pc[q]
  <2>1. PICK place \in {"refresh", "lastRefresh"} : pc' = Goes(pc, p, place)
    BY DEF PollAnswered, Goto, Goes
  <2>2. place \in PlaceNames
    BY DEF PlaceNames
  <2> QED BY <2>1, <2>2, GoesTo DEF IInv, TypeOK
<1>3. \A q : AsksFreely(q)
  BY <1>0, AsksOne DEF Fixed, Expected
<1>4. ShownBelongsToSelected'
  <2>1. answer[<<p, "run">>].agent = AgentOf(p)
    BY DEF PollAnswered, IInv, ProcOk, AnswerOk
  <2>2. activeRun' = IF selectedId = AgentOf(p) THEN answer[<<p, "run">>] ELSE activeRun
    BY DEF PollAnswered
  <2> QED BY <1>0, <2>1, <2>2 DEF IInv, ShownBelongsToSelected
<1>5. TypeOK'
  BY <1>0, <1>2 DEF IInv, TypeOK
<1> QED BY <1>1, <1>2, <1>3, <1>4, <1>5, FreeStep DEF Fixed

LEMMA PollEvidenceKeeps ==
  ASSUME IInv, NEW p \in Procs, p[1] = "poll", PollEvidence(p)
  PROVE  IInv'
<1>1. EvidenceArrives(p)
  BY DEF PollEvidence
<1>2. /\ pc' \in Places /\ \A q \in Procs : q # p => pc'[q] = pc[q]
      /\ \A q : AsksFreely(q)
  <2>0. /\ pc \in Places
        /\ Fixed(p) /\ Expected(p) = {"run", "evidence", "agents"}
    BY DEF Fixed, Expected, IInv, TypeOK
  <2>1. CASE At(p, {"refresh"})
    <3>0. "get" \in PlaceNames
      BY DEF PlaceNames
    <3>1. pc' = Goes(pc, p, "get") /\ sent' = sent \cup {<<p, "run">>}
      BY <2>1 DEF PollEvidence, At, Goto, Goes
    <3>2. \A q : AsksFreely(q)
      BY <2>0, <3>1, AsksOne
    <3> QED BY <2>0, <3>0, <3>1, <3>2, GoesTo
  <2>2. CASE At(p, {"lastRefresh"})
    <3>0. "final" \in PlaceNames
      BY DEF PlaceNames
    <3>1. /\ pc' = Goes(pc, p, "final")
          /\ sent' = sent \cup ({p} \X {"evidence", "agents"})
      BY <2>2 DEF PollEvidence, At, Goto, Goes
    <3>2. \A q : AsksFreely(q)
      BY <2>0, <3>1, AsksSome
    <3> QED BY <2>0, <3>0, <3>1, <3>2, GoesTo
  <2>3. CASE ~At(p, {"refresh"}) /\ ~At(p, {"lastRefresh"})
    <3>1. pc' = pc /\ sent' = sent
      BY <2>3 DEF PollEvidence
    <3> QED BY <2>0, <3>1, AsksNothing
  <2> QED BY <2>1, <2>2, <2>3
<1>3. TypeOK'
  BY <1>1, <1>2, EvidenceShown DEF IInv, TypeOK
<1>4. Fixed(p)
  BY DEF Fixed
<1> QED BY <1>1, <1>2, <1>3, <1>4, EvidenceShown, FreeStep

LEMMA PollEndsKeeps ==
  ASSUME IInv, NEW p \in Procs, p[1] = "poll", PollEnds(p)
  PROVE  IInv'
<1>0. UNCHANGED <<selectedId, auditEvents, activeRun, lastRun, sent, answer, rejected>>
  BY DEF PollEnds, server, account, evidence
<1>1. Quiet /\ \A q : AsksFreely(q)
  BY <1>0, AsksNothing DEF Quiet
<1>2. pc' \in Places /\ \A q \in Procs : pc'[q] = pc[q] \/ Fixed(q)
  <2> DEFINE f == Puts(pc, p, Idle)
             o == Send(p[2])
  <2>1. o \in Procs /\ Fixed(o) /\ Fixed(p)
    BY ProcFacts, ProcNames DEF Fixed
  <2>2. f \in Places /\ \A q \in Procs : q # p => f[q] = pc[q]
    BY PutAt, IdlePlace DEF IInv, TypeOK
  <2>3. pc' = f \/ pc' = Puts(f, o, Idle)
    BY DEF PollEnds, Finish, Puts
  <2> HIDE DEF f, o
  <2>4. CASE pc' = f
    BY <2>1, <2>2, <2>4
  <2>5. CASE pc' = Puts(f, o, Idle)
    BY <2>1, <2>2, <2>5, PutAt, IdlePlace
  <2> QED BY <2>3, <2>4, <2>5
<1>3. TypeOK' /\ ShownBelongsToSelected'
  BY <1>0, <1>2 DEF IInv, TypeOK, ShownBelongsToSelected
<1> QED BY <1>1, <1>2, <1>3, FreeStep

LEMMA PollRejectedKeeps ==
  ASSUME IInv, NEW p \in Procs, p[1] = "poll", PollRejected(p)
  PROVE  IInv'
<1> DEFINE f == Puts(pc, p, Idle)
           o == Send(p[2])
<1>0. /\ UNCHANGED <<selectedId, auditEvents, lastRun, answer>>
      /\ rejected' \subseteq rejected
  BY CaughtFacts DEF PollRejected, server, account, evidence, IInv
<1>1. Quiet
  BY <1>0 DEF Quiet
<1>2. o \in Procs /\ Fixed(o) /\ Fixed(p) /\ "agents" \in Expected(o)
  BY ProcFacts, ProcNames DEF Fixed, Expected
<1>3. f \in Places /\ \A q \in Procs : q # p => f[q] = pc[q]
  BY PutAt, IdlePlace DEF IInv, TypeOK
<1>4. \/ pc' = f /\ sent' = sent /\ activeRun' = activeRun
      \/ /\ pc' = Goes(f, o, "recover")
         /\ sent' = sent \cup {<<o, "agents">>}
         /\ activeRun' = Nothing
  BY DEF PollRejected, Finish, Puts, Goes
<1> HIDE DEF f, o
<1>5. pc' \in Places /\ \A q \in Procs : pc'[q] = pc[q] \/ Fixed(q)
  <2>1. "recover" \in PlaceNames
    BY DEF PlaceNames
  <2> QED BY <1>2, <1>3, <1>4, <2>1, GoesTo
<1>6. \A q : AsksFreely(q)
  BY <1>2, <1>4, AsksOne, AsksNothing
<1>7. TypeOK' /\ ShownBelongsToSelected'
  BY <1>0, <1>4, <1>5 DEF IInv, TypeOK, ShownBelongsToSelected
<1> QED BY <1>1, <1>5, <1>6, <1>7, FreeStep

LEMMA SendClickedKeeps ==
  ASSUME IInv, NEW a \in Agents, SendClicked(a)
  PROVE  IInv'
<1> DEFINE p == Send(a)
<1>0. /\ UNCHANGED <<selectedId, auditEvents, activeRun, lastRun, answer, rejected>>
      /\ pc' = Goes(pc, p, "post") /\ sent' = sent \cup {<<p, "post">>}
  BY DEF SendClicked, Goto, Goes, server, tab, account, evidence
<1>1. p \in Procs /\ Fixed(p) /\ "post" \in Expected(p)
  BY ProcNames DEF Fixed, Expected
<1> HIDE DEF p
<1>2. Quiet
  BY <1>0 DEF Quiet
<1>3. pc' \in Places /\ \A q \in Procs : q # p => pc'[q] = pc[q]
  <2>1. "post" \in PlaceNames
    BY DEF PlaceNames
  <2> QED BY <1>0, <1>1, <2>1, GoesTo DEF IInv, TypeOK
<1>4. \A q : AsksFreely(q)
  BY <1>0, <1>1, AsksOne
<1>5. TypeOK' /\ ShownBelongsToSelected'
  BY <1>0, <1>3 DEF IInv, TypeOK, ShownBelongsToSelected
<1> QED BY <1>1, <1>2, <1>3, <1>4, <1>5, FreeStep

LEMMA SendAnsweredKeeps ==
  ASSUME IInv, NEW p \in Procs, p[1] = "send", SendAnswered(p)
  PROVE  IInv'
<1> DEFINE run == answer[<<p, "post">>]
<1>0. /\ UNCHANGED <<selectedId, auditEvents, lastRun, rejected>>
      /\ pc' = Puts(pc, p, [at |-> "refresh", for |-> run.run])
      /\ sent' = sent \cup {<<p, "evidence">>} /\ answer' = Without(p, {"post"})
      /\ activeRun' = IF selectedId = p[2] THEN run ELSE activeRun
  BY DEF SendAnswered, Puts, server, evidence
<1>1. run.agent = p[2] /\ run.run \in Nat
  BY DEF SendAnswered, IInv, ProcOk, AnswerOk
<1>2. Fixed(p) /\ "evidence" \in Expected(p)
  BY DEF Fixed, Expected
<1>3. Quiet
  BY <1>0 DEF Quiet
<1> HIDE DEF run
<1>4. pc' \in Places /\ \A q \in Procs : q # p => pc'[q] = pc[q]
  <2>1. [at |-> "refresh", for |-> run.run] \in Place
    BY <1>1 DEF Place, PlaceNames
  <2> QED BY <1>0, <2>1, PutAt DEF IInv, TypeOK
<1>5. \A q : AsksFreely(q)
  BY <1>0, <1>2, AsksOne
<1>6. TypeOK' /\ ShownBelongsToSelected'
  BY <1>0, <1>1, <1>4 DEF IInv, TypeOK, ShownBelongsToSelected
<1> QED BY <1>2, <1>3, <1>4, <1>5, <1>6, FreeStep

LEMMA SendEvidenceKeeps ==
  ASSUME IInv, NEW p \in Procs, p[1] = "send", SendEvidence(p)
  PROVE  IInv'
<1> DEFINE run == [agent |-> p[2], run |-> pc[p].for]
           pcs == IF PollingNow(run) THEN Finish(p) ELSE Goto(p, "polling")
<1>1. EvidenceArrives(p) /\ StartPoll(run, pcs)
  BY DEF SendEvidence
<1>2. pcs \in Places /\ \A q \in Procs : q # p => pcs[q] = pc[q]
  <2>1. pc \in Places
    BY DEF IInv, TypeOK
  <2>2. CASE PollingNow(run)
    <3>1. pcs = Puts(pc, p, Idle)
      BY <2>2 DEF Finish, Puts
    <3> QED BY <2>1, <3>1, PutAt, IdlePlace
  <2>3. CASE ~PollingNow(run)
    <3>1. pcs = Goes(pc, p, "polling")
      BY <2>3 DEF Goto, Goes
    <3>2. "polling" \in PlaceNames
      BY DEF PlaceNames
    <3> QED BY <2>1, <3>1, <3>2, GoesTo
  <2> QED BY <2>2, <2>3
<1> HIDE DEF run, pcs
<1>3. /\ pc' \in Places
      /\ \A q : AsksFreely(q)
      /\ \A q \in Procs : pc'[q] = pc[q] \/ Fixed(q)
  BY <1>1, <1>2, StartPollFacts DEF Fixed
<1>4. TypeOK'
  BY <1>1, <1>3, EvidenceShown DEF IInv, TypeOK
<1> QED BY <1>1, <1>3, <1>4, EvidenceShown, FreeStep

LEMMA SendRejectedKeeps ==
  ASSUME IInv, NEW p \in Procs, p[1] = "send", SendRejected(p)
  PROVE  IInv'
<1>0. /\ UNCHANGED <<selectedId, auditEvents, lastRun, answer>>
      /\ rejected' \subseteq rejected
  BY CaughtFacts DEF SendRejected, server, account, evidence, IInv
<1>1. Quiet
  BY <1>0 DEF Quiet
<1>2. Fixed(p) /\ "agents" \in Expected(p)
  BY DEF Fixed, Expected
<1>3. \/ pc' = Puts(pc, p, Idle) /\ sent' = sent /\ activeRun' = activeRun
      \/ /\ pc' = Goes(pc, p, "recover")
         /\ sent' = sent \cup {<<p, "agents">>}
         /\ activeRun' = Nothing
  BY DEF SendRejected, Finish, Goto, Puts, Goes
<1>4. pc' \in Places /\ \A q \in Procs : q # p => pc'[q] = pc[q]
  <2>1. "recover" \in PlaceNames
    BY DEF PlaceNames
  <2> QED BY <1>3, <2>1, PutAt, GoesTo, IdlePlace DEF IInv, TypeOK
<1>5. \A q : AsksFreely(q)
  BY <1>2, <1>3, AsksOne, AsksNothing
<1>6. TypeOK' /\ ShownBelongsToSelected'
  BY <1>0, <1>3, <1>4 DEF IInv, TypeOK, ShownBelongsToSelected
<1> QED BY <1>1, <1>2, <1>4, <1>5, <1>6, FreeStep

-----------------------------------------------------------------------------
(* The selection *)

\* Nothing is left that q waits for, unless it asks now.
Rests(q) == \A k : <<q, k>> \notin sent /\ <<q, k>> \notin rejected' /\ ~Arrived(q, k)'

LEMMA QuietFacts ==
  ASSUME Quiet
  PROVE  \A q, k : /\ <<q, k>> \in rejected' => <<q, k>> \in rejected
                   /\ Arrived(q, k)' => Arrived(q, k)
<1>1. CASE answer' = answer
  BY <1>1 DEF Quiet, Arrived
<1>2. CASE \E p, ks : answer' = Without(p, ks)
  <2>1. PICK p, ks : answer' = Without(p, ks)
    BY <1>2
  <2> QED BY <2>1, WithoutFacts DEF Quiet, Arrived
<1> QED BY <1>1, <1>2 DEF Quiet

\* An idle callback of the interval, a load or a button rests.
LEMMA IdleRests ==
  ASSUME NEW q, ProcOk(q), Quiet, ~Fixed(q), pc[q] = Idle
  PROVE  Rests(q)
<1>1. \A k : ~Awaits(q, k)
  BY DEF ProcOk, Expected, Fixed
<1> QED BY <1>1, QuietFacts DEF Rests, Awaits

\* So does one that has received, or caught, the one thing it waited for.
LEMMA ReceivedRests ==
  ASSUME NEW q, ProcOk(q), ~Fixed(q), NEW k, Expected(q) = {k}, Arrived(q, k),
         answer' = Without(q, {k}), rejected' = rejected
  PROVE  Rests(q)
<1>1. \A j : ~Arrived(q, j)'
  BY WithoutFacts DEF ProcOk, Awaits, Arrived
<1>2. \A j : <<q, j>> \notin sent /\ <<q, j>> \notin rejected
  BY DEF ProcOk, Awaits, Fixed
<1> QED BY <1>1, <1>2 DEF Rests

LEMMA CaughtRests ==
  ASSUME NEW q, ProcOk(q), ~Fixed(q), NEW k, Expected(q) = {k}, Caught(q), answer' = answer
  PROVE  Rests(q)
<1>1. <<q, k>> \in rejected /\ \A j : <<q, j>> \notin rejected'
  BY CaughtFacts DEF ProcOk, Awaits
<1>2. \A j : <<q, j>> \notin sent /\ ~Arrived(q, j)
  BY <1>1 DEF ProcOk, Awaits, Fixed
<1> QED BY <1>1, <1>2 DEF Rests, Arrived

\* A callback that rests keeps its part of the invariant, wherever it goes, and so does
\* one that rested and asks for what it may ask for there.
LEMMA RestsKeeps ==
  ASSUME NEW q, Rests(q), \A k : <<q, k>> \in sent' => <<q, k>> \in sent \/ k \in Expected(q)'
  PROVE  ProcOk(q)'
BY HasAsked DEF Rests

LEMMA SelectStep ==
  ASSUME IInv, NEW next \in Nat, NEW pcs \in Places, SetSelected(next, pcs),
         Quiet, lastRun' = lastRun,
         \A q \in Procs : pcs[q] = pc[q] \/ Fixed(q) \/ (q[1] = "click" /\ Rests(q))
  PROVE  IInv'
<1>1. selectedId' = next
  BY DEF SetSelected
<1>2. CASE next = selectedId \/ next = NoAgent
  <2>1. pc' = pcs /\ sent' = sent
    BY <1>2 DEF SetSelected
  <2>2. ShownBelongsToSelected'
    BY <1>1, <1>2 DEF SetSelected, ShownBelongsToSelected, IInv
  <2>3. TypeOK'
    BY <1>1, <2>1 DEF TypeOK, IInv
  <2>4. ASSUME NEW q \in Procs PROVE ProcOk(q)'
    <3>1. CASE pcs[q] = pc[q] \/ Fixed(q)
      BY <2>1, <3>1, Stays, AsksNothing DEF IInv
    <3>2. CASE Rests(q)
      BY <2>1, <3>2, RestsKeeps
    <3> QED BY <3>1, <3>2
  <2> QED BY <2>2, <2>3, <2>4 DEF IInv
<1>3. CASE next # selectedId /\ next # NoAgent
  <2>1. PICK l \in Loads :
          /\ pc[Load(l)] = Idle
          /\ pc' = [pcs EXCEPT ![Load(l)] = [at |-> "loading", for |-> next]]
          /\ sent' = sent \cup ({Load(l)} \X {"evidence", "runs"})
    BY <1>3 DEF SetSelected
  <2> DEFINE p == Load(l)
             x == [at |-> "loading", for |-> next]
  <2>2. p \in Procs /\ p[1] = "load" /\ ~Fixed(p) /\ pc[p] = Idle
    BY <2>1, ProcNames DEF Fixed
  <2>3. x \in Place /\ x # Idle
    BY DEF Place, PlaceNames, Idle
  <2>4. pc' = Puts(pcs, p, x) /\ sent' = sent \cup ({p} \X {"evidence", "runs"})
    BY <2>1 DEF Puts
  <2> HIDE DEF p, x
  <2>5. pc' \in Places /\ pc'[p] = x /\ \A q \in Procs : q # p => pc'[q] = pcs[q]
    BY <2>2, <2>3, <2>4, PutAt
  <2>6. TypeOK'
    BY <1>1, <2>5 DEF TypeOK, IInv
  <2>7. ShownBelongsToSelected'
    BY <1>3 DEF SetSelected, ShownBelongsToSelected
  <2>8. /\ \A q : q # p => AsksFreely(q)
        /\ \A k : <<p, k>> \in sent' => <<p, k>> \in sent \/ k \in {"evidence", "runs"}
    BY <2>4, AsksSome
  <2>9. ProcOk(p)'
    <3>1. Rests(p)
      BY <2>2, IdleRests DEF IInv
    <3>2. Expected(p)' = {"evidence", "runs"}
      BY <2>2, <2>3, <2>5 DEF Expected
    <3> QED BY <2>8, <3>1, <3>2, RestsKeeps
  <2>10. ASSUME NEW q \in Procs, q # p PROVE ProcOk(q)'
    <3>1. CASE pcs[q] = pc[q] \/ Fixed(q)
      BY <2>5, <2>8, <2>10, <3>1, Stays DEF IInv
    <3>2. CASE q[1] = "click" /\ Rests(q)
      <4>1. \A k : <<q, k>> \in sent' => <<q, k>> \in sent
        BY <2>8, <2>10, <3>2 DEF AsksFreely, Fixed
      <4> QED BY <3>2, <4>1, RestsKeeps
    <3> QED BY <3>1, <3>2
  <2> QED BY <2>6, <2>7, <2>9, <2>10 DEF IInv
<1> QED BY <1>2, <1>3

LEMMA SelectClickedKeeps ==
  ASSUME IInv, NEW a \in Agents, SelectClicked(a)
  PROVE  IInv'
<1>1. SetSelected(a, pc) /\ lastRun' = lastRun /\ answer' = answer /\ rejected' = rejected
  BY DEF SelectClicked, server
<1>2. Quiet /\ a \in Nat /\ pc \in Places
  BY <1>1, ClientAssumption DEF Quiet, IInv, TypeOK
<1> QED BY <1>1, <1>2, SelectStep

LEMMA AgentsArriveKeeps ==
  ASSUME IInv, NEW p \in Procs, AgentsArrive(p)
  PROVE  IInv'
<1>0. /\ Arrived(p, "agents") /\ answer' = Without(p, {"agents"})
      /\ rejected' = rejected /\ lastRun' = lastRun
  BY DEF AgentsArrive, server
<1>1. Quiet
  BY <1>0 DEF Quiet
<1>2. PICK next \in IF At(p, {"created"}) THEN {pc[p].for} ELSE Selectable(agents') :
        SetSelected(next, IF p[1] = "poll" THEN pc ELSE Finish(p))
  BY DEF AgentsArrive
<1>3. next \in Nat
  <2>1. pc[p].for \in Nat /\ selectedId \in Nat
    BY DEF IInv, TypeOK, Places, Place
  <2>2. Selectable(agents') \subseteq Nat
    <3>1. Listed(agents') \subseteq Nat
      BY ClientAssumption DEF Listed
    <3> QED BY <2>1, <3>1 DEF Selectable, NoAgent
  <2> QED BY <2>1, <2>2
<1>4. ProcOk(p) /\ pc \in Places
  BY DEF IInv, TypeOK
<1>5. Fixed(p) \/ (p[1] = "click" /\ Rests(p))
  <2>1. "agents" \in Expected(p)
    BY <1>0, <1>4 DEF ProcOk, Awaits
  <2>2. CASE Fixed(p)
    BY <2>2
  <2>3. CASE ~Fixed(p)
    <3>1. p[1] = "click" /\ Expected(p) = {"agents"}
      BY <2>1, <2>3, ProcFacts DEF Expected, Fixed
    <3> QED BY <1>0, <1>4, <2>3, <3>1, ReceivedRests
  <2> QED BY <2>2, <2>3
<1>6. CASE p[1] = "poll"
  BY <1>0, <1>1, <1>2, <1>3, <1>4, <1>6, SelectStep
<1>7. CASE p[1] # "poll"
  <2>1. SetSelected(next, Puts(pc, p, Idle))
    BY <1>2, <1>7 DEF Finish, Puts
  <2>2. Puts(pc, p, Idle) \in Places /\ \A q \in Procs : q # p => Puts(pc, p, Idle)[q] = pc[q]
    BY <1>4, PutAt, IdlePlace
  <2> QED BY <1>0, <1>1, <1>3, <1>5, <2>1, <2>2, SelectStep
<1> QED BY <1>6, <1>7

-----------------------------------------------------------------------------
(* The effect of a new selection, and the interval *)

\* A step that leaves the tab's selection and evidence alone and puts p somewhere.
LEMMA MovesOn ==
  ASSUME IInv, NEW p \in Procs, NEW x \in Place, pc' = Puts(pc, p, x), Quiet,
         UNCHANGED <<selectedId, lastRun>>, ShownBelongsToSelected',
         \A q : q # p => AsksFreely(q), ProcOk(p)'
  PROVE  IInv'
<1>1. pc' \in Places /\ \A q \in Procs : q # p => pc'[q] = pc[q]
  BY PutAt DEF IInv, TypeOK
<1>2. TypeOK'
  BY <1>1 DEF IInv, TypeOK
<1> QED BY <1>1, <1>2, OwnStep

\* A callback that rests finishes.
LEMMA Finishes ==
  ASSUME IInv, NEW p \in Procs, pc' = Puts(pc, p, Idle), Quiet, Rests(p), sent' = sent,
         UNCHANGED <<selectedId, lastRun>>, ShownBelongsToSelected'
  PROVE  IInv'
<1>1. ProcOk(p)'
  BY RestsKeeps
<1> QED BY <1>1, AsksNothing, IdlePlace, MovesOn

LEMMA LoadExpects ==
  ASSUME IInv, NEW p \in Procs, p[1] = "load", NEW k, Awaits(p, k)
  PROVE  pc[p] # Idle /\ Expected(p) = {"evidence", "runs"} /\ ~Fixed(p)
<1>1. k \in Expected(p)
  BY DEF IInv, ProcOk
<1> QED BY <1>1 DEF Expected, Fixed

LEMMA LoadEvidenceKeeps ==
  ASSUME IInv, NEW p \in Procs, LoadEvidence(p)
  PROVE  IInv'
<1>1. EvidenceArrives(p) /\ pc' = pc /\ sent' = sent
  BY DEF LoadEvidence
<1>2. TypeOK'
  BY <1>1, EvidenceShown DEF IInv, TypeOK
<1> QED BY <1>1, <1>2, EvidenceShown, AsksNothing, FreeStep

\* A load whose Runs are in, or failed, and whose evidence is in, rests.
LEMMA LoadRests ==
  ASSUME IInv, NEW p \in Procs, p[1] = "load", ~Awaits(p, "evidence"),
         <<p, "runs">> \notin sent /\ <<p, "runs">> \notin rejected,
         answer' = Without(p, {"runs"}), rejected' = rejected
  PROVE  Rests(p)
<1>1. \A k : Awaits(p, k) => k = "runs"
  BY LoadExpects DEF IInv, ProcOk
<1>2. \A k : Arrived(p, k)' => Arrived(p, k) /\ k # "runs"
  BY WithoutFacts DEF Arrived
<1> QED BY <1>1, <1>2 DEF Rests, Awaits

LEMMA LoadJoinsKeeps ==
  ASSUME IInv, NEW p \in Procs, p[1] = "load", LoadJoins(p)
  PROVE  IInv'
<1> DEFINE latest == answer[<<p, "runs">>]
<1>0. /\ At(p, {"loading"}) /\ Arrived(p, "runs") /\ ~Awaits(p, "evidence")
      /\ UNCHANGED <<selectedId, auditEvents, lastRun, rejected>>
      /\ answer' = Without(p, {"runs"})
  BY DEF LoadJoins, server, account, evidence
<1>1. ProcOk(p) /\ ~Fixed(p) /\ pc \in Places
  BY DEF IInv, TypeOK, Fixed
<1>2. Quiet /\ Rests(p)
  <2>1. <<p, "runs">> \notin sent /\ <<p, "runs">> \notin rejected
    BY <1>0, <1>1 DEF ProcOk, Fixed
  <2> QED BY <1>0, <2>1, LoadRests DEF Quiet
<1>3. Puts(pc, p, Idle) \in Places /\ \A q \in Procs : q # p => Puts(pc, p, Idle)[q] = pc[q]
  BY <1>1, PutAt, IdlePlace
<1>4. AgentOf(p) = pc[p].for
  BY DEF AgentOf
<1>5. latest = Nothing \/ latest.agent = pc[p].for
  BY <1>0, <1>1, <1>4 DEF ProcOk, AnswerOk
<1>6. \/ activeRun' = activeRun
      \/ activeRun' = latest /\ selectedId = pc[p].for
  BY DEF LoadJoins
<1>7. \/ pc' = Puts(pc, p, Idle) /\ sent' = sent
      \/ StartPoll(latest, Puts(pc, p, Idle))
  BY DEF LoadJoins, Finish, Puts
<1> HIDE DEF latest
<1>8. ShownBelongsToSelected'
  BY <1>0, <1>5, <1>6 DEF IInv, ShownBelongsToSelected
<1>9. CASE pc' = Puts(pc, p, Idle) /\ sent' = sent
  BY <1>0, <1>2, <1>8, <1>9, Finishes
<1>10. CASE StartPoll(latest, Puts(pc, p, Idle))
  <2>1. /\ pc' \in Places /\ \A q : AsksFreely(q)
        /\ \A q \in Procs : pc'[q] = Puts(pc, p, Idle)[q] \/ Fixed(q)
        /\ \A k : <<p, k>> \in sent' <=> <<p, k>> \in sent
    BY <1>3, <1>10, StartPollFacts
  <2>2. ProcOk(p)'
    BY <1>2, <2>1, RestsKeeps
  <2>3. TypeOK'
    BY <1>0, <2>1 DEF IInv, TypeOK
  <2> QED BY <1>2, <1>3, <1>8, <2>1, <2>2, <2>3, OwnStep
<1> QED BY <1>7, <1>9, <1>10

LEMMA LoadRejectedKeeps ==
  ASSUME IInv, NEW p \in Procs, p[1] = "load", LoadRejected(p)
  PROVE  IInv'
<1>0. /\ Caught(p) /\ pc' = Goes(pc, p, "failed")
      /\ UNCHANGED <<selectedId, auditEvents, activeRun, lastRun, sent, answer>>
  BY DEF LoadRejected, Goto, Goes, server, tab, account, evidence
<1>1. ProcOk(p) /\ ~Fixed(p) /\ pc \in Places
  BY DEF IInv, TypeOK, Fixed
<1>2. rejected' \subseteq rejected /\ \E k : <<p, k>> \in rejected
  BY <1>0, <1>1, CaughtFacts
<1>3. Quiet
  BY <1>0, <1>2 DEF Quiet
<1>4. Expected(p) = {"evidence", "runs"}
  BY <1>2, LoadExpects DEF Awaits
<1>5. "failed" \in PlaceNames
  BY DEF PlaceNames
<1>6. /\ pc' \in Places /\ \A q \in Procs : q # p => pc'[q] = pc[q]
  BY <1>0, <1>1, <1>5, GoesTo
<1>7. pc'[p].at = "failed" /\ pc'[p].for = pc[p].for
  <2>1. Goes(pc, p, "failed")[p].at = "failed"
    BY <1>1, <1>5, GoesOn
  <2>2. Goes(pc, p, "failed")[p].for = pc[p].for
    BY <1>1, <1>5, GoesOn
  <2> QED BY <1>0, <2>1, <2>2
<1>8. ProcOk(p)'
  <2>1. pc'[p] # Idle
    BY <1>7 DEF Idle
  <2>2. Expected(p)' = Expected(p) /\ AgentOf(p)' = AgentOf(p)
    BY <1>4, <1>7, <2>1 DEF Expected, AgentOf
  <2> QED BY <1>0, <1>1, <1>2, <2>2, Keeps
<1>9. TypeOK' /\ ShownBelongsToSelected'
  BY <1>0, <1>6 DEF IInv, TypeOK, ShownBelongsToSelected
<1> QED BY <1>0, <1>3, <1>6, <1>8, <1>9, AsksNothing, OwnStep

LEMMA LoadGivenUpKeeps ==
  ASSUME IInv, NEW p \in Procs, p[1] = "load", LoadGivenUp(p)
  PROVE  IInv'
<1>0. /\ ~Awaits(p, "evidence") /\ <<p, "runs">> \notin sent /\ <<p, "runs">> \notin rejected
      /\ pc' = Puts(pc, p, Idle) /\ answer' = Without(p, {"runs"})
      /\ UNCHANGED <<selectedId, auditEvents, activeRun, lastRun, sent, rejected>>
  BY DEF LoadGivenUp, Finish, Puts, server, tab, account, evidence
<1>1. Quiet /\ Rests(p)
  BY <1>0, LoadRests DEF Quiet
<1>2. ShownBelongsToSelected'
  BY <1>0 DEF IInv, ShownBelongsToSelected
<1> QED BY <1>0, <1>1, <1>2, Finishes

LEMMA TickKeeps ==
  ASSUME IInv, NEW p \in Procs, p[1] = "timer", Tick(p)
  PROVE  IInv'
<1> DEFINE x == [at |-> "refresh", for |-> selectedId]
<1>0. /\ pc[p] = Idle /\ pc' = Puts(pc, p, x) /\ sent' = sent \cup {<<p, "evidence">>}
      /\ UNCHANGED <<selectedId, auditEvents, activeRun, lastRun, answer, rejected>>
  BY DEF Tick, Puts, server, tab, account, evidence
<1>1. x \in Place /\ x # Idle
  BY DEF Place, PlaceNames, Idle, IInv, TypeOK
<1> HIDE DEF x
<1>2. ProcOk(p) /\ ~Fixed(p) /\ pc \in Places
  BY DEF IInv, TypeOK, Fixed
<1>3. Quiet /\ Rests(p)
  BY <1>0, <1>2, IdleRests DEF Quiet
<1>4. Expected(p)' = {"evidence"}
  BY <1>0, <1>1, <1>2, PutAt DEF Expected
<1>5. /\ \A q : q # p => AsksFreely(q)
      /\ \A k : <<p, k>> \in sent' => <<p, k>> \in sent \/ k = "evidence"
  BY <1>0, AsksOne
<1>6. ProcOk(p)'
  BY <1>3, <1>4, <1>5, RestsKeeps
<1>7. ShownBelongsToSelected'
  BY <1>0 DEF IInv, ShownBelongsToSelected
<1> QED BY <1>0, <1>1, <1>3, <1>5, <1>6, <1>7, MovesOn

\* A refresh of the interval, or of a button, waits for its evidence only.
LEMMA RefreshExpects ==
  ASSUME NEW p, ProcOk(p), NEW k, Awaits(p, k),
         p[1] = "timer" \/ (p[1] = "click" /\ k = "evidence")
  PROVE  Expected(p) = {"evidence"} /\ ~Fixed(p)
<1>1. k \in Expected(p)
  BY DEF ProcOk
<1> QED BY <1>1 DEF Expected, Fixed

LEMMA RefreshEvidence ==
  ASSUME IInv, NEW p \in Procs, p[1] \in {"timer", "click"}, EvidenceArrives(p),
         pc' = Finish(p), sent' = sent
  PROVE  IInv'
<1>1. ProcOk(p) /\ Arrived(p, "evidence") /\ pc' = Puts(pc, p, Idle)
  BY DEF IInv, EvidenceArrives, Finish, Puts
<1>2. Expected(p) = {"evidence"} /\ ~Fixed(p)
  BY <1>1, RefreshExpects DEF Awaits
<1>3. /\ ShownBelongsToSelected' /\ Quiet
      /\ answer' = Without(p, {"evidence"}) /\ rejected' = rejected
      /\ selectedId' = selectedId /\ lastRun' = lastRun
  BY EvidenceShown
<1>4. Rests(p)
  BY <1>1, <1>2, <1>3, ReceivedRests
<1> QED BY <1>1, <1>3, <1>4, Finishes

LEMMA TimerRejectedKeeps ==
  ASSUME IInv, NEW p \in Procs, p[1] = "timer", TimerRejected(p)
  PROVE  IInv'
<1>0. /\ Caught(p) /\ pc' = Puts(pc, p, Idle)
      /\ UNCHANGED <<selectedId, auditEvents, activeRun, lastRun, sent, answer>>
  BY DEF TimerRejected, Finish, Puts, server, account
<1>1. ProcOk(p)
  BY DEF IInv
<1>2. rejected' \subseteq rejected /\ \E k : <<p, k>> \in rejected
  BY <1>0, <1>1, CaughtFacts
<1>3. Expected(p) = {"evidence"} /\ ~Fixed(p)
  BY <1>1, <1>2, RefreshExpects DEF Awaits
<1>4. Quiet /\ Rests(p)
  BY <1>0, <1>1, <1>2, <1>3, CaughtRests DEF Quiet
<1>5. ShownBelongsToSelected'
  BY <1>0 DEF IInv, ShownBelongsToSelected
<1> QED BY <1>0, <1>4, <1>5, Finishes

-----------------------------------------------------------------------------
(* The other buttons *)

\* Where a button waits for the mutating request it has started with.
Requests == {"signIn", "signOut", "create", "save", "stop", "start", "delete",
             "revoke", "rehearse"}

LEMMA ClickedKeeps ==
  ASSUME IInv, NEW slot \in Slots, NEW kind \in Requests, NEW a \in Nat,
         Clicked(slot, kind, a)
  PROVE  IInv'
<1> DEFINE x == [at |-> kind, for |-> a]
           p == Click(slot)
<1>0. /\ pc[p] = Idle /\ pc' = Puts(pc, p, x) /\ sent' = sent \cup {<<p, "post">>}
      /\ UNCHANGED <<selectedId, auditEvents, activeRun, lastRun, answer, rejected>>
  BY DEF Clicked, Puts, server, tab, account, evidence
<1>1. x \in Place /\ x # Idle /\ x.at = kind
  BY DEF Place, PlaceNames, Idle, Requests
<1>2. p \in Procs /\ p[1] = "click" /\ ~Fixed(p)
  BY ProcNames DEF Fixed
<1> HIDE DEF x, p
<1>3. ProcOk(p) /\ pc \in Places
  BY <1>2 DEF IInv, TypeOK
<1>4. Quiet /\ Rests(p)
  BY <1>0, <1>2, <1>3, IdleRests DEF Quiet
<1>5. pc'[p] = x
  BY <1>0, <1>1, <1>2, <1>3, PutAt
<1>6. Expected(p)' = {"post"}
  BY <1>1, <1>2, <1>5 DEF Expected, At, Requests
<1>7. /\ \A q : q # p => AsksFreely(q)
      /\ \A k : <<p, k>> \in sent' => <<p, k>> \in sent \/ k = "post"
  BY <1>0, AsksOne
<1>8. ProcOk(p)'
  BY <1>4, <1>6, <1>7, RestsKeeps
<1>9. ShownBelongsToSelected'
  BY <1>0 DEF IInv, ShownBelongsToSelected
<1> QED BY <1>0, <1>1, <1>2, <1>4, <1>7, <1>8, <1>9, MovesOn

\* The request a button waits for has been answered.
LEMMA PostRests ==
  ASSUME IInv, NEW p \in Procs, p[1] = "click", pc[p].at \in Requests, Arrived(p, "post"),
         answer' = Without(p, {"post"}), rejected' = rejected
  PROVE  Rests(p) /\ Quiet
<1>1. ProcOk(p) /\ ~Fixed(p)
  BY DEF IInv, Fixed
<1>2. "post" \in Expected(p)
  BY <1>1 DEF ProcOk, Awaits
<1>3. Expected(p) = {"post"}
  BY <1>2 DEF Expected
<1> QED BY <1>1, <1>3, ReceivedRests DEF Quiet

LEMMA PostAnswered ==
  ASSUME IInv, NEW p \in Procs, p[1] = "click", pc[p].at \in Requests, Arrived(p, "post"),
         answer' = Without(p, {"post"}),
         NEW place \in {"dashboard", "created", "changed", "refresh"}, NEW k,
         k = IF place = "refresh" THEN "evidence" ELSE "agents",
         pc' = Goes(pc, p, place), sent' = sent \cup {<<p, k>>},
         UNCHANGED <<selectedId, lastRun, rejected>>, ShownBelongsToSelected'
  PROVE  IInv'
<1>1. Rests(p) /\ Quiet
  BY PostRests
<1>2. place \in PlaceNames /\ pc \in Places
  BY DEF PlaceNames, IInv, TypeOK
<1>3. pc' \in Places /\ \A q \in Procs : q # p => pc'[q] = pc[q]
  BY <1>2, GoesTo
<1>4. pc'[p].at = place
  <2>1. Goes(pc, p, place)[p].at = place
    BY <1>2, GoesOn
  <2> QED BY <2>1
<1>5. pc'[p] # Idle
  BY <1>4 DEF Idle
<1>6. Expected(p)' = {k}
  <2>1. CASE place = "refresh"
    BY <1>4, <1>5, <2>1 DEF Expected, At
  <2>2. CASE place # "refresh"
    BY <1>4, <1>5, <2>2 DEF Expected, At
  <2> QED BY <2>1, <2>2
<1>7. /\ \A q : q # p => AsksFreely(q)
      /\ \A j : <<p, j>> \in sent' => <<p, j>> \in sent \/ j = k
  BY AsksOne
<1>8. ProcOk(p)'
  BY <1>1, <1>6, <1>7, RestsKeeps
<1>9. TypeOK'
  BY <1>3 DEF IInv, TypeOK
<1> QED BY <1>1, <1>3, <1>7, <1>8, <1>9, OwnStep

LEMMA SignInAnsweredKeeps ==
  ASSUME IInv, NEW p \in Procs, p[1] = "click", SignInAnswered(p)
  PROVE  IInv'
<1>1. /\ pc[p].at \in Requests /\ Arrived(p, "post") /\ answer' = Without(p, {"post"})
      /\ pc' = Goes(pc, p, "dashboard") /\ sent' = sent \cup {<<p, "agents">>}
      /\ UNCHANGED <<selectedId, auditEvents, activeRun, lastRun, rejected>>
  BY DEF SignInAnswered, At, Requests, Goto, Goes, server, evidence
<1>2. ShownBelongsToSelected'
  BY <1>1 DEF IInv, ShownBelongsToSelected
<1> QED BY <1>1, <1>2, PostAnswered

LEMMA SignOutAnsweredKeeps ==
  ASSUME IInv, NEW p \in Procs, p[1] = "click", SignOutAnswered(p)
  PROVE  IInv'
<1>1. /\ pc[p].at \in Requests /\ Arrived(p, "post") /\ answer' = Without(p, {"post"})
      /\ SetSelected(NoAgent, Puts(pc, p, Idle))
      /\ UNCHANGED <<lastRun, rejected>>
  BY DEF SignOutAnswered, At, Requests, Finish, Puts, server
<1>2. Rests(p) /\ Quiet
  BY <1>1, PostRests
<1>3. /\ Puts(pc, p, Idle) \in Places
      /\ \A q \in Procs : q # p => Puts(pc, p, Idle)[q] = pc[q]
  BY PutAt, IdlePlace DEF IInv, TypeOK
<1>4. NoAgent \in Nat
  BY DEF NoAgent
<1> QED BY <1>1, <1>2, <1>3, <1>4, SelectStep

LEMMA LifecycleAnsweredKeeps ==
  ASSUME IInv, NEW p \in Procs, p[1] = "click", LifecycleAnswered(p)
  PROVE  IInv'
<1>1. /\ pc[p].at \in Requests /\ Arrived(p, "post") /\ answer' = Without(p, {"post"})
      /\ sent' = sent \cup {<<p, "agents">>}
      /\ UNCHANGED <<selectedId, auditEvents, activeRun, lastRun, rejected>>
  BY DEF LifecycleAnswered, At, Requests, server, tab, account, evidence
<1>2. PICK place \in {"created", "changed"} : pc' = Goes(pc, p, place)
  BY DEF LifecycleAnswered, Goto, Goes
<1>3. ShownBelongsToSelected'
  BY <1>1 DEF IInv, ShownBelongsToSelected
<1> QED BY <1>1, <1>2, <1>3, PostAnswered

LEMMA AuthorityAnsweredKeeps ==
  ASSUME IInv, NEW p \in Procs, p[1] = "click", AuthorityAnswered(p)
  PROVE  IInv'
<1>1. /\ pc[p].at \in Requests /\ Arrived(p, "post") /\ answer' = Without(p, {"post"})
      /\ pc' = Goes(pc, p, "refresh") /\ sent' = sent \cup {<<p, "evidence">>}
      /\ UNCHANGED <<selectedId, auditEvents, lastRun, rejected>>
      /\ activeRun' = activeRun \/ activeRun' = Nothing
  BY DEF AuthorityAnswered, At, Requests, Goto, Goes, server
<1>2. ShownBelongsToSelected'
  BY <1>1 DEF IInv, ShownBelongsToSelected
<1> QED BY <1>1, <1>2, PostAnswered

LEMMA ClickRejectedKeeps ==
  ASSUME IInv, NEW p \in Procs, p[1] = "click", ClickRejected(p)
  PROVE  IInv'
<1>0. /\ Caught(p) /\ pc' = Puts(pc, p, Idle)
      /\ UNCHANGED <<selectedId, auditEvents, activeRun, lastRun, sent, answer>>
  BY DEF ClickRejected, Finish, Puts, server, tab, account, evidence
<1>1. ProcOk(p) /\ ~Fixed(p)
  BY DEF IInv, Fixed
<1>2. rejected' \subseteq rejected /\ \E k : <<p, k>> \in rejected
  BY <1>0, <1>1, CaughtFacts
<1>3. PICK k : Expected(p) = {k}
  <2>1. PICK k : k \in Expected(p)
    BY <1>1, <1>2 DEF ProcOk, Awaits
  <2> QED BY <2>1 DEF Expected
<1>4. Quiet /\ Rests(p)
  BY <1>0, <1>1, <1>2, <1>3, CaughtRests DEF Quiet
<1>5. ShownBelongsToSelected'
  BY <1>0 DEF IInv, ShownBelongsToSelected
<1> QED BY <1>0, <1>4, <1>5, Finishes

LEMMA HumanKeeps ==
  ASSUME IInv, Human
  PROVE  IInv'
<1>0. selectedId \in Nat /\ Agents \subseteq Nat /\ NoAgent \in Nat
  BY ClientAssumption DEF IInv, TypeOK, NoAgent
<1>1. CASE SignInClicked
  <2>1. Clicked("sessionBusy", "signIn", NoAgent)
    BY <1>1 DEF SignInClicked
  <2>2. "sessionBusy" \in Slots /\ "signIn" \in Requests
    BY DEF Slots, Requests
  <2> QED BY <1>0, <2>1, <2>2, ClickedKeeps
<1>2. CASE RevokeClicked
  <2>1. Clicked("revoking", "revoke", selectedId)
    BY <1>2 DEF RevokeClicked
  <2>2. "revoking" \in Slots /\ "revoke" \in Requests
    BY DEF Slots, Requests
  <2> QED BY <1>0, <2>1, <2>2, ClickedKeeps
<1>3. CASE RehearseClicked
  <2>1. Clicked("resetting", "rehearse", selectedId)
    BY <1>3 DEF RehearseClicked
  <2>2. "resetting" \in Slots /\ "rehearse" \in Requests
    BY DEF Slots, Requests
  <2> QED BY <1>0, <2>1, <2>2, ClickedKeeps
<1>4. ASSUME NEW a \in Agents, SelectClicked(a) \/ SendClicked(a) PROVE IInv'
  BY <1>4, SelectClickedKeeps, SendClickedKeeps
<1>5. ASSUME NEW kind \in Kinds, BusyClicked(kind) PROVE IInv'
  <2>1. PICK a \in EnabledFor(kind) : Clicked("busy", kind, a)
    BY <1>5 DEF BusyClicked
  <2>2. kind \in Requests /\ a \in Nat
    BY <1>0, ClientAssumption DEF EnabledFor, Requests, Listed
  <2>3. "busy" \in Slots
    BY DEF Slots
  <2> QED BY <2>1, <2>2, <2>3, ClickedKeeps
<1> QED BY <1>1, <1>2, <1>3, <1>4, <1>5 DEF Human

-----------------------------------------------------------------------------
(* The invariant *)

LEMMA OwnKeeps ==
  ASSUME IInv, NEW p \in Procs, Own(p)
  PROVE  IInv'
<1>1. CASE p[1] = "load"
  <2>1. LoadEvidence(p) \/ LoadJoins(p) \/ LoadRejected(p) \/ LoadGivenUp(p)
    BY <1>1 DEF Own
  <2> QED BY <1>1, <2>1, LoadEvidenceKeeps, LoadJoinsKeeps, LoadRejectedKeeps,
             LoadGivenUpKeeps
<1>2. CASE p[1] = "timer"
  <2>1. Tick(p) \/ TimerEvidence(p) \/ TimerRejected(p)
    BY <1>2 DEF Own
  <2>2. CASE TimerEvidence(p)
    BY <1>2, <2>2, RefreshEvidence DEF TimerEvidence
  <2> QED BY <1>2, <2>1, <2>2, TickKeeps, TimerRejectedKeeps
<1>3. CASE p[1] = "poll"
  <2>1. PollAnswered(p) \/ PollEvidence(p) \/ PollEnds(p) \/ PollRejected(p)
    BY <1>3 DEF Own
  <2> QED BY <1>3, <2>1, PollAnsweredKeeps, PollEvidenceKeeps, PollEndsKeeps,
             PollRejectedKeeps
<1>4. CASE p[1] = "send"
  <2>1. ServeSend(p[2]) \/ SendAnswered(p) \/ SendEvidence(p) \/ SendRejected(p)
    BY <1>4 DEF Own
  <2>2. p[2] \in Agents
    BY <1>4, ProcFacts
  <2> QED BY <1>4, <2>1, <2>2, ServeSendKeeps, SendAnsweredKeeps, SendEvidenceKeeps,
             SendRejectedKeeps
<1>5. CASE p[1] = "click"
  <2>1. \/ ServeSession(p) \/ SignInAnswered(p) \/ SignOutAnswered(p)
        \/ ServeLifecycle(p) \/ LifecycleAnswered(p)
        \/ ServeRevoke(p) \/ ServeRehearse(p)
        \/ AuthorityAnswered(p) \/ AuthorityEvidence(p)
        \/ ClickRejected(p)
    BY <1>5 DEF Own
  <2>2. CASE AuthorityEvidence(p)
    BY <1>5, <2>2, RefreshEvidence DEF AuthorityEvidence
  <2> QED BY <1>5, <2>1, <2>2, ServeClickKeeps, SignInAnsweredKeeps, SignOutAnsweredKeeps,
             LifecycleAnsweredKeeps, AuthorityAnsweredKeeps, ClickRejectedKeeps
<1> QED BY <1>1, <1>2, <1>3, <1>4, <1>5, ProcFacts

LEMMA InitInv ==
  ASSUME Init
  PROVE  IInv
<1>1. TypeOK
  <2>1. lastRun \in [Agents -> Nat]
    BY DEF Init
  <2>2. pc \in Places
    BY IdlePlace DEF Init, Places
  <2>3. selectedId \in Nat
    BY DEF Init, NoAgent
  <2> QED BY <2>1, <2>2, <2>3 DEF TypeOK
<1>2. ShownBelongsToSelected
  BY DEF Init, ShownBelongsToSelected
<1>3. ASSUME NEW q \in Procs PROVE ProcOk(q)
  <2>1. DOMAIN answer = {}
    BY DEF Init
  <2>2. \A k : ~Awaits(q, k)
    BY <2>1 DEF Init, Awaits, Arrived
  <2> QED BY <2>2 DEF ProcOk, Awaits, Arrived
<1> QED BY <1>1, <1>2, <1>3 DEF IInv

LEMMA StepInv ==
  ASSUME IInv, [Next]_vars
  PROVE  IInv'
<1>1. ASSUME NEW p \in Procs, Progress(p) PROVE IInv'
  BY <1>1, AnswerReadKeeps, AgentsArriveKeeps, OwnKeeps DEF Progress
<1>2. CASE Human
  BY <1>2, HumanKeeps
<1>3. CASE World
  BY <1>3, WorldKeeps
<1>4. CASE UNCHANGED vars
  <2>1. /\ UNCHANGED <<pc, selectedId, auditEvents, activeRun, sent, answer, rejected>>
        /\ lastRun' = lastRun
    BY <1>4 DEF vars, server, tab, account, evidence
  <2> QED BY <2>1, NothingMoves DEF IInv, TypeOK
<1> QED BY <1>1, <1>2, <1>3, <1>4 DEF Next

\* The inductive invariant holds: every callback waits only for what it has asked for,
\* and every answer under way is about the Agent its callback is for.
THEOREM WebClientInvariant == Spec => []IInv
<1>1. Init => IInv
  BY InitInv
<1>2. IInv /\ [Next]_vars => IInv'
  BY StepInv
<1> QED BY <1>1, <1>2, PTL DEF Spec

\* What is shown of Runs and audited events is of the selected Agent, whatever loads,
\* refreshes, pollers and buttons overlap and however late or lost their answers are
\* (App.tsx, the comparisons with selectedIdRef).
THEOREM ShownBelongsToSelectedHolds == Spec => []ShownBelongsToSelected
<1>1. IInv => ShownBelongsToSelected
  BY DEF IInv
<1> QED BY <1>1, WebClientInvariant, PTL

-----------------------------------------------------------------------------
(* A Run in progress that is shown is being polled, while nothing fails *)

Conditions == {"unborn", "ready", "busy", "stopped", "deleted"}

\* A Run that has been and has ended: it is never in progress again.
Past(a, n) == n <= lastRun[a] /\ ~RunIsOpen(a, n)

Known(run) ==
  run # Nothing => run.agent \in Agents /\ run.run \in Nat /\ run.run <= lastRun[run.agent]

Polled(p) == <<p[2], p[3]>> \in pollingRunIds \/ Past(p[2], p[3])

\* The tab asks for nothing before the sign-in, which nothing answers but the sign-in.
Fresh ==
  /\ ~session /\ selectedId = NoAgent
  /\ \A p \in Procs : \A k :
       /\ <<p, k>> \in sent => k = "post" /\ p[1] = "click" /\ At(p, {"signIn"})
       /\ <<p, k>> \notin rejected /\ ~Arrived(p, k)

SignedIn == live \/ Fresh

LoadOk(p) ==
  p[1] = "load" => /\ pc[p] = Idle \/ pc[p].for \in Agents
                   /\ Arrived(p, "runs") => Known(answer[<<p, "runs">>])

CreateOk(p) == At(p, {"create", "created"}) => pc[p].for \in Agents

\* A poller ends only when its Run has ended.
PollOk(p) ==
  p[1] = "poll" =>
    /\ \A k : Awaits(p, k) => p[3] <= lastRun[p[2]]
    /\ \A k : <<p, k>> \in rejected => Past(p[2], p[3])
    /\ Arrived(p, "run") => /\ answer[<<p, "run">>].agent = p[2]
                            /\ answer[<<p, "run">>].run = p[3]
                            /\ answer[<<p, "run">>].open \/ Past(p[2], p[3])
    /\ At(p, {"lastRefresh", "final"}) => Past(p[2], p[3])
    /\ At(p, {"get", "refresh"}) \/ Awaits(p, "run") => Polled(p)

\* sendMessage has one request under way, and is about the newest Run of its Agent.
SendOk(p) ==
  p[1] = "send" =>
    /\ Awaits(p, "post") => At(p, {"post"})
    /\ Awaits(p, "evidence") => At(p, {"refresh"})
    /\ Awaits(p, "agents") => At(p, {"recover"})
    /\ \A k : /\ <<p, k>> \in sent => ~Arrived(p, k) /\ <<p, k>> \notin rejected
              /\ <<p, k>> \in rejected => ~Arrived(p, k)
    /\ At(p, {"refresh"}) => pc[p].for = lastRun[p[2]]
    /\ Arrived(p, "post") => answer[<<p, "post">>].run = lastRun[p[2]]

ProcWatched(p) == LoadOk(p) /\ CreateOk(p) /\ PollOk(p) /\ SendOk(p)

Watched ==
  InProgress /\ RunIsOpen(activeRun.agent, activeRun.run)
    => PollingNow(activeRun) \/ At(Send(activeRun.agent), {"refresh"})

Watching ==
  /\ status \in [Agents -> Conditions] /\ selectedId \in Agents \cup {NoAgent}
  /\ Known(activeRun) /\ Watched
  /\ \A p \in Procs : ProcWatched(p)

WInv == IInv /\ failures \in Nat /\ (failures = 0 => SignedIn /\ Watching)

-----------------------------------------------------------------------------
(* Steps that leave callbacks alone *)

LEMMA PollFacts ==
  ASSUME NEW p \in Procs, p[1] = "poll"
  PROVE  p[2] \in Agents /\ p[3] \in Nat /\ p = Poll(p[2], p[3])
BY ClientAssumption DEF Procs, Load, Timer, Click, Send, Poll

\* Nothing new is asked, answered or refused for q.
Undisturbed(q) ==
  /\ pc'[q] = pc[q]
  /\ \A k : /\ <<q, k>> \in sent' => <<q, k>> \in sent
            /\ <<q, k>> \in rejected' => <<q, k>> \in rejected
            /\ Arrived(q, k)' => Arrived(q, k) /\ answer'[<<q, k>>] = answer[<<q, k>>]

\* Runs are only added, and what has ended has ended.
Onward ==
  \A a \in Agents : /\ lastRun[a] \in Nat /\ lastRun'[a] \in Nat /\ lastRun[a] <= lastRun'[a]
                    /\ \A n \in Nat : Past(a, n) => Past(a, n)'

\* No Run starts.
Tame ==
  /\ lastRun' = lastRun /\ status' \in [Agents -> Conditions]
  /\ \A a \in Agents : status'[a] = "busy" => status[a] = "busy"

LEMMA TameOnward ==
  ASSUME IInv, Tame
  PROVE  /\ Onward
         /\ \A a \in Agents : \A n : RunIsOpen(a, n)' => RunIsOpen(a, n)
BY DEF IInv, TypeOK, Tame, Onward, Past, RunIsOpen

LEMMA KnownStays ==
  ASSUME Onward, NEW run, Known(run)
  PROVE  Known(run)'
BY DEF Onward, Known

\* The requests of one callback change.
LEMMA Alone ==
  ASSUME NEW p \in Procs,
         pc' = pc \/ (\E x : pc' = Puts(pc, p, x)) \/ \E place : pc' = Goes(pc, p, place),
         \/ sent' = sent
         \/ \E k : sent' = sent \cup {<<p, k>>} \/ sent' = sent \ {<<p, k>>}
         \/ \E ks : sent' = sent \cup ({p} \X ks),
         \/ rejected' \subseteq rejected
         \/ \E k : rejected' = rejected \cup {<<p, k>>},
         \/ answer' = answer
         \/ \E ks : answer' = Without(p, ks)
         \/ \E k, result : answer' = With(p, k, result),
         IInv
  PROVE  \A q \in Procs : q # p => Undisturbed(q)
<1>1. ASSUME NEW q \in Procs, q # p PROVE pc'[q] = pc[q]
  <2>0. pc \in [Procs -> Place]
    BY DEF IInv, TypeOK, Places
  <2>1. ASSUME NEW x, pc' = Puts(pc, p, x) PROVE pc'[q] = pc[q]
    BY <1>1, <2>0, <2>1 DEF Puts
  <2>2. ASSUME NEW place, pc' = Goes(pc, p, place) PROVE pc'[q] = pc[q]
    BY <1>1, <2>0, <2>2 DEF Goes
  <2> QED BY <2>1, <2>2
<1>2. ASSUME NEW q, NEW j, q # p, <<q, j>> \in sent' PROVE <<q, j>> \in sent
  BY <1>2, Pairs
<1>3. ASSUME NEW q, NEW j, q # p, <<q, j>> \in rejected' PROVE <<q, j>> \in rejected
  BY <1>3, Pairs
<1>4. ASSUME NEW q, NEW j, q # p, Arrived(q, j)'
      PROVE  Arrived(q, j) /\ answer'[<<q, j>>] = answer[<<q, j>>]
  <2>1. CASE answer' = answer
    BY <1>4, <2>1 DEF Arrived
  <2>2. ASSUME NEW ks, answer' = Without(p, ks)
        PROVE  Arrived(q, j) /\ answer'[<<q, j>>] = answer[<<q, j>>]
    BY <1>4, <2>2, WithoutFacts DEF Arrived
  <2>3. ASSUME NEW k, NEW result, answer' = With(p, k, result)
        PROVE  Arrived(q, j) /\ answer'[<<q, j>>] = answer[<<q, j>>]
    <3>1. <<q, j>> \in DOMAIN answer
      BY <1>4, <2>3, WithFacts DEF Arrived
    <3>2. \A x \in DOMAIN answer : x # <<p, k>> => With(p, k, result)[x] = answer[x]
      BY DEF With
    <3>3. <<q, j>> # <<p, k>>
      BY <1>4
    <3> QED BY <2>3, <3>1, <3>2, <3>3 DEF Arrived
  <2> QED BY <2>1, <2>2, <2>3
<1> QED BY <1>1, <1>2, <1>3, <1>4 DEF Undisturbed

\* A callback left alone keeps its part of the invariant.
LEMMA UndisturbedKeeps ==
  ASSUME NEW q \in Procs, ProcWatched(q), Undisturbed(q), Onward,
         q[1] = "send" => lastRun'[q[2]] = lastRun[q[2]],
         q[1] = "poll" /\ <<q[2], q[3]>> \in pollingRunIds => Polled(q)'
  PROVE  ProcWatched(q)'
<1>0. \A k : Awaits(q, k)' => Awaits(q, k)
  BY DEF Undisturbed, Awaits
<1>1. LoadOk(q)'
  BY KnownStays DEF Undisturbed, ProcWatched, LoadOk
<1>2. CreateOk(q)'
  BY DEF Undisturbed, ProcWatched, CreateOk, At
<1>3. PollOk(q)'
  <2> SUFFICES ASSUME q[1] = "poll" PROVE PollOk(q)'
    BY DEF PollOk
  <2>0. q[2] \in Agents /\ q[3] \in Nat
    BY PollFacts
  <2>1. PollOk(q) /\ (Past(q[2], q[3]) => Past(q[2], q[3])')
    BY <2>0 DEF ProcWatched, Onward
  <2>2. \A k : Awaits(q, k)' => q[3] <= lastRun'[q[2]]
    BY <1>0, <2>0, <2>1 DEF PollOk, Onward
  <2>3. \A k : <<q, k>> \in rejected' => Past(q[2], q[3])'
    BY <2>1 DEF PollOk, Undisturbed
  <2>4. Arrived(q, "run")' => /\ answer'[<<q, "run">>].agent = q[2]
                              /\ answer'[<<q, "run">>].run = q[3]
                              /\ answer'[<<q, "run">>].open \/ Past(q[2], q[3])'
    BY <2>1 DEF PollOk, Undisturbed
  <2>5. At(q, {"lastRefresh", "final"})' => Past(q[2], q[3])'
    BY <2>1 DEF PollOk, Undisturbed, At
  <2>6. At(q, {"get", "refresh"})' \/ Awaits(q, "run")' => Polled(q)'
    BY <1>0, <2>1 DEF PollOk, Undisturbed, At, Polled
  <2> QED BY <2>2, <2>3, <2>4, <2>5, <2>6 DEF PollOk
<1>4. SendOk(q)'
  <2> SUFFICES ASSUME q[1] = "send" PROVE SendOk(q)'
    BY DEF SendOk
  <2>1. SendOk(q) /\ lastRun'[q[2]] = lastRun[q[2]] /\ pc'[q] = pc[q]
    BY DEF ProcWatched, Undisturbed
  <2>2. \A k : /\ <<q, k>> \in sent' => ~Arrived(q, k)' /\ <<q, k>> \notin rejected'
               /\ <<q, k>> \in rejected' => ~Arrived(q, k)'
    BY <2>1 DEF SendOk, Undisturbed
  <2>3. Arrived(q, "post")' => answer'[<<q, "post">>].run = lastRun'[q[2]]
    BY <2>1 DEF SendOk, Undisturbed
  <2> QED BY <1>0, <2>1, <2>2, <2>3 DEF SendOk, At
<1> QED BY <1>1, <1>2, <1>3, <1>4 DEF ProcWatched

\* A Run shown stays watched while no Run starts.
LEMMA WatchedStays ==
  ASSUME IInv, Watching, Tame, activeRun' = activeRun,
         \A a \in Agents, n \in Nat :
           <<a, n>> \in pollingRunIds => <<a, n>> \in pollingRunIds' \/ Past(a, n)',
         \A a \in Agents : At(Send(a), {"refresh"}) =>
           At(Send(a), {"refresh"})' \/ <<a, lastRun[a]>> \in pollingRunIds'
  PROVE  Watched'
<1> SUFFICES ASSUME InProgress', RunIsOpen(activeRun.agent, activeRun.run)'
             PROVE  PollingNow(activeRun)' \/ At(Send(activeRun.agent), {"refresh"})'
  BY DEF Watched
<1> DEFINE a == activeRun.agent
           n == activeRun.run
<1>1. a \in Agents /\ n \in Nat
  BY DEF InProgress, Watching, Known
<1>2. RunIsOpen(a, n)' /\ RunIsOpen(a, n)
  BY <1>1, TameOnward
<1>3. n = lastRun[a] /\ ~Past(a, n)'
  BY <1>2 DEF RunIsOpen, Past
<1>4. <<a, n>> \in pollingRunIds \/ At(Send(a), {"refresh"})
  BY <1>2 DEF Watching, Watched, InProgress, PollingNow
<1> QED BY <1>1, <1>3, <1>4 DEF PollingNow

\* A step after which every callback that it is about has its part of the invariant.
LEMMA PlainStep ==
  ASSUME IInv, Watching, Tame, pollingRunIds' = pollingRunIds,
         selectedId' \in Agents \cup {NoAgent},
         activeRun' = activeRun \/ activeRun' = Nothing,
         \A q \in Procs : Undisturbed(q) \/ ProcWatched(q)',
         \A a \in Agents : At(Send(a), {"refresh"}) => At(Send(a), {"refresh"})'
  PROVE  Watching'
<1>0. Onward
  BY TameOnward
<1>1. ASSUME NEW q \in Procs PROVE ProcWatched(q)'
  <2>0. ProcWatched(q) /\ lastRun' = lastRun
    BY DEF Watching, Tame
  <2>1. q[1] = "poll" /\ <<q[2], q[3]>> \in pollingRunIds => Polled(q)'
    BY DEF Polled
  <2> QED BY <1>0, <2>0, <2>1, UndisturbedKeeps
<1>2. Known(activeRun)' /\ Watched'
  <2>1. CASE activeRun' = Nothing
    BY <2>1 DEF Known, Watched, InProgress
  <2>2. CASE activeRun' = activeRun
    <3>1. Known(activeRun)'
      BY <1>0, <2>2, KnownStays DEF Watching, Known
    <3> QED BY <2>2, <3>1, WatchedStays
  <2> QED BY <2>1, <2>2
<1> QED BY <1>1, <1>2 DEF Watching, Tame

LEMMA StillTame ==
  ASSUME Watching, UNCHANGED server
  PROVE  Tame
BY DEF Watching, Tame, server

\* A step of one load, refresh or button.
LEMMA OwnPlainStep ==
  ASSUME IInv, Watching, NEW p \in Procs, ~Fixed(p), Tame, pollingRunIds' = pollingRunIds,
         selectedId' = selectedId, activeRun' = activeRun \/ activeRun' = Nothing,
         pc' = pc \/ (\E x : pc' = Puts(pc, p, x)) \/ \E place : pc' = Goes(pc, p, place),
         \/ sent' = sent
         \/ \E k : sent' = sent \cup {<<p, k>>} \/ sent' = sent \ {<<p, k>>}
         \/ \E ks : sent' = sent \cup ({p} \X ks),
         \/ rejected' \subseteq rejected
         \/ \E k : rejected' = rejected \cup {<<p, k>>},
         \/ answer' = answer
         \/ \E ks : answer' = Without(p, ks)
         \/ \E k, result : answer' = With(p, k, result),
         LoadOk(p)', CreateOk(p)'
  PROVE  Watching'
<1>1. \A q \in Procs : q # p => Undisturbed(q)
  BY Alone
<1>2. ProcWatched(p)'
  BY DEF Fixed, ProcWatched, PollOk, SendOk
<1>3. \A a \in Agents : Send(a) # p
  BY ProcNames DEF Fixed
<1>4. \A a \in Agents : At(Send(a), {"refresh"}) => At(Send(a), {"refresh"})'
  BY <1>1, <1>3, ProcNames DEF Undisturbed, At
<1>5. selectedId' \in Agents \cup {NoAgent}
  BY DEF Watching
<1> QED BY <1>1, <1>2, <1>4, <1>5, PlainStep

LEMMA LoadWatches ==
  ASSUME IInv, Watching, NEW p \in Procs, p[1] = "load",
         LoadEvidence(p) \/ LoadRejected(p) \/ LoadGivenUp(p)
  PROVE  Watching'
<1>0. ~Fixed(p) /\ LoadOk(p) /\ CreateOk(p) /\ pc \in Places
  BY DEF Fixed, Watching, ProcWatched, IInv, TypeOK
<1>1. CASE LoadEvidence(p)
  <2>1. /\ EvidenceArrives(p) /\ pc' = pc /\ sent' = sent /\ pollingRunIds' = pollingRunIds
        /\ UNCHANGED <<server, account, activeRun, rejected>>
        /\ answer' = Without(p, {"evidence"})
    BY <1>1 DEF LoadEvidence, EvidenceArrives
  <2>2. LoadOk(p)' /\ CreateOk(p)'
    <3>1. Arrived(p, "runs")' =>
            Arrived(p, "runs") /\ answer'[<<p, "runs">>] = answer[<<p, "runs">>]
      BY <2>1, WithoutFacts DEF Arrived
    <3> QED BY <1>0, <2>1, <3>1 DEF LoadOk, CreateOk, At, Known, server
  <2>3. Tame /\ selectedId' = selectedId
    BY <2>1, StillTame DEF account
  <2> QED BY <1>0, <2>1, <2>2, <2>3, OwnPlainStep
<1>2. CASE LoadRejected(p)
  <2>1. /\ Caught(p) /\ pc' = Goes(pc, p, "failed")
        /\ UNCHANGED <<server, tab, sent, answer>>
    BY <1>2 DEF LoadRejected, Goto, Goes
  <2>2. rejected' \subseteq rejected /\ \E k : <<p, k>> \in rejected
    BY <2>1, CaughtFacts DEF IInv
  <2>3. pc[p].for \in Agents
    BY <1>0, <2>2, LoadExpects DEF Awaits, LoadOk
  <2>4. pc'[p].for = pc[p].for /\ pc'[p].at = "failed"
    <3>1. "failed" \in PlaceNames
      BY DEF PlaceNames
    <3>2. /\ Goes(pc, p, "failed")[p].at = "failed"
          /\ Goes(pc, p, "failed")[p].for = pc[p].for
      BY <1>0, <3>1, GoesOn
    <3> QED BY <2>1, <3>2
  <2>5. LoadOk(p)' /\ CreateOk(p)'
    BY <1>0, <2>1, <2>3, <2>4 DEF LoadOk, CreateOk, At, Known, Arrived, server
  <2>6. Tame /\ UNCHANGED <<selectedId, activeRun, pollingRunIds>>
    BY <2>1, StillTame DEF tab, account
  <2> QED BY <1>0, <2>1, <2>2, <2>5, <2>6, OwnPlainStep
<1>3. CASE LoadGivenUp(p)
  <2>1. /\ pc' = Puts(pc, p, Idle) /\ answer' = Without(p, {"runs"})
        /\ UNCHANGED <<server, tab, sent, rejected>>
    BY <1>3 DEF LoadGivenUp, Finish, Puts
  <2>2. pc'[p] = Idle
    BY <1>0, <2>1, PutAt, IdlePlace
  <2>3. LoadOk(p)' /\ CreateOk(p)'
    <3>1. ~Arrived(p, "runs")'
      BY <2>1, WithoutFacts DEF Arrived
    <3> QED BY <2>2, <3>1 DEF LoadOk, CreateOk, At, Idle
  <2>4. Tame /\ UNCHANGED <<selectedId, activeRun, pollingRunIds>>
    BY <2>1, StillTame DEF tab, account
  <2> QED BY <1>0, <2>1, <2>3, <2>4, OwnPlainStep
<1> QED BY <1>1, <1>2, <1>3

LEMMA TimerWatches ==
  ASSUME IInv, Watching, NEW p \in Procs, p[1] = "timer",
         Tick(p) \/ TimerEvidence(p) \/ TimerRejected(p)
  PROVE  Watching'
<1>0. ~Fixed(p) /\ pc \in Places /\ LoadOk(p)'
  BY DEF Fixed, LoadOk, IInv, TypeOK
<1>1. CASE Tick(p)
  <2> DEFINE x == [at |-> "refresh", for |-> selectedId]
  <2>1. /\ pc' = Puts(pc, p, x) /\ sent' = sent \cup {<<p, "evidence">>}
        /\ UNCHANGED <<server, tab, answer, rejected>>
    BY <1>1 DEF Tick, Puts
  <2>2. x \in Place /\ x.at = "refresh"
    BY DEF Place, PlaceNames, IInv, TypeOK
  <2> HIDE DEF x
  <2>3. CreateOk(p)'
    <3>1. pc'[p].at = "refresh"
      BY <1>0, <2>1, <2>2, PutAt
    <3> QED BY <3>1 DEF CreateOk, At
  <2>4. Tame /\ UNCHANGED <<selectedId, activeRun, pollingRunIds>>
    BY <2>1, StillTame DEF tab, account
  <2> QED BY <1>0, <2>1, <2>3, <2>4, OwnPlainStep
<1>2. CASE TimerEvidence(p) \/ TimerRejected(p)
  <2>1. /\ pc' = Puts(pc, p, Idle) /\ sent' = sent /\ rejected' \subseteq rejected
        /\ answer' = answer \/ answer' = Without(p, {"evidence"})
        /\ UNCHANGED <<server, account, activeRun, pollingRunIds>>
    BY <1>2 DEF TimerEvidence, EvidenceArrives, TimerRejected, Caught, Finish, Puts
  <2>2. CreateOk(p)'
    <3>1. pc'[p] = Idle
      BY <1>0, <2>1, PutAt, IdlePlace
    <3> QED BY <3>1 DEF CreateOk, At, Idle
  <2>3. Tame /\ selectedId' = selectedId
    BY <2>1, StillTame DEF account
  <2>4. \/ answer' = answer
        \/ \E ks : answer' = Without(p, ks)
        \/ \E k, result : answer' = With(p, k, result)
    BY <2>1
  <2> QED BY <1>0, <2>1, <2>2, <2>3, <2>4, OwnPlainStep
<1> QED BY <1>1, <1>2

LEMMA ServeClickTame ==
  ASSUME Watching, NEW p,
         ServeSession(p) \/ ServeLifecycle(p) \/ ServeRevoke(p) \/ ServeRehearse(p)
  PROVE  Tame
<1> USE DEF Watching
<1>1. CASE ServeSession(p)
  BY <1>1 DEF ServeSession, Refuse, server, Tame
<1>2. CASE ServeLifecycle(p)
  <2> DEFINE a == pc[p].for
             kind == pc[p].at
             next == CASE kind = "stop" -> "stopped"
                       [] kind = "delete" -> "deleted"
                       [] kind = "save" -> status[a]
                       [] OTHER -> "ready"
  <2>1. CASE Refuse(p)
    BY <2>1, StillTame DEF Refuse
  <2>2. CASE ~Refuse(p)
    <3>1. status' = [status EXCEPT ![a] = next] /\ lastRun' = lastRun
      BY <1>2, <2>2 DEF ServeLifecycle
    <3>2. /\ a \in Agents => next \in Conditions
          /\ next = "busy" => next = status[a]
      BY DEF Conditions
    <3> HIDE DEF next
    <3> QED BY <3>1, <3>2 DEF Tame
  <2> QED BY <2>1, <2>2
<1>3. CASE ServeRevoke(p)
  BY <1>3 DEF ServeRevoke, Refuse, server, Tame
<1>4. CASE ServeRehearse(p)
  <2>1. CASE Refuse(p)
    BY <2>1, StillTame DEF Refuse
  <2>2. CASE ~Refuse(p)
    <3>1. status' = [status EXCEPT ![pc[p].for] = "ready"] /\ lastRun' = lastRun
      BY <1>4, <2>2 DEF ServeRehearse
    <3> QED BY <3>1 DEF Tame, Conditions
  <2> QED BY <2>1, <2>2
<1> QED BY <1>1, <1>2, <1>3, <1>4

LEMMA ServeClickWatches ==
  ASSUME IInv, Watching, NEW p \in Procs, p[1] = "click",
         ServeSession(p) \/ ServeLifecycle(p) \/ ServeRevoke(p) \/ ServeRehearse(p)
  PROVE  Watching'
<1>1. Serve(p) /\ ((\E result : Accept(p, result)) \/ Refuse(p))
  <2>1. CASE ServeSession(p)
    BY <2>1 DEF ServeSession
  <2>2. CASE ServeLifecycle(p)
    BY <2>2 DEF ServeLifecycle
  <2>3. CASE ServeRevoke(p)
    BY <2>3 DEF ServeRevoke
  <2>4. CASE ServeRehearse(p)
    BY <2>4 DEF ServeRehearse
  <2> QED BY <2>1, <2>2, <2>3, <2>4
<1>2. /\ sent' = sent \ {<<p, "post">>} /\ pc' = pc
      /\ UNCHANGED <<selectedId, activeRun, pollingRunIds>>
  BY <1>1 DEF Serve, tab, account
<1>3. /\ rejected' \subseteq rejected \/ \E k : rejected' = rejected \cup {<<p, k>>}
      /\ answer' = answer \/ \E k, result : answer' = With(p, k, result)
  BY <1>1 DEF Accept, Refuse
<1>4. LoadOk(p)' /\ CreateOk(p)'
  BY <1>2 DEF LoadOk, CreateOk, At, Watching, ProcWatched
<1>5. Tame /\ ~Fixed(p)
  BY ServeClickTame DEF Fixed
<1> QED BY <1>2, <1>3, <1>4, <1>5, OwnPlainStep

\* A button goes on, or is free again.
LEMMA ClickMoves ==
  ASSUME IInv, Watching, NEW p \in Procs, p[1] = "click", UNCHANGED server,
         UNCHANGED <<selectedId, pollingRunIds>>, activeRun' = activeRun \/ activeRun' = Nothing,
         \/ pc' = Puts(pc, p, Idle)
         \/ \E place \in {"dashboard", "changed", "refresh"} : pc' = Goes(pc, p, place)
         \/ At(p, {"create"}) /\ pc' = Goes(pc, p, "created"),
         sent' = sent \/ \E k : sent' = sent \cup {<<p, k>>},
         rejected' \subseteq rejected,
         answer' = answer \/ \E ks : answer' = Without(p, ks)
  PROVE  Watching'
<1>0. pc \in Places /\ ~Fixed(p) /\ CreateOk(p)
  BY DEF IInv, TypeOK, Fixed, Watching, ProcWatched
<1>1. LoadOk(p)' /\ Tame
  BY StillTame DEF LoadOk
<1>2. CreateOk(p)'
  <2>1. CASE pc' = Puts(pc, p, Idle)
    <3>1. pc'[p] = Idle
      BY <1>0, <2>1, PutAt, IdlePlace
    <3> QED BY <3>1 DEF CreateOk, At, Idle
  <2>2. ASSUME NEW place \in {"dashboard", "changed", "refresh"}, pc' = Goes(pc, p, place)
        PROVE  CreateOk(p)'
    <3>1. place \in PlaceNames
      BY DEF PlaceNames
    <3>2. Goes(pc, p, place)[p].at = place
      BY <1>0, <3>1, GoesOn
    <3> QED BY <2>2, <3>2 DEF CreateOk, At
  <2>3. CASE At(p, {"create"}) /\ pc' = Goes(pc, p, "created")
    <3>1. "created" \in PlaceNames
      BY DEF PlaceNames
    <3>2. Goes(pc, p, "created")[p].for = pc[p].for
      BY <1>0, <3>1, GoesOn
    <3> QED BY <1>0, <2>3, <3>2 DEF CreateOk, At
  <2> QED BY <2>1, <2>2, <2>3
<1>3. pc' = pc \/ (\E x : pc' = Puts(pc, p, x)) \/ \E place : pc' = Goes(pc, p, place)
  OBVIOUS
<1> QED BY <1>0, <1>1, <1>2, <1>3, OwnPlainStep

LEMMA ClickWatches ==
  ASSUME IInv, Watching, NEW p \in Procs, p[1] = "click",
         \/ SignInAnswered(p) \/ LifecycleAnswered(p) \/ AuthorityAnswered(p)
         \/ AuthorityEvidence(p) \/ ClickRejected(p)
  PROVE  Watching'
<1>1. CASE SignInAnswered(p)
  <2>1. /\ pc' = Goes(pc, p, "dashboard") /\ sent' = sent \cup {<<p, "agents">>}
        /\ answer' = Without(p, {"post"}) /\ rejected' = rejected
        /\ UNCHANGED <<server, selectedId, pollingRunIds, activeRun>>
    BY <1>1 DEF SignInAnswered, Goto, Goes
  <2> QED BY <2>1, ClickMoves
<1>2. CASE LifecycleAnswered(p)
  <2>1. /\ sent' = sent \cup {<<p, "agents">>}
        /\ answer' = Without(p, {"post"}) /\ rejected' = rejected
        /\ UNCHANGED <<server, selectedId, pollingRunIds, activeRun>>
    BY <1>2 DEF LifecycleAnswered, tab, account
  <2>2. \/ pc' = Goes(pc, p, "changed")
        \/ At(p, {"create"}) /\ pc' = Goes(pc, p, "created")
    BY <1>2 DEF LifecycleAnswered, Goto, Goes
  <2> QED BY <2>1, <2>2, ClickMoves
<1>3. CASE AuthorityAnswered(p)
  <2>1. /\ pc' = Goes(pc, p, "refresh") /\ sent' = sent \cup {<<p, "evidence">>}
        /\ answer' = Without(p, {"post"}) /\ rejected' = rejected
        /\ UNCHANGED <<server, selectedId, pollingRunIds>>
        /\ activeRun' = activeRun \/ activeRun' = Nothing
    BY <1>3 DEF AuthorityAnswered, Goto, Goes
  <2> QED BY <2>1, ClickMoves
<1>4. CASE AuthorityEvidence(p)
  <2>1. /\ pc' = Puts(pc, p, Idle) /\ sent' = sent
        /\ answer' = Without(p, {"evidence"}) /\ rejected' = rejected
        /\ UNCHANGED <<server, selectedId, pollingRunIds, activeRun>>
    BY <1>4 DEF AuthorityEvidence, EvidenceArrives, Finish, Puts, account
  <2> QED BY <2>1, ClickMoves
<1>5. CASE ClickRejected(p)
  <2>1. /\ pc' = Puts(pc, p, Idle) /\ sent' = sent
        /\ answer' = answer /\ rejected' \subseteq rejected
        /\ UNCHANGED <<server, selectedId, pollingRunIds, activeRun>>
    BY <1>5 DEF ClickRejected, Caught, Finish, Puts, tab, account
  <2> QED BY <2>1, ClickMoves
<1> QED BY <1>1, <1>2, <1>3, <1>4, <1>5

LEMMA ClickedWatches ==
  ASSUME IInv, Watching, NEW slot \in Slots, NEW kind \in Requests, NEW a \in Nat,
         kind = "create" => a \in Agents, Clicked(slot, kind, a)
  PROVE  Watching'
<1> DEFINE p == Click(slot)
           x == [at |-> kind, for |-> a]
<1>1. /\ pc' = Puts(pc, p, x) /\ sent' = sent \cup {<<p, "post">>}
      /\ UNCHANGED <<server, tab, answer, rejected>>
  BY DEF Clicked, Puts
<1>2. p \in Procs /\ p[1] = "click" /\ ~Fixed(p)
  BY ProcNames DEF Fixed
<1>3. x \in Place /\ x.at = kind /\ x.for = a /\ kind # "created"
  BY DEF Place, PlaceNames, Requests
<1> HIDE DEF p, x
<1>4. pc'[p] = x
  BY <1>1, <1>2, <1>3, PutAt DEF IInv, TypeOK
<1>5. LoadOk(p)' /\ CreateOk(p)'
  BY <1>2, <1>3, <1>4 DEF LoadOk, CreateOk, At
<1>6. Tame /\ UNCHANGED <<selectedId, activeRun, pollingRunIds>>
  BY <1>1, StillTame DEF tab, account
<1> QED BY <1>1, <1>2, <1>5, <1>6, OwnPlainStep

\* What sendMessage has asked for last has arrived.
SendDone(q) ==
  /\ q[1] = "send" /\ At(q, {"recover"})
  /\ <<q, "agents">> \notin sent /\ <<q, "agents">> \notin rejected' /\ ~Arrived(q, "agents")'

LEMMA SendDoneKeeps ==
  ASSUME IInv, Watching, NEW q \in Procs, SendDone(q), Quiet,
         \A k : <<q, k>> \in sent' => <<q, k>> \in sent, pc'[q] = Idle
  PROVE  ProcWatched(q)'
<1>1. SendOk(q) /\ q[1] = "send"
  BY DEF Watching, ProcWatched, SendDone
<1>2. \A k : /\ <<q, k>> \in rejected' => <<q, k>> \in rejected
             /\ Arrived(q, k)' => Arrived(q, k)
  BY QuietFacts
<1>3. \A k : Awaits(q, k)' => Awaits(q, k) /\ k # "agents"
  BY <1>2 DEF Awaits, SendDone
<1>4. ~Awaits(q, "post")' /\ ~Awaits(q, "evidence")' /\ ~Awaits(q, "agents")'
  BY <1>1, <1>3 DEF SendOk, SendDone, At
<1>5. ~Arrived(q, "post")'
  BY <1>4 DEF Awaits
<1>6. SendOk(q)'
  BY <1>1, <1>2, <1>4, <1>5 DEF SendOk, At, Idle
<1> QED BY <1>1, <1>6 DEF ProcWatched, LoadOk, PollOk, CreateOk, At, Idle

\* A step that sets the selection.
LEMMA SelectWatches ==
  ASSUME IInv, Watching, NEW next \in Agents \cup {NoAgent}, NEW pcs \in Places,
         SetSelected(next, pcs), Quiet, UNCHANGED <<server, pollingRunIds>>,
         \A q \in Procs : \/ pcs[q] = pc[q]
                          \/ pcs[q] = Idle /\ (q[1] = "click" \/ SendDone(q))
  PROVE  Watching'
<1>0. Tame /\ selectedId' \in Agents \cup {NoAgent}
  BY StillTame DEF SetSelected
<1>1. activeRun' = activeRun \/ activeRun' = Nothing
  BY DEF SetSelected
<1>2. \A q, k : /\ <<q, k>> \in rejected' => <<q, k>> \in rejected
                /\ Arrived(q, k)' => Arrived(q, k) /\ answer'[<<q, k>>] = answer[<<q, k>>]
  <2>1. CASE answer' = answer
    BY <2>1 DEF Quiet, Arrived
  <2>2. CASE \E p, ks : answer' = Without(p, ks)
    <3>1. PICK p, ks : answer' = Without(p, ks)
      BY <2>2
    <3> QED BY <3>1, WithoutFacts DEF Quiet, Arrived
  <2> QED BY <2>1, <2>2 DEF Quiet
\* What the callbacks but the load that starts do.
<1>3. ASSUME NEW q \in Procs, pc'[q] = pcs[q], \A k : <<q, k>> \in sent' => <<q, k>> \in sent
      PROVE  /\ Undisturbed(q) \/ ProcWatched(q)'
             /\ q[1] = "send" /\ At(q, {"refresh"}) => At(q, {"refresh"})'
  <2>1. CASE pcs[q] = pc[q]
    BY <1>2, <1>3, <2>1 DEF Undisturbed, At
  <2>2. CASE pcs[q] = Idle /\ q[1] = "click"
    BY <1>3, <2>2 DEF ProcWatched, LoadOk, PollOk, SendOk, CreateOk, At, Idle
  <2>3. CASE pcs[q] = Idle /\ SendDone(q)
    BY <1>3, <2>3, SendDoneKeeps DEF SendDone, At
  <2> QED BY <2>1, <2>2, <2>3
<1>4. CASE next = selectedId \/ next = NoAgent
  <2>1. pc' = pcs /\ sent' = sent
    BY <1>4 DEF SetSelected
  <2>2. \A a \in Agents : At(Send(a), {"refresh"}) => At(Send(a), {"refresh"})'
    BY <1>3, <2>1, ProcNames
  <2> QED BY <1>0, <1>1, <1>3, <2>1, <2>2, PlainStep
<1>5. CASE next # selectedId /\ next # NoAgent
  <2>1. PICK l \in Loads :
          /\ pc[Load(l)] = Idle
          /\ pc' = [pcs EXCEPT ![Load(l)] = [at |-> "loading", for |-> next]]
          /\ sent' = sent \cup ({Load(l)} \X {"evidence", "runs"})
    BY <1>5 DEF SetSelected
  <2> DEFINE p == Load(l)
             x == [at |-> "loading", for |-> next]
  <2>2. p \in Procs /\ p[1] = "load" /\ ~Fixed(p) /\ pc[p] = Idle
    BY <2>1, ProcNames DEF Fixed
  <2>3. x.at = "loading" /\ x.for \in Agents
    BY <1>5
  <2>4. pc' = Puts(pcs, p, x) /\ sent' = sent \cup ({p} \X {"evidence", "runs"})
    BY <2>1 DEF Puts
  <2> HIDE DEF p, x
  <2>5. pc'[p] = x /\ \A q \in Procs : q # p => pc'[q] = pcs[q]
    BY <2>2, <2>4 DEF Puts, Places
  <2>6. ProcWatched(p)'
    <3>1. Rests(p)
      BY <2>2, IdleRests DEF IInv
    <3> QED BY <2>2, <2>3, <2>5, <3>1 DEF Rests, ProcWatched, LoadOk, CreateOk, PollOk,
                                          SendOk, At
  <2>7. \A q \in Procs : q # p => Undisturbed(q) \/ ProcWatched(q)'
    BY <1>3, <2>4, <2>5, Pairs
  <2>8. \A a \in Agents : At(Send(a), {"refresh"}) => At(Send(a), {"refresh"})'
    <3> SUFFICES ASSUME NEW a \in Agents
                 PROVE  At(Send(a), {"refresh"}) => At(Send(a), {"refresh"})'
      OBVIOUS
    <3> DEFINE q == Send(a)
    <3>1. q \in Procs /\ q[1] = "send" /\ q # p
      BY <2>2, ProcNames
    <3> HIDE DEF q
    <3>2. \A k : <<q, k>> \in sent' => <<q, k>> \in sent
      BY <2>4, <3>1, Pairs
    <3>3. pc'[q] = pcs[q]
      BY <2>5, <3>1
    <3>4. At(q, {"refresh"}) => At(q, {"refresh"})'
      BY <1>3, <3>1, <3>2, <3>3
    <3> QED BY <3>4 DEF q
  <2> QED BY <1>0, <1>1, <2>6, <2>7, <2>8, PlainStep
<1> QED BY <1>4, <1>5

LEMMA SelectClickedWatches ==
  ASSUME IInv, Watching, NEW a \in Agents, SelectClicked(a)
  PROVE  Watching'
<1>1. /\ SetSelected(a, pc) /\ UNCHANGED <<server, pollingRunIds, answer, rejected>>
  BY DEF SelectClicked
<1>2. Quiet /\ pc \in Places
  BY <1>1 DEF Quiet, IInv, TypeOK
<1> QED BY <1>1, <1>2, SelectWatches

LEMMA SignOutWatches ==
  ASSUME IInv, Watching, NEW p \in Procs, p[1] = "click", SignOutAnswered(p)
  PROVE  Watching'
<1>1. /\ SetSelected(NoAgent, Puts(pc, p, Idle))
      /\ UNCHANGED <<server, pollingRunIds, rejected>> /\ answer' = Without(p, {"post"})
  BY DEF SignOutAnswered, Finish, Puts
<1>2. Quiet /\ pc \in Places
  BY <1>1 DEF Quiet, IInv, TypeOK
<1>3. /\ Puts(pc, p, Idle) \in Places /\ Puts(pc, p, Idle)[p] = Idle
      /\ \A q \in Procs : q # p => Puts(pc, p, Idle)[q] = pc[q]
  BY <1>2, PutAt, IdlePlace
<1> QED BY <1>1, <1>2, <1>3, SelectWatches

LEMMA AgentsArriveWatches ==
  ASSUME IInv, Watching, NEW p \in Procs, AgentsArrive(p)
  PROVE  Watching'
<1>1. /\ Arrived(p, "agents") /\ answer' = Without(p, {"agents"})
      /\ UNCHANGED <<server, pollingRunIds, rejected>>
  BY DEF AgentsArrive
<1>2. PICK next \in IF At(p, {"created"}) THEN {pc[p].for} ELSE Selectable(agents') :
        SetSelected(next, IF p[1] = "poll" THEN pc ELSE Finish(p))
  BY DEF AgentsArrive
<1>3. next \in Agents \cup {NoAgent}
  <2>1. CreateOk(p)
    BY DEF Watching, ProcWatched
  <2>2. Listed(agents') \subseteq Agents /\ selectedId \in Agents \cup {NoAgent}
    BY DEF Listed, Watching
  <2>3. Selectable(agents') \subseteq Agents \cup {NoAgent}
    BY <2>2 DEF Selectable
  <2> QED BY <1>2, <2>1, <2>3 DEF CreateOk, At
<1>4. Quiet /\ pc \in Places
  BY <1>1 DEF Quiet, IInv, TypeOK
<1>5. CASE p[1] = "poll"
  BY <1>1, <1>2, <1>3, <1>4, <1>5, SelectWatches
<1>6. CASE p[1] # "poll"
  <2>1. SetSelected(next, Puts(pc, p, Idle))
    BY <1>2, <1>6 DEF Finish, Puts
  <2>2. /\ Puts(pc, p, Idle) \in Places /\ Puts(pc, p, Idle)[p] = Idle
        /\ \A q \in Procs : q # p => Puts(pc, p, Idle)[q] = pc[q]
    BY <1>4, PutAt, IdlePlace
  <2>3. p[1] = "click" \/ SendDone(p)
    <3>1. CASE p[1] = "send"
      <4>1. At(p, {"recover"}) /\ <<p, "agents">> \notin sent /\ <<p, "agents">> \notin rejected
        BY <1>1, <3>1 DEF Watching, ProcWatched, SendOk, Awaits
      <4>2. ~Arrived(p, "agents")'
        BY <1>1, WithoutFacts DEF Arrived
      <4> QED BY <1>1, <3>1, <4>1, <4>2 DEF SendDone
    <3>2. CASE p[1] # "send"
      <4>1. "agents" \in Expected(p)
        BY <1>1 DEF IInv, ProcOk, Awaits
      <4> QED BY <1>6, <3>2, <4>1, ProcFacts DEF Expected
    <3> QED BY <3>1, <3>2
  <2> QED BY <1>1, <1>3, <1>4, <2>1, <2>2, <2>3, SelectWatches
<1> QED BY <1>5, <1>6

-----------------------------------------------------------------------------
(* Requests that are handled *)

\* A request of p is handled: no other callback is disturbed, and p awaits no more.
LEMMA Handled ==
  ASSUME IInv, NEW p \in Procs, NEW k, <<p, k>> \in sent, sent' = sent \ {<<p, k>>},
         pc' = pc,
         \/ rejected' = rejected /\ \E result : answer' = With(p, k, result)
         \/ rejected' = rejected \cup {<<p, k>>} /\ answer' = answer
  PROVE  /\ \A q \in Procs : q # p => Undisturbed(q)
         /\ \A j : Awaits(p, j)' => Awaits(p, j)
         /\ \A j : <<p, j>> \in sent' <=> <<p, j>> \in sent /\ j # k
         /\ \A j : <<p, j>> \in rejected' => \/ <<p, j>> \in rejected
                                             \/ j = k /\ answer' = answer
         /\ \A j : Arrived(p, j)' => \/ Arrived(p, j) /\ answer'[<<p, j>>] = answer[<<p, j>>]
                                     \/ j = k /\ rejected' = rejected
         /\ \A j : Arrived(p, j)' /\ j # k =>
                     Arrived(p, j) /\ answer'[<<p, j>>] = answer[<<p, j>>]
<1>1. \A q \in Procs : q # p => Undisturbed(q)
  BY Alone
<1>2. \A j : <<p, j>> \in sent' <=> <<p, j>> \in sent /\ j # k
  BY Pairs
<1>3. \A j : <<p, j>> \in rejected' => <<p, j>> \in rejected \/ (j = k /\ answer' = answer)
  BY Pairs
<1>4. ASSUME NEW j, Arrived(p, j)'
      PROVE  /\ \/ Arrived(p, j) /\ answer'[<<p, j>>] = answer[<<p, j>>]
                \/ j = k /\ rejected' = rejected
             /\ j # k => Arrived(p, j) /\ answer'[<<p, j>>] = answer[<<p, j>>]
  <2>1. CASE answer' = answer
    BY <1>4, <2>1 DEF Arrived
  <2>2. ASSUME rejected' = rejected, NEW result, answer' = With(p, k, result), j # k
        PROVE  Arrived(p, j) /\ answer'[<<p, j>>] = answer[<<p, j>>]
    <3>1. <<p, j>> \in DOMAIN answer
      BY <1>4, <2>2, WithFacts DEF Arrived
    <3>2. \A x \in DOMAIN answer : x # <<p, k>> => With(p, k, result)[x] = answer[x]
      BY DEF With
    <3>3. <<p, j>> # <<p, k>>
      BY <2>2
    <3> QED BY <2>2, <3>1, <3>2, <3>3 DEF Arrived
  <2> QED BY <2>1, <2>2
<1>5. \A j : Awaits(p, j)' => Awaits(p, j)
  BY <1>2, <1>3, <1>4 DEF Awaits
<1> QED BY <1>1, <1>2, <1>3, <1>4, <1>5

\* sendMessage has one request in one place.
LEMMA HandledSendOnce ==
  ASSUME IInv, Watching, NEW p \in Procs, p[1] = "send", NEW k, <<p, k>> \in sent,
         sent' = sent \ {<<p, k>>}, pc' = pc,
         \/ rejected' = rejected /\ \E result : answer' = With(p, k, result)
         \/ rejected' = rejected \cup {<<p, k>>} /\ answer' = answer
  PROVE  /\ Awaits(p, "post")' => At(p, {"post"})'
         /\ Awaits(p, "evidence")' => At(p, {"refresh"})'
         /\ Awaits(p, "agents")' => At(p, {"recover"})'
         /\ \A j : /\ <<p, j>> \in sent' => ~Arrived(p, j)' /\ <<p, j>> \notin rejected'
                   /\ <<p, j>> \in rejected' => ~Arrived(p, j)'
<1>1. SendOk(p)
  BY DEF Watching, ProcWatched
<1>2. \A j : Awaits(p, j)' => Awaits(p, j)
  BY Handled
<1>3. \A j : /\ <<p, j>> \in sent' => <<p, j>> \in sent /\ j # k
             /\ <<p, j>> \in rejected' => <<p, j>> \in rejected \/ (j = k /\ answer' = answer)
             /\ Arrived(p, j)' => Arrived(p, j) \/ (j = k /\ rejected' = rejected)
  BY Handled
<1>4. /\ Awaits(p, "post")' => At(p, {"post"})'
      /\ Awaits(p, "evidence")' => At(p, {"refresh"})'
      /\ Awaits(p, "agents")' => At(p, {"recover"})'
  BY <1>1, <1>2 DEF SendOk, At
<1>5. answer' = answer => \A j : Arrived(p, j)' => Arrived(p, j)
  BY DEF Arrived
<1>6. \A j : /\ <<p, j>> \in sent' => ~Arrived(p, j)' /\ <<p, j>> \notin rejected'
             /\ <<p, j>> \in rejected' => ~Arrived(p, j)'
  BY <1>1, <1>3, <1>5 DEF SendOk
<1> QED BY <1>4, <1>6

LEMMA ReadAnswered ==
  ASSUME IInv, Watching, NEW p \in Procs, NEW k \in Reads, <<p, k>> \in sent,
         sent' = sent \ {<<p, k>>}, UNCHANGED <<server, tab, pc, rejected>>,
         answer' = With(p, k, CASE k = "evidence" -> Evidence(AgentOf(p))
                                [] k = "runs" -> LatestRun(AgentOf(p))
                                [] k = "run" -> RunView(AgentOf(p), p[3])
                                [] k = "agents" -> status)
  PROVE  ProcWatched(p)'
<1> DEFINE a == AgentOf(p)
           result == CASE k = "evidence" -> Evidence(a)
                       [] k = "runs" -> LatestRun(a)
                       [] k = "run" -> RunView(a, p[3])
                       [] k = "agents" -> status
<1>0. answer' = With(p, k, result) /\ UNCHANGED <<status, lastRun, pollingRunIds>>
  BY DEF server, tab
<1>1. /\ k = "runs" => result = LatestRun(a)
      /\ k = "run" => result = RunView(a, p[3])
      /\ k # "post"
  BY DEF Reads
<1> HIDE DEF result
<1>2. answer'[<<p, k>>] = result
  <2>1. With(p, k, result)[<<p, k>>] = result
    BY DEF With
  <2> QED BY <1>0, <2>1
<1>3. /\ \A j : Awaits(p, j)' => Awaits(p, j)
      /\ \A j : <<p, j>> \in rejected' => <<p, j>> \in rejected
      /\ \A j : Arrived(p, j)' /\ j # k =>
                  Arrived(p, j) /\ answer'[<<p, j>>] = answer[<<p, j>>]
  BY <1>0, Handled
<1>4. LoadOk(p) /\ CreateOk(p) /\ PollOk(p) /\ SendOk(p)
  BY DEF Watching, ProcWatched
<1>5. LoadOk(p)'
  <2> SUFFICES ASSUME p[1] = "load" PROVE LoadOk(p)'
    BY DEF LoadOk
  <2>1. a \in Agents
    BY <1>4, LoadExpects DEF Awaits, LoadOk, AgentOf
  <2>2. Known(LatestRun(a)) /\ Known(Nothing)
    BY <2>1 DEF Known, LatestRun, RunView, IInv, TypeOK
  <2>3. Arrived(p, "runs")' => Known(answer'[<<p, "runs">>])
    BY <1>1, <1>2, <1>3, <1>4, <2>2 DEF LoadOk
  <2>4. Arrived(p, "runs")' => Known(answer[<<p, "runs">>])'
    BY <1>0, <2>3 DEF Known
  <2> QED BY <1>4, <2>4 DEF LoadOk
<1>6. CreateOk(p)'
  BY <1>4 DEF CreateOk, At
<1>7. PollOk(p)'
  <2> SUFFICES ASSUME p[1] = "poll" PROVE PollOk(p)'
    BY DEF PollOk
  <2>1. a = p[2] /\ p[3] <= lastRun[p[2]]
    BY <1>4 DEF AgentOf, PollOk, Awaits
  <2>2. Past(p[2], p[3])' = Past(p[2], p[3]) /\ Polled(p)' = Polled(p)
    BY <1>0 DEF Past, RunIsOpen, Polled
  <2>3. Arrived(p, "run")' => /\ answer'[<<p, "run">>].agent = p[2]
                              /\ answer'[<<p, "run">>].run = p[3]
                              /\ answer'[<<p, "run">>].open \/ Past(p[2], p[3])
    <3>1. CASE k = "run"
      BY <1>1, <1>2, <2>1, <3>1 DEF RunView, Past
    <3>2. CASE k # "run"
      BY <1>3, <1>4, <3>2 DEF PollOk
    <3> QED BY <3>1, <3>2
  <2>4. \A j : Awaits(p, j)' => p[3] <= lastRun'[p[2]]
    BY <1>0, <2>1
  <2> QED BY <1>3, <1>4, <2>2, <2>3, <2>4 DEF PollOk, At
<1>8. SendOk(p)'
  <2> SUFFICES ASSUME p[1] = "send" PROVE SendOk(p)'
    BY DEF SendOk
  <2>1. /\ Awaits(p, "post")' => At(p, {"post"})'
        /\ Awaits(p, "evidence")' => At(p, {"refresh"})'
        /\ Awaits(p, "agents")' => At(p, {"recover"})'
        /\ \A j : /\ <<p, j>> \in sent' => ~Arrived(p, j)' /\ <<p, j>> \notin rejected'
                  /\ <<p, j>> \in rejected' => ~Arrived(p, j)'
    BY <1>0, HandledSendOnce
  <2>2. At(p, {"refresh"})' => pc'[p].for = lastRun'[p[2]]
    BY <1>0, <1>4 DEF SendOk, At
  <2>3. Arrived(p, "post")' => answer'[<<p, "post">>].run = lastRun'[p[2]]
    BY <1>0, <1>1, <1>3, <1>4 DEF SendOk
  <2> QED BY <2>1, <2>2, <2>3 DEF SendOk
<1> QED BY <1>5, <1>6, <1>7, <1>8 DEF ProcWatched

LEMMA ReadRefused ==
  ASSUME IInv, Watching, NEW p \in Procs, NEW k \in Reads, <<p, k>> \in sent,
         sent' = sent \ {<<p, k>>}, UNCHANGED <<server, tab, pc, answer>>,
         rejected' = rejected \cup {<<p, k>>}, status[AgentOf(p)] \in Absent
  PROVE  ProcWatched(p)'
<1>0. UNCHANGED <<status, lastRun, pollingRunIds>>
  BY DEF server, tab
<1>1. LoadOk(p) /\ CreateOk(p) /\ PollOk(p) /\ SendOk(p)
  BY DEF Watching, ProcWatched
<1>2. \A j : Awaits(p, j)' => Awaits(p, j)
  BY Handled
<1>3. LoadOk(p)' /\ CreateOk(p)'
  BY <1>0, <1>1 DEF LoadOk, CreateOk, At, Arrived, Known
<1>4. PollOk(p)'
  <2> SUFFICES ASSUME p[1] = "poll" PROVE PollOk(p)'
    BY DEF PollOk
  <2>1. Past(p[2], p[3])
    BY <1>1 DEF AgentOf, PollOk, Awaits, Past, RunIsOpen, Absent
  <2>2. Past(p[2], p[3])' /\ Polled(p)'
    BY <1>0, <2>1 DEF Past, RunIsOpen, Polled
  <2>3. \A j : Awaits(p, j)' => p[3] <= lastRun'[p[2]]
    BY <1>0, <2>1 DEF Past
  <2>4. Arrived(p, "run")' => /\ answer'[<<p, "run">>].agent = p[2]
                              /\ answer'[<<p, "run">>].run = p[3]
    BY <1>1 DEF PollOk, Arrived
  <2> QED BY <2>2, <2>3, <2>4 DEF PollOk
<1>5. SendOk(p)'
  <2> SUFFICES ASSUME p[1] = "send" PROVE SendOk(p)'
    BY DEF SendOk
  <2>1. /\ Awaits(p, "post")' => At(p, {"post"})'
        /\ Awaits(p, "evidence")' => At(p, {"refresh"})'
        /\ Awaits(p, "agents")' => At(p, {"recover"})'
        /\ \A j : /\ <<p, j>> \in sent' => ~Arrived(p, j)' /\ <<p, j>> \notin rejected'
                  /\ <<p, j>> \in rejected' => ~Arrived(p, j)'
    BY HandledSendOnce
  <2>2. At(p, {"refresh"})' => pc'[p].for = lastRun'[p[2]]
    BY <1>0, <1>1 DEF SendOk, At
  <2>3. Arrived(p, "post")' => answer'[<<p, "post">>].run = lastRun'[p[2]]
    BY <1>0, <1>1 DEF SendOk, Arrived
  <2> QED BY <2>1, <2>2, <2>3 DEF SendOk
<1> QED BY <1>3, <1>4, <1>5 DEF ProcWatched

\* A read that is handled; it is refused only for an Agent that is not there.
LEMMA ReadWatches ==
  ASSUME IInv, Watching, live, NEW p \in Procs, NEW k \in Reads, AnswerRead(p, k)
  PROVE  Watching'
<1>0. /\ <<p, k>> \in sent /\ sent' = sent \ {<<p, k>>}
      /\ UNCHANGED <<server, tab, pc>>
  BY DEF AnswerRead
<1>1. /\ \/ rejected' = rejected /\ \E result : answer' = With(p, k, result)
         \/ rejected' = rejected \cup {<<p, k>>} /\ answer' = answer
      /\ ProcWatched(p)'
  <2>1. CASE k # "agents" => status[AgentOf(p)] \notin Absent
    <3>1. /\ rejected' = rejected
          /\ answer' = With(p, k, CASE k = "evidence" -> Evidence(AgentOf(p))
                                    [] k = "runs" -> LatestRun(AgentOf(p))
                                    [] k = "run" -> RunView(AgentOf(p), p[3])
                                    [] k = "agents" -> status)
      BY <2>1 DEF AnswerRead
    <3> QED BY <1>0, <3>1, ReadAnswered
  <2>2. CASE ~(k # "agents" => status[AgentOf(p)] \notin Absent)
    <3>1. rejected' = rejected \cup {<<p, k>>} /\ answer' = answer
      BY <2>2 DEF AnswerRead
    <3> QED BY <1>0, <2>2, <3>1, ReadRefused
  <2> QED BY <2>1, <2>2
<1>2. \A q \in Procs : q # p => Undisturbed(q)
  BY <1>0, <1>1, Handled
<1>3. /\ Tame /\ UNCHANGED <<selectedId, activeRun, pollingRunIds>>
      /\ selectedId' \in Agents \cup {NoAgent}
  BY <1>0, StillTame DEF tab, account, Watching
<1>4. \A b \in Agents : At(Send(b), {"refresh"}) => At(Send(b), {"refresh"})'
  BY <1>0 DEF At
<1> QED BY <1>1, <1>2, <1>3, <1>4, PlainStep

-----------------------------------------------------------------------------
(* sendMessage and pollRun *)

\* A Run starts: no Run shown before is the newest any more.
LEMMA ServeSendWatches ==
  ASSUME IInv, Watching, NEW a \in Agents, ServeSend(a)
  PROVE  Watching'
<1> DEFINE p == Send(a)
           result == [agent |-> a, run |-> lastRun[a] + 1, open |-> TRUE]
<1>0. /\ p \in Procs /\ p[1] = "send" /\ p[2] = a
      /\ <<p, "post">> \in sent /\ sent' = sent \ {<<p, "post">>}
      /\ UNCHANGED <<pc, selectedId, activeRun, pollingRunIds>>
  BY ProcNames DEF ServeSend, Serve, tab, account
<1>1. SendOk(p) /\ CreateOk(p) /\ lastRun \in [Agents -> Nat]
  BY <1>0 DEF Watching, ProcWatched, IInv, TypeOK
<1>2. CASE live /\ status[a] = "ready"
  <2>1. /\ answer' = With(p, "post", result) /\ rejected' = rejected
        /\ lastRun' = [lastRun EXCEPT ![a] = @ + 1]
        /\ status' = [status EXCEPT ![a] = "busy"]
    BY <1>2 DEF ServeSend, Accept
  <2>2. answer'[<<p, "post">>].run = lastRun'[a]
    <3>1. With(p, "post", result)[<<p, "post">>] = result
      BY DEF With
    <3>2. lastRun'[a] = lastRun[a] + 1
      BY <1>1, <2>1
    <3> HIDE DEF p
    <3> QED BY <2>1, <3>1, <3>2
  <2> HIDE DEF p, result
  <2>3. \A q \in Procs : q # p => Undisturbed(q)
    BY <1>0, <2>1, Handled
  <2>4. /\ status' \in [Agents -> Conditions] /\ lastRun' \in [Agents -> Nat]
        /\ \A b \in Agents : b # a => lastRun'[b] = lastRun[b] /\ status'[b] = status[b]
        /\ lastRun'[a] = lastRun[a] + 1
    BY <1>1, <2>1 DEF Watching, Conditions
  <2>5. \A b \in Agents, n \in Nat :
          n <= lastRun[b] /\ RunIsOpen(b, n)' => RunIsOpen(b, n) /\ b # a
    BY <1>1, <2>4 DEF RunIsOpen
  <2>6. Onward
    BY <1>1, <2>4, <2>5 DEF Onward, Past
  <2>7. ProcWatched(p)'
    <3>1. /\ Awaits(p, "post")' => At(p, {"post"})'
          /\ Awaits(p, "evidence")' => At(p, {"refresh"})'
          /\ Awaits(p, "agents")' => At(p, {"recover"})'
          /\ \A j : /\ <<p, j>> \in sent' => ~Arrived(p, j)' /\ <<p, j>> \notin rejected'
                    /\ <<p, j>> \in rejected' => ~Arrived(p, j)'
      BY <1>0, <2>1, HandledSendOnce
    <3>2. ~At(p, {"refresh"})'
      BY <1>0, <1>1 DEF SendOk, Awaits, At
    <3>3. CreateOk(p)'
      BY <1>0, <1>1 DEF CreateOk, At
    <3> QED BY <1>0, <2>2, <3>1, <3>2, <3>3 DEF ProcWatched, LoadOk, PollOk, SendOk
  <2>8. ASSUME NEW q \in Procs PROVE ProcWatched(q)'
    <3>1. CASE q = p
      BY <2>7, <3>1
    <3>2. CASE q # p
      <4>1. q[1] = "send" => lastRun'[q[2]] = lastRun[q[2]]
        BY <2>4, <3>2, ProcFacts DEF p
      <4>2. q[1] = "poll" /\ <<q[2], q[3]>> \in pollingRunIds => Polled(q)'
        BY <1>0 DEF Polled
      <4>3. ProcWatched(q) /\ Undisturbed(q)
        BY <2>3, <3>2 DEF Watching
      <4> QED BY <2>6, <4>1, <4>2, <4>3, UndisturbedKeeps
    <3> QED BY <3>1, <3>2
  <2>9. Known(activeRun)'
    BY <1>0, <2>6, KnownStays DEF Watching, Known
  <2>10. Watched'
    <3> SUFFICES ASSUME InProgress', RunIsOpen(activeRun.agent, activeRun.run)'
                 PROVE  PollingNow(activeRun)' \/ At(Send(activeRun.agent), {"refresh"})'
      BY DEF Watched
    <3>1. /\ InProgress /\ activeRun.agent \in Agents /\ activeRun.run \in Nat
          /\ activeRun.run <= lastRun[activeRun.agent]
      BY <1>0 DEF InProgress, Watching, Known
    <3>2. RunIsOpen(activeRun.agent, activeRun.run)
      BY <1>0, <2>5, <3>1
    <3> QED BY <1>0, <3>1, <3>2 DEF Watching, Watched, PollingNow, At
  <2>11. selectedId' \in Agents \cup {NoAgent}
    BY <1>0 DEF Watching
  <2> QED BY <2>4, <2>8, <2>9, <2>10, <2>11 DEF Watching
<1>3. CASE ~(live /\ status[a] = "ready")
  <2>1. rejected' = rejected \cup {<<p, "post">>} /\ UNCHANGED <<server, answer>>
    BY <1>3 DEF ServeSend, Refuse
  <2> HIDE DEF p
  <2>2. \A q \in Procs : q # p => Undisturbed(q)
    BY <1>0, <2>1, Handled
  <2>3. ProcWatched(p)'
    <3>1. /\ Awaits(p, "post")' => At(p, {"post"})'
          /\ Awaits(p, "evidence")' => At(p, {"refresh"})'
          /\ Awaits(p, "agents")' => At(p, {"recover"})'
          /\ \A j : /\ <<p, j>> \in sent' => ~Arrived(p, j)' /\ <<p, j>> \notin rejected'
                    /\ <<p, j>> \in rejected' => ~Arrived(p, j)'
      BY <1>0, <2>1, HandledSendOnce
    <3>2. /\ At(p, {"refresh"})' => pc'[p].for = lastRun'[p[2]]
          /\ Arrived(p, "post")' => answer'[<<p, "post">>].run = lastRun'[p[2]]
      BY <1>0, <1>1, <2>1 DEF SendOk, At, Arrived, server
    <3>3. CreateOk(p)'
      BY <1>0, <1>1 DEF CreateOk, At
    <3> QED BY <1>0, <3>1, <3>2, <3>3 DEF ProcWatched, LoadOk, PollOk, SendOk
  <2>4. Tame /\ selectedId' \in Agents \cup {NoAgent}
    BY <1>0, <2>1, StillTame DEF Watching
  <2>5. \A b \in Agents : At(Send(b), {"refresh"}) => At(Send(b), {"refresh"})'
    BY <1>0 DEF At
  <2> QED BY <1>0, <2>2, <2>3, <2>4, <2>5, PlainStep
<1> QED BY <1>2, <1>3

LEMMA SendClickedWatches ==
  ASSUME IInv, Watching, NEW a \in Agents, SendClicked(a)
  PROVE  Watching'
<1> DEFINE p == Send(a)
<1>0. /\ pc[p] = Idle /\ pc' = Goes(pc, p, "post") /\ sent' = sent \cup {<<p, "post">>}
      /\ UNCHANGED <<server, tab, answer, rejected>>
  BY DEF SendClicked, Goto, Goes
<1>1. p \in Procs /\ p[1] = "send" /\ p[2] = a
  BY ProcNames
<1> HIDE DEF p
<1>2. SendOk(p) /\ ProcOk(p) /\ pc \in Places /\ "post" \in PlaceNames
  BY <1>1 DEF Watching, ProcWatched, IInv, TypeOK, PlaceNames
<1>3. \A q \in Procs : q # p => Undisturbed(q)
  BY <1>0, <1>1, Alone
<1>4. pc'[p].at = "post" /\ \A q \in Procs : q # p => pc'[q] = pc[q]
  <2>1. Goes(pc, p, "post")[p].at = "post"
    BY <1>1, <1>2, GoesOn
  <2> QED BY <1>0, <1>1, <1>2, <2>1, GoesTo
<1>5. \A k : ~Awaits(p, k)
  BY <1>0, <1>1, <1>2 DEF ProcOk, Expected, SendOk, At, Idle
<1>6. \A k : <<p, k>> \in sent' <=> k = "post"
  BY <1>0, <1>5, Pairs DEF Awaits
<1>7. ProcWatched(p)'
  <2>1. \A k : <<p, k>> \notin rejected' /\ ~Arrived(p, k)'
    BY <1>0, <1>5 DEF Awaits, Arrived
  <2> QED BY <1>1, <1>4, <1>6, <2>1 DEF ProcWatched, LoadOk, PollOk, CreateOk, SendOk,
                                        Awaits, At
<1>8. /\ Tame /\ UNCHANGED <<selectedId, activeRun, pollingRunIds>>
      /\ selectedId' \in Agents \cup {NoAgent}
  BY <1>0, StillTame DEF tab, account, Watching
<1>9. \A b \in Agents : At(Send(b), {"refresh"}) => At(Send(b), {"refresh"})'
  <2>1. ~At(p, {"refresh"})
    BY <1>0 DEF At, Idle
  <2> QED BY <1>4, <2>1, ProcNames DEF At
<1> QED BY <1>3, <1>7, <1>8, <1>9, PlainStep

LEMMA SendRejectedWatches ==
  ASSUME IInv, Watching, NEW p \in Procs, p[1] = "send", SendRejected(p)
  PROVE  Watching'
<1>0. Caught(p) /\ UNCHANGED <<server, selectedId, pollingRunIds, answer>>
  BY DEF SendRejected, account
<1>1. SendOk(p) /\ ProcOk(p) /\ pc \in Places
  BY DEF Watching, ProcWatched, IInv, TypeOK
<1>2. /\ rejected' \subseteq rejected /\ \A k : <<p, k>> \notin rejected'
      /\ \E k : <<p, k>> \in rejected
  BY <1>0, <1>1, CaughtFacts
<1>3. \A k : <<p, k>> \notin sent /\ ~Arrived(p, k)
  <2>1. PICK j : <<p, j>> \in rejected
    BY <1>2
  <2>2. <<p, j>> \notin sent /\ ~Arrived(p, j) /\ Awaits(p, j)
    BY <1>1, <2>1 DEF SendOk, Awaits
  <2>3. \A k : Awaits(p, k) => k \in {"post", "evidence", "agents"}
    BY <1>1 DEF ProcOk, Expected
  <2>4. \A k : Awaits(p, k) => k = j
    BY <1>1, <2>2, <2>3 DEF SendOk, At
  <2> QED BY <2>2, <2>4 DEF Awaits
<1>4. \A k : ~Arrived(p, k)'
  BY <1>0, <1>3 DEF Arrived
<1>5. Tame /\ selectedId' \in Agents \cup {NoAgent}
  BY <1>0, StillTame DEF Watching
<1>6. \A a \in Agents : Send(a) \in Procs /\ Send(a)[2] = a
  BY ProcNames
<1>7. CASE At(p, {"recover"})
  <2>1. pc' = Puts(pc, p, Idle) /\ sent' = sent /\ activeRun' = activeRun
    BY <1>7 DEF SendRejected, Finish, Puts
  <2>2. \A q \in Procs : q # p => Undisturbed(q)
    BY <1>0, <1>2, <2>1, Alone
  <2>3. pc'[p] = Idle
    BY <1>1, <2>1, PutAt, IdlePlace
  <2>4. ProcWatched(p)'
    BY <1>2, <1>3, <1>4, <2>1, <2>3 DEF ProcWatched, LoadOk, PollOk, CreateOk, SendOk,
                                        Awaits, At, Idle
  <2>5. \A b \in Agents : At(Send(b), {"refresh"}) => At(Send(b), {"refresh"})'
    BY <1>6, <1>7, <2>2 DEF At, Undisturbed
  <2> QED BY <1>0, <1>5, <2>1, <2>2, <2>4, <2>5, PlainStep
<1>8. CASE ~At(p, {"recover"})
  <2>1. /\ pc' = Goes(pc, p, "recover") /\ sent' = sent \cup {<<p, "agents">>}
        /\ activeRun' = Nothing
    BY <1>8 DEF SendRejected, Goto, Goes
  <2>2. \A q \in Procs : q # p => Undisturbed(q)
    BY <1>0, <1>2, <2>1, Alone
  <2>3. pc'[p].at = "recover"
    <3>1. "recover" \in PlaceNames
      BY DEF PlaceNames
    <3>2. Goes(pc, p, "recover")[p].at = "recover"
      BY <1>1, <3>1, GoesOn
    <3> QED BY <2>1, <3>2
  <2>4. \A k : <<p, k>> \in sent' <=> k = "agents"
    BY <1>3, <2>1, Pairs
  <2>5. ProcWatched(p)'
    BY <1>2, <1>4, <2>3, <2>4 DEF ProcWatched, LoadOk, PollOk, CreateOk, SendOk,
                                  Awaits, At
  <2>6. Watched' /\ Known(activeRun)'
    BY <2>1 DEF Watched, InProgress, Known
  <2>7. ASSUME NEW q \in Procs PROVE ProcWatched(q)'
    <3>1. Onward
      BY <1>5, TameOnward
    <3>2. q[1] = "poll" /\ <<q[2], q[3]>> \in pollingRunIds => Polled(q)'
      BY <1>0 DEF Polled
    <3> QED BY <1>5, <2>2, <2>5, <3>1, <3>2, UndisturbedKeeps DEF Watching, Tame
  <2> QED BY <1>5, <2>6, <2>7 DEF Watching, Tame
<1> QED BY <1>7, <1>8

\* A step of the tab that may show another Run, or poll other Runs.
LEMMA TabStep ==
  ASSUME IInv, Watching, UNCHANGED <<server, selectedId>>, Known(activeRun)', Watched',
         \A a \in Agents, n \in Nat :
           <<a, n>> \in pollingRunIds => <<a, n>> \in pollingRunIds' \/ Past(a, n)',
         \A q \in Procs : Undisturbed(q) \/ ProcWatched(q)'
  PROVE  Watching'
<1>1. Tame /\ Onward
  BY StillTame, TameOnward
<1>2. ASSUME NEW q \in Procs, Undisturbed(q) PROVE ProcWatched(q)'
  <2>1. q[1] = "poll" /\ <<q[2], q[3]>> \in pollingRunIds => Polled(q)'
    BY PollFacts DEF Polled
  <2> QED BY <1>1, <1>2, <2>1, UndisturbedKeeps DEF Watching, Tame
<1> QED BY <1>1, <1>2 DEF Watching, Tame

LEMMA SendAnsweredWatches ==
  ASSUME IInv, Watching, NEW p \in Procs, p[1] = "send", SendAnswered(p)
  PROVE  Watching'
<1> DEFINE run == answer[<<p, "post">>]
           x == [at |-> "refresh", for |-> run.run]
<1>0. /\ Arrived(p, "post") /\ answer' = Without(p, {"post"})
      /\ pc' = Puts(pc, p, x) /\ sent' = sent \cup {<<p, "evidence">>}
      /\ activeRun' = IF selectedId = p[2] THEN run ELSE activeRun
      /\ UNCHANGED <<server, selectedId, pollingRunIds, rejected>>
  BY DEF SendAnswered, Puts
<1>1. SendOk(p) /\ ProcOk(p) /\ pc \in Places
  BY DEF Watching, ProcWatched, IInv, TypeOK
<1>2. run.agent = p[2] /\ run.run = lastRun[p[2]] /\ run.run \in Nat /\ p[2] \in Agents
  BY <1>0, <1>1, ProcFacts DEF ProcOk, AnswerOk, SendOk
<1>3. x \in Place /\ x.at = "refresh" /\ x.for = lastRun[p[2]]
  BY <1>2 DEF Place, PlaceNames
<1> HIDE DEF run, x
<1>4. \A q \in Procs : q # p => Undisturbed(q)
  BY <1>0, Alone
<1>5. pc'[p] = x /\ \A q \in Procs : q # p => pc'[q] = pc[q]
  BY <1>0, <1>1, <1>3, PutAt
<1>6. \A k : /\ <<p, k>> \in sent' <=> k = "evidence"
             /\ <<p, k>> \notin rejected' /\ ~Arrived(p, k)'
  <2>1. At(p, {"post"}) /\ <<p, "post">> \notin sent /\ <<p, "post">> \notin rejected
    BY <1>0, <1>1 DEF SendOk, Awaits
  <2>2. \A k : Awaits(p, k) => k = "post"
    BY <1>1, <2>1 DEF ProcOk, Expected, SendOk, At
  <2>3. \A k : Arrived(p, k)' => Arrived(p, k) /\ k # "post"
    BY <1>0, WithoutFacts DEF Arrived
  <2>4. \A k : <<p, k>> \in sent' <=> <<p, k>> \in sent \/ k = "evidence"
    BY <1>0, Pairs
  <2> QED BY <1>0, <2>1, <2>2, <2>3, <2>4 DEF Awaits
<1>7. ProcWatched(p)'
  BY <1>0, <1>3, <1>5, <1>6 DEF ProcWatched, LoadOk, PollOk, CreateOk, SendOk, Awaits, At,
                                server
<1>8. Known(activeRun)'
  <2>1. Known(run) /\ Known(activeRun)
    BY <1>2 DEF Known, Watching, IInv, TypeOK
  <2> QED BY <1>0, <2>1 DEF Known, server
<1>9. At(Send(p[2]), {"refresh"})'
  <2>1. p = Send(p[2])
    BY ProcFacts
  <2> QED BY <1>3, <1>5, <2>1 DEF At
<1>10. Watched'
  <2>1. CASE activeRun' = run
    BY <1>2, <1>9, <2>1 DEF Watched
  <2>2. CASE activeRun' = activeRun
    <3>1. \A a \in Agents : At(Send(a), {"refresh"}) => At(Send(a), {"refresh"})'
      BY <1>3, <1>5, ProcNames DEF At
    <3>2. Tame
      BY <1>0, StillTame
    <3> QED BY <1>0, <2>2, <3>1, <3>2, WatchedStays
  <2> QED BY <1>0, <2>1, <2>2
<1> QED BY <1>0, <1>4, <1>7, <1>8, <1>10, TabStep

\* Starting to poll a Run that there is.
LEMMA StartPollKeeps ==
  ASSUME IInv, Watching, NEW r, r.agent \in Agents, r.run \in Nat, r.run <= lastRun[r.agent],
         NEW pcs \in Places, StartPoll(r, pcs), UNCHANGED <<server, rejected>>, Quiet,
         NEW p \in Procs, \A q \in Procs : q # p => pcs[q] = pc[q], p[1] # "poll"
  PROVE  /\ \A q \in Procs : q # p => Undisturbed(q) \/ ProcWatched(q)'
         /\ \A q \in Procs : q[1] # "poll" => pc'[q] = pcs[q]
         /\ \A k : <<p, k>> \in sent' => <<p, k>> \in sent
         /\ <<r.agent, r.run>> \in pollingRunIds' /\ pollingRunIds \subseteq pollingRunIds'
<1> DEFINE o == Poll(r.agent, r.run)
<1>0. /\ o[1] = "poll" /\ o[2] = r.agent /\ o[3] = r.run /\ o # p
  BY DEF Poll
<1>1. \A q, k : /\ <<q, k>> \in rejected' => <<q, k>> \in rejected
                /\ Arrived(q, k)' => Arrived(q, k) /\ answer'[<<q, k>>] = answer[<<q, k>>]
  <2>1. CASE answer' = answer
    BY <2>1 DEF Quiet, Arrived
  <2>2. CASE \E s, ks : answer' = Without(s, ks)
    <3>1. PICK s, ks : answer' = Without(s, ks)
      BY <2>2
    <3> QED BY <3>1, WithoutFacts DEF Quiet, Arrived
  <2> QED BY <2>1, <2>2 DEF Quiet
<1>2. CASE PollingNow(r)
  <2>1. pc' = pcs /\ sent' = sent /\ pollingRunIds' = pollingRunIds
    BY <1>2 DEF StartPoll
  <2>2. <<r.agent, r.run>> \in pollingRunIds'
    BY <1>2, <2>1 DEF PollingNow
  <2> QED BY <1>1, <2>1, <2>2 DEF Undisturbed
<1>3. CASE ~PollingNow(r)
  <2>1. /\ pc' = Goes(pcs, o, "get") /\ sent' = sent \cup {<<o, "run">>}
        /\ pollingRunIds' = pollingRunIds \cup {<<r.agent, r.run>>}
    BY <1>3 DEF StartPoll, Goes
  <2> HIDE DEF o
  <2>2. /\ \A q \in Procs : q # o => pc'[q] = pcs[q]
        /\ o \in Procs => pc'[o].at = "get"
    <3>0. "get" \in PlaceNames
      BY DEF PlaceNames
    <3>1. CASE o \in Procs
      <4>1. Goes(pcs, o, "get")[o].at = "get"
        BY <3>0, <3>1, GoesOn
      <4> QED BY <2>1, <3>0, <3>1, <4>1, GoesTo
    <3>2. CASE o \notin Procs
      <4>1. pc' = pcs
        BY <2>1, <3>2 DEF Places, Goes
      <4> QED BY <3>2, <4>1
    <3> QED BY <3>1, <3>2
  <2>3. \A q, k : <<q, k>> \in sent' => <<q, k>> \in sent \/ (q = o /\ k = "run")
    BY <2>1, Pairs
  <2>4. <<r.agent, r.run>> \in pollingRunIds' /\ pollingRunIds \subseteq pollingRunIds'
    BY <2>1
  <2>5. ASSUME o \in Procs PROVE ProcWatched(o)'
    <3>1. PollOk(o)
      BY <2>5 DEF Watching, ProcWatched
    <3>2. At(o, {"get"})'
      BY <2>2, <2>5 DEF At
    <3>3. Past(o[2], o[3])' = Past(o[2], o[3]) /\ lastRun' = lastRun
      BY DEF Past, RunIsOpen, server
    <3>4. Polled(o)'
      BY <1>0, <2>4 DEF Polled
    <3>5. \A k : <<o, k>> \in rejected' => Past(o[2], o[3])'
      BY <1>0, <1>1, <3>1, <3>3 DEF PollOk
    <3>6. Arrived(o, "run")' => /\ answer'[<<o, "run">>].agent = o[2]
                                /\ answer'[<<o, "run">>].run = o[3]
                                /\ answer'[<<o, "run">>].open \/ Past(o[2], o[3])'
      BY <1>0, <1>1, <3>1, <3>3 DEF PollOk
    <3>7. PollOk(o)'
      BY <1>0, <3>2, <3>3, <3>4, <3>5, <3>6 DEF PollOk, At
    <3> QED BY <1>0, <3>2, <3>7 DEF ProcWatched, LoadOk, CreateOk, SendOk, At
  <2>6. \A q \in Procs : q # p /\ q # o => Undisturbed(q)
    BY <1>1, <2>2, <2>3 DEF Undisturbed
  <2> QED BY <1>0, <2>2, <2>3, <2>4, <2>5, <2>6
<1> QED BY <1>2, <1>3

LEMMA SendEvidenceWatches ==
  ASSUME IInv, Watching, NEW p \in Procs, p[1] = "send", SendEvidence(p)
  PROVE  Watching'
<1> DEFINE run == [agent |-> p[2], run |-> pc[p].for]
           pcs == IF PollingNow(run) THEN Finish(p) ELSE Goto(p, "polling")
<1>0. /\ EvidenceArrives(p) /\ StartPoll(run, pcs)
      /\ Arrived(p, "evidence") /\ answer' = Without(p, {"evidence"})
      /\ UNCHANGED <<server, selectedId, rejected, activeRun>>
  BY DEF SendEvidence, EvidenceArrives, account
<1>1. SendOk(p) /\ ProcOk(p) /\ pc \in Places
  BY DEF Watching, ProcWatched, IInv, TypeOK
<1>2. /\ run.agent = p[2] /\ run.run = lastRun[p[2]] /\ p[2] \in Agents
      /\ run.run \in Nat /\ run.run <= lastRun[run.agent]
  <2>1. At(p, {"refresh"})
    BY <1>0, <1>1 DEF SendOk, Awaits
  <2> QED BY <1>1, <2>1, ProcFacts DEF SendOk, IInv, TypeOK
<1>3. /\ pcs \in Places /\ \A q \in Procs : q # p => pcs[q] = pc[q]
      /\ pcs[p].at \in {"idle", "polling"}
  <2>1. CASE PollingNow(run)
    <3>1. pcs = Puts(pc, p, Idle)
      BY <2>1 DEF Finish, Puts
    <3> HIDE DEF pcs
    <3> QED BY <1>1, <3>1, PutAt, IdlePlace DEF Idle
  <2>2. CASE ~PollingNow(run)
    <3>1. pcs = Goes(pc, p, "polling")
      BY <2>2 DEF Goto, Goes
    <3>2. "polling" \in PlaceNames
      BY DEF PlaceNames
    <3> HIDE DEF pcs
    <3>3. Goes(pc, p, "polling")[p].at = "polling"
      BY <1>1, <3>2, GoesOn
    <3> QED BY <1>1, <3>1, <3>2, <3>3, GoesTo
  <2> QED BY <2>1, <2>2
<1> HIDE DEF run, pcs
<1>4. Quiet
  BY <1>0 DEF Quiet
<1>5. /\ \A q \in Procs : q # p => Undisturbed(q) \/ ProcWatched(q)'
      /\ \A q \in Procs : q[1] # "poll" => pc'[q] = pcs[q]
      /\ \A k : <<p, k>> \in sent' => <<p, k>> \in sent
      /\ <<run.agent, run.run>> \in pollingRunIds' /\ pollingRunIds \subseteq pollingRunIds'
  BY <1>0, <1>2, <1>3, <1>4, StartPollKeeps
<1>6. \A k : /\ <<p, k>> \notin sent' /\ <<p, k>> \notin rejected' /\ ~Arrived(p, k)'
  <2>1. /\ At(p, {"refresh"}) /\ <<p, "evidence">> \notin sent
        /\ <<p, "evidence">> \notin rejected
    BY <1>0, <1>1 DEF SendOk, Awaits
  <2>2. \A k : Awaits(p, k) => k = "evidence"
    BY <1>1, <2>1 DEF ProcOk, Expected, SendOk, At
  <2>3. \A k : Arrived(p, k)' => Arrived(p, k) /\ k # "evidence"
    BY <1>0, WithoutFacts DEF Arrived
  <2> QED BY <1>0, <1>5, <2>1, <2>2, <2>3 DEF Awaits
<1>7. ProcWatched(p)'
  BY <1>3, <1>5, <1>6 DEF ProcWatched, LoadOk, PollOk, CreateOk, SendOk, Awaits, At
<1>8. Known(activeRun)' /\ Tame
  BY <1>0, StillTame DEF Known, Watching, server
<1>9. \A a \in Agents : At(Send(a), {"refresh"}) =>
           At(Send(a), {"refresh"})' \/ <<a, lastRun[a]>> \in pollingRunIds'
  <2> SUFFICES ASSUME NEW a \in Agents, At(Send(a), {"refresh"})
               PROVE  At(Send(a), {"refresh"})' \/ <<a, lastRun[a]>> \in pollingRunIds'
    OBVIOUS
  <2>1. CASE a = p[2]
    BY <1>2, <1>5, <2>1
  <2>2. CASE a # p[2]
    <3> DEFINE q == Send(a)
    <3>1. q \in Procs /\ q # p /\ q[1] = "send"
      BY <2>2, ProcNames
    <3> HIDE DEF q
    <3>2. pc'[q] = pc[q]
      BY <1>3, <1>5, <3>1
    <3>3. At(q, {"refresh"}) => At(q, {"refresh"})'
      BY <3>2 DEF At
    <3> QED BY <3>3 DEF q
  <2> QED BY <2>1, <2>2
<1>10. Watched'
  BY <1>0, <1>5, <1>8, <1>9, WatchedStays
<1> QED BY <1>0, <1>5, <1>7, <1>8, <1>10, TabStep

LEMMA LoadJoinsWatches ==
  ASSUME IInv, Watching, NEW p \in Procs, p[1] = "load", LoadJoins(p)
  PROVE  Watching'
<1> DEFINE latest == answer[<<p, "runs">>]
           pcs == Puts(pc, p, Idle)
<1>0. /\ Arrived(p, "runs") /\ ~Awaits(p, "evidence") /\ answer' = Without(p, {"runs"})
      /\ UNCHANGED <<server, selectedId, rejected>>
  BY DEF LoadJoins, account
<1>1. /\ ProcOk(p) /\ LoadOk(p) /\ ~Fixed(p) /\ pc \in Places
  BY DEF IInv, TypeOK, Fixed, Watching, ProcWatched
<1>2. Known(latest) /\ Quiet
  BY <1>0, <1>1 DEF LoadOk, Quiet
<1>3. pcs \in Places /\ pcs[p] = Idle /\ \A q \in Procs : q # p => pcs[q] = pc[q]
  BY <1>1, PutAt, IdlePlace
<1>4. \/ pc' = pcs /\ sent' = sent /\ pollingRunIds' = pollingRunIds
      \/ StartPoll(latest, pcs) /\ latest # Nothing
  BY DEF LoadJoins, Finish, Puts
<1>5. \/ activeRun' = activeRun
      \/ /\ activeRun' = latest
         /\ latest # Nothing /\ latest.open => StartPoll(latest, pcs)
  BY DEF LoadJoins, Finish, Puts
<1> HIDE DEF latest, pcs
<1>6. /\ \A q \in Procs : q # p => Undisturbed(q) \/ ProcWatched(q)'
      /\ \A q \in Procs : q[1] # "poll" => pc'[q] = pcs[q]
      /\ pollingRunIds \subseteq pollingRunIds'
      /\ StartPoll(latest, pcs) /\ latest # Nothing =>
           <<latest.agent, latest.run>> \in pollingRunIds'
  <2>1. CASE StartPoll(latest, pcs) /\ latest # Nothing
    <3>1. latest.agent \in Agents /\ latest.run \in Nat /\ latest.run <= lastRun[latest.agent]
      BY <1>2, <2>1 DEF Known
    <3> QED BY <1>0, <1>2, <1>3, <2>1, <3>1, StartPollKeeps
  <2>2. CASE ~(StartPoll(latest, pcs) /\ latest # Nothing)
    <3>1. pc' = pcs /\ sent' = sent /\ pollingRunIds' = pollingRunIds
      BY <1>4, <2>2
    <3>2. \A q \in Procs : q # p => Undisturbed(q)
      BY <1>0, <3>1, Alone DEF pcs
    <3> QED BY <2>2, <3>1, <3>2
  <2> QED BY <2>1, <2>2
<1>7. ProcWatched(p)'
  <2>1. pc'[p] = Idle
    BY <1>3, <1>6
  <2>2. ~Arrived(p, "runs")'
    BY <1>0, WithoutFacts DEF Arrived
  <2> QED BY <2>1, <2>2 DEF ProcWatched, LoadOk, PollOk, SendOk, CreateOk, At, Idle
<1>8. Known(activeRun)' /\ Tame
  <2>1. Known(activeRun)
    BY DEF Watching
  <2> QED BY <1>0, <1>2, <1>5, <2>1, StillTame DEF Known, server
<1>9. Watched'
  <2>1. CASE activeRun' = activeRun
    <3>1. \A a \in Agents : At(Send(a), {"refresh"}) => At(Send(a), {"refresh"})'
      <4>1. \A a \in Agents : Send(a) \in Procs /\ Send(a) # p /\ Send(a)[1] # "poll"
        BY ProcNames
      <4>2. \A a \in Agents : pc'[Send(a)] = pc[Send(a)]
        BY <1>3, <1>6, <4>1
      <4> QED BY <4>2 DEF At
    <3> QED BY <1>6, <1>8, <2>1, <3>1, WatchedStays
  <2>2. CASE /\ activeRun' = latest
             /\ latest # Nothing /\ latest.open => StartPoll(latest, pcs)
    BY <1>6, <2>2 DEF Watched, InProgress, PollingNow
  <2> QED BY <1>5, <2>1, <2>2
<1> QED BY <1>0, <1>6, <1>7, <1>8, <1>9, TabStep

LEMMA PastStays ==
  ASSUME UNCHANGED server
  PROVE  /\ lastRun' = lastRun
         /\ \A a, n : Past(a, n)' = Past(a, n) /\ RunIsOpen(a, n)' = RunIsOpen(a, n)
BY DEF Past, RunIsOpen, server

LEMMA PollAnsweredWatches ==
  ASSUME IInv, Watching, NEW p \in Procs, p[1] = "poll", PollAnswered(p)
  PROVE  Watching'
<1> DEFINE run == answer[<<p, "run">>]
           place == IF run.open THEN "refresh" ELSE "lastRefresh"
<1>0. /\ Arrived(p, "run") /\ answer' = Without(p, {"run"})
      /\ pc' = Goes(pc, p, place) /\ sent' = sent \cup {<<p, "evidence">>}
      /\ activeRun' = IF selectedId = AgentOf(p) THEN run ELSE activeRun
      /\ UNCHANGED <<server, selectedId, pollingRunIds, rejected>>
  BY DEF PollAnswered, Goto, Goes, account
<1>1. PollOk(p) /\ pc \in Places /\ p[2] \in Agents /\ p[3] \in Nat
  BY PollFacts DEF Watching, ProcWatched, IInv, TypeOK
<1>2. /\ run.agent = p[2] /\ run.run = p[3]
      /\ p[3] <= lastRun[p[2]] /\ Polled(p)
  BY <1>0, <1>1 DEF PollOk, Awaits
<1>3. \A q \in Procs : q # p => Undisturbed(q)
  BY <1>0, Alone
<1>4. pc'[p].at = place /\ \A q \in Procs : q # p => pc'[q] = pc[q]
  <2>1. place \in PlaceNames
    BY DEF PlaceNames
  <2> HIDE DEF place
  <2>2. Goes(pc, p, place)[p].at = place
    BY <1>1, <2>1, GoesOn
  <2> QED BY <1>0, <1>1, <2>1, <2>2, GoesTo
<1>5. place = "lastRefresh" => Past(p[2], p[3])
  BY <1>0, <1>1 DEF PollOk
<1>6. place \in {"refresh", "lastRefresh"}
  OBVIOUS
<1> HIDE DEF run, place
<1>7. ProcWatched(p)'
  <2>1. lastRun' = lastRun /\ Past(p[2], p[3])' = Past(p[2], p[3]) /\ Polled(p)' = Polled(p)
    BY <1>0, PastStays DEF Polled
  <2>2. ~Arrived(p, "run")'
    BY <1>0, WithoutFacts DEF Arrived
  <2>3. PollOk(p)'
    BY <1>0, <1>1, <1>2, <1>4, <1>5, <1>6, <2>1, <2>2 DEF PollOk, At
  <2>4. CreateOk(p)'
    BY <1>4, <1>6 DEF CreateOk, At
  <2> QED BY <2>3, <2>4 DEF ProcWatched, LoadOk, SendOk
<1>8. Known(activeRun)' /\ Tame
  <2>1. Known(activeRun) /\ Known(run)
    BY <1>1, <1>2 DEF Watching, Known
  <2> QED BY <1>0, <2>1, StillTame DEF Known, server
<1>9. Watched'
  <2>1. CASE activeRun' = run
    <3>1. RunIsOpen(p[2], p[3])' => <<p[2], p[3]>> \in pollingRunIds
      BY <1>0, <1>2, PastStays DEF Polled, Past
    <3>2. activeRun'.agent = p[2] /\ activeRun'.run = p[3]
      BY <1>2, <2>1
    <3> QED BY <1>0, <3>1, <3>2 DEF Watched, PollingNow
  <2>2. CASE activeRun' = activeRun
    <3>1. \A a \in Agents : At(Send(a), {"refresh"}) => At(Send(a), {"refresh"})'
      BY <1>4, ProcNames DEF At
    <3> QED BY <1>0, <1>8, <2>2, <3>1, WatchedStays
  <2> QED BY <1>0, <2>1, <2>2
<1> QED BY <1>0, <1>3, <1>7, <1>8, <1>9, TabStep

LEMMA PollEvidenceWatches ==
  ASSUME IInv, Watching, NEW p \in Procs, p[1] = "poll", PollEvidence(p)
  PROVE  Watching'
<1>0. /\ Arrived(p, "evidence") /\ answer' = Without(p, {"evidence"})
      /\ UNCHANGED <<server, selectedId, activeRun, pollingRunIds, rejected>>
  BY DEF PollEvidence, EvidenceArrives, account
<1>1. PollOk(p) /\ CreateOk(p) /\ pc \in Places
  BY DEF Watching, ProcWatched, IInv, TypeOK
<1>2. /\ lastRun' = lastRun /\ Past(p[2], p[3])' = Past(p[2], p[3]) /\ Polled(p)' = Polled(p)
      /\ p[3] <= lastRun[p[2]]
  BY <1>0, <1>1, PastStays DEF Polled, PollOk, Awaits
<1>3. \A k : Arrived(p, k)' => Arrived(p, k) /\ answer'[<<p, k>>] = answer[<<p, k>>]
  BY <1>0, WithoutFacts DEF Arrived
<1>4. /\ \A q \in Procs : q # p => Undisturbed(q)
      /\ ProcWatched(p)'
      /\ \A q \in Procs : q # p => pc'[q] = pc[q]
  <2>1. CASE At(p, {"refresh"})
    <3>1. pc' = Goes(pc, p, "get") /\ sent' = sent \cup {<<p, "run">>}
      BY <2>1 DEF PollEvidence, At, Goto, Goes
    <3>2. \A q \in Procs : q # p => Undisturbed(q)
      BY <1>0, <3>1, Alone
    <3>3. pc'[p].at = "get"
      <4>1. "get" \in PlaceNames
        BY DEF PlaceNames
      <4>2. Goes(pc, p, "get")[p].at = "get"
        BY <1>1, <4>1, GoesOn
      <4> QED BY <3>1, <4>2
    <3>4. Polled(p)
      BY <1>1, <2>1 DEF PollOk, At
    <3>5. PollOk(p)'
      BY <1>0, <1>1, <1>2, <1>3, <3>3, <3>4 DEF PollOk, At
    <3> QED BY <3>2, <3>3, <3>5 DEF ProcWatched, LoadOk, CreateOk, SendOk, At, Undisturbed
  <2>2. CASE At(p, {"lastRefresh"})
    <3>1. pc' = Goes(pc, p, "final") /\ sent' = sent \cup ({p} \X {"evidence", "agents"})
      BY <2>2 DEF PollEvidence, At, Goto, Goes
    <3>2. \A q \in Procs : q # p => Undisturbed(q)
      BY <1>0, <3>1, Alone
    <3>3. pc'[p].at = "final"
      <4>1. "final" \in PlaceNames
        BY DEF PlaceNames
      <4>2. Goes(pc, p, "final")[p].at = "final"
        BY <1>1, <4>1, GoesOn
      <4> QED BY <3>1, <4>2
    <3>4. Past(p[2], p[3]) /\ Polled(p)
      BY <1>1, <2>2 DEF PollOk, At, Polled
    <3>5. PollOk(p)'
      BY <1>0, <1>1, <1>2, <1>3, <3>3, <3>4 DEF PollOk, At
    <3> QED BY <3>2, <3>3, <3>5 DEF ProcWatched, LoadOk, CreateOk, SendOk, At, Undisturbed
  <2>3. CASE ~At(p, {"refresh"}) /\ ~At(p, {"lastRefresh"})
    <3>1. pc' = pc /\ sent' = sent
      BY <2>3 DEF PollEvidence
    <3>2. \A q \in Procs : q # p => Undisturbed(q)
      BY <1>0, <3>1, Alone
    <3>3. PollOk(p)'
      BY <1>0, <1>1, <1>2, <1>3, <3>1 DEF PollOk, At, Awaits
    <3>4. CreateOk(p)'
      BY <1>1, <3>1 DEF CreateOk, At
    <3> QED BY <3>1, <3>2, <3>3, <3>4 DEF ProcWatched, LoadOk, SendOk
  <2> QED BY <2>1, <2>2, <2>3
<1>5. /\ Tame /\ selectedId' \in Agents \cup {NoAgent}
      /\ \A a \in Agents : At(Send(a), {"refresh"}) => At(Send(a), {"refresh"})'
  BY <1>0, <1>4, StillTame, ProcNames DEF Watching, At
<1> QED BY <1>0, <1>4, <1>5, PlainStep

\* The poller of a Run that has ended stops.
LEMMA StopsPolling ==
  ASSUME IInv, Watching, NEW p \in Procs, p[1] = "poll", Past(p[2], p[3]),
         UNCHANGED <<server, selectedId>>, Quiet,
         pollingRunIds' = pollingRunIds \ {<<p[2], p[3]>>},
         pc'[p] = Idle, \A k : <<p, k>> \in sent' => <<p, k>> \in sent,
         \A q \in Procs : q # p => Undisturbed(q) \/ (q[1] = "send" /\ ProcWatched(q)'),
         \/ activeRun' = Nothing
         \/ /\ activeRun' = activeRun
            /\ \A a \in Agents : At(Send(a), {"refresh"}) => At(Send(a), {"refresh"})'
  PROVE  Watching'
<1>0. p[2] \in Agents /\ p[3] \in Nat /\ PollOk(p)
  BY PollFacts DEF Watching, ProcWatched
<1>1. lastRun' = lastRun /\ Past(p[2], p[3])'
  BY PastStays
<1>2. \A a \in Agents, n \in Nat :
        <<a, n>> \in pollingRunIds => <<a, n>> \in pollingRunIds' \/ Past(a, n)'
  BY <1>1
<1>3. ProcWatched(p)'
  <2>1. \A k : Arrived(p, k)' => Arrived(p, k) /\ answer'[<<p, k>>] = answer[<<p, k>>]
    <3>1. CASE answer' = answer
      BY <3>1 DEF Arrived
    <3>2. CASE \E s, ks : answer' = Without(s, ks)
      <4>1. PICK s, ks : answer' = Without(s, ks)
        BY <3>2
      <4> QED BY <4>1, WithoutFacts DEF Arrived
    <3> QED BY <3>1, <3>2 DEF Quiet
  <2>2. \A k : Awaits(p, k)' => Awaits(p, k)
    BY <2>1 DEF Awaits, Quiet
  <2>3. Polled(p)'
    BY <1>1 DEF Polled
  <2>4. \A k : Awaits(p, k)' => p[3] <= lastRun'[p[2]]
    BY <1>0, <1>1, <2>2 DEF PollOk
  <2>5. PollOk(p)'
    BY <1>0, <1>1, <2>1, <2>3, <2>4 DEF PollOk
  <2> QED BY <2>5 DEF ProcWatched, LoadOk, CreateOk, SendOk, At, Idle
<1>4. Known(activeRun)' /\ Watched'
  <2>1. CASE activeRun' = Nothing
    BY <2>1 DEF Known, Watched, InProgress
  <2>2. CASE /\ activeRun' = activeRun
             /\ \A a \in Agents : At(Send(a), {"refresh"}) => At(Send(a), {"refresh"})'
    <3>1. Known(activeRun)'
      BY <1>1, <2>2 DEF Known, Watching
    <3> QED BY <1>2, <2>2, <3>1, StillTame, WatchedStays
  <2> QED BY <2>1, <2>2
<1> QED BY <1>2, <1>3, <1>4, TabStep

LEMMA PollEndsWatches ==
  ASSUME IInv, Watching, NEW p \in Procs, p[1] = "poll", PollEnds(p)
  PROVE  Watching'
<1> DEFINE o == Send(p[2])
           f == Puts(pc, p, Idle)
<1>0. /\ At(p, {"final"}) /\ pollingRunIds' = pollingRunIds \ {<<p[2], p[3]>>}
      /\ UNCHANGED <<server, selectedId, activeRun, sent, answer, rejected>>
  BY DEF PollEnds, account
<1>1. Past(p[2], p[3]) /\ pc \in Places
  BY <1>0 DEF Watching, ProcWatched, PollOk, At, IInv, TypeOK
<1>2. o \in Procs /\ o[1] = "send" /\ o # p /\ SendOk(o) /\ ProcOk(o)
  BY ProcFacts, ProcNames DEF Watching, ProcWatched, IInv
<1>3. \/ pc' = f
      \/ pc' = Puts(f, o, Idle) /\ pc[o].at = "polling"
  BY DEF PollEnds, Finish, Puts, OwnedBySend
<1> HIDE DEF o
<1>4. f \in Places /\ f[p] = Idle /\ \A q \in Procs : q # p => f[q] = pc[q]
  BY <1>1, PutAt, IdlePlace
<1> HIDE DEF f
<1>5. Quiet
  BY <1>0 DEF Quiet
<1>6. CASE pc' = f
  <2>1. \A q \in Procs : q # p => Undisturbed(q)
    BY <1>0, <1>4, <1>6 DEF Undisturbed, Arrived
  <2>2. \A a \in Agents : At(Send(a), {"refresh"}) => At(Send(a), {"refresh"})'
    BY <1>4, <1>6, ProcNames DEF At
  <2> QED BY <1>0, <1>1, <1>4, <1>5, <1>6, <2>1, <2>2, StopsPolling
<1>7. CASE pc' = Puts(f, o, Idle) /\ pc[o].at = "polling"
  <2>1. pc'[o] = Idle /\ \A q \in Procs : q # o => pc'[q] = f[q]
    BY <1>2, <1>4, <1>7, PutAt, IdlePlace
  <2>2. \A q \in Procs : q # p /\ q # o => Undisturbed(q)
    BY <1>0, <1>4, <2>1 DEF Undisturbed, Arrived
  <2>3. ProcWatched(o)'
    <3>1. \A k : ~Awaits(o, k)
      BY <1>2, <1>7 DEF SendOk, At, ProcOk, Expected
    <3>2. \A k : <<o, k>> \notin sent' /\ <<o, k>> \notin rejected' /\ ~Arrived(o, k)'
      BY <1>0, <3>1 DEF Awaits, Arrived
    <3> QED BY <1>2, <2>1, <3>2 DEF ProcWatched, LoadOk, PollOk, CreateOk, SendOk, Awaits,
                                    At, Idle
  <2>4. \A a \in Agents : At(Send(a), {"refresh"}) => At(Send(a), {"refresh"})'
    <3>1. ~At(o, {"refresh"})
      BY <1>7 DEF At
    <3> QED BY <1>4, <2>1, <3>1, ProcNames DEF At
  <2> QED BY <1>0, <1>1, <1>2, <1>4, <1>5, <2>1, <2>2, <2>3, <2>4, StopsPolling
<1> QED BY <1>3, <1>6, <1>7

LEMMA PollRejectedWatches ==
  ASSUME IInv, Watching, NEW p \in Procs, p[1] = "poll", PollRejected(p)
  PROVE  Watching'
<1> DEFINE o == Send(p[2])
           f == Puts(pc, p, Idle)
<1>0. /\ Caught(p) /\ pollingRunIds' = pollingRunIds \ {<<p[2], p[3]>>}
      /\ UNCHANGED <<server, selectedId, answer>>
  BY DEF PollRejected, account
<1>1. /\ rejected' \subseteq rejected /\ \E k : <<p, k>> \in rejected
      /\ pc \in Places
  BY <1>0, CaughtFacts DEF IInv, TypeOK
<1>2. Past(p[2], p[3])
  BY <1>1 DEF Watching, ProcWatched, PollOk
<1>3. o \in Procs /\ o[1] = "send" /\ o # p /\ SendOk(o) /\ ProcOk(o)
  BY ProcFacts, ProcNames DEF Watching, ProcWatched, IInv
<1>4. \/ pc' = f /\ sent' = sent /\ activeRun' = activeRun
      \/ /\ pc' = Goes(f, o, "recover") /\ sent' = sent \cup {<<o, "agents">>}
         /\ activeRun' = Nothing /\ pc[o].at = "polling"
  BY DEF PollRejected, Finish, Puts, Goes, OwnedBySend
<1> HIDE DEF o
<1>5. f \in Places /\ f[p] = Idle /\ \A q \in Procs : q # p => f[q] = pc[q]
  BY <1>1, PutAt, IdlePlace
<1> HIDE DEF f
<1>6. Quiet
  BY <1>0, <1>1 DEF Quiet
<1>7. CASE pc' = f /\ sent' = sent /\ activeRun' = activeRun
  <2>1. \A q \in Procs : q # p => Undisturbed(q)
    BY <1>0, <1>1, <1>5, <1>7 DEF Undisturbed, Arrived
  <2>2. \A a \in Agents : At(Send(a), {"refresh"}) => At(Send(a), {"refresh"})'
    BY <1>5, <1>7, ProcNames DEF At
  <2> QED BY <1>0, <1>2, <1>5, <1>6, <1>7, <2>1, <2>2, StopsPolling
<1>8. CASE /\ pc' = Goes(f, o, "recover") /\ sent' = sent \cup {<<o, "agents">>}
           /\ activeRun' = Nothing /\ pc[o].at = "polling"
  <2>1. pc'[o].at = "recover" /\ \A q \in Procs : q # o => pc'[q] = f[q]
    <3>1. "recover" \in PlaceNames
      BY DEF PlaceNames
    <3>2. Goes(f, o, "recover")[o].at = "recover"
      BY <1>3, <1>5, <3>1, GoesOn
    <3> QED BY <1>3, <1>5, <1>8, <3>1, <3>2, GoesTo
  <2>2. \A q, k : <<q, k>> \in sent' => <<q, k>> \in sent \/ (q = o /\ k = "agents")
    BY <1>8, Pairs
  <2>3. \A q \in Procs : q # p /\ q # o => Undisturbed(q)
    BY <1>0, <1>1, <1>5, <2>1, <2>2 DEF Undisturbed, Arrived
  <2>4. ProcWatched(o)'
    <3>1. \A k : ~Awaits(o, k)
      BY <1>3, <1>8 DEF SendOk, At, ProcOk, Expected
    <3>2. \A k : /\ <<o, k>> \in sent' => k = "agents"
                 /\ <<o, k>> \notin rejected' /\ ~Arrived(o, k)'
      BY <1>0, <1>1, <2>2, <3>1 DEF Awaits, Arrived
    <3> QED BY <1>3, <2>1, <3>2 DEF ProcWatched, LoadOk, PollOk, CreateOk, SendOk, Awaits, At
  <2>5. pc'[p] = Idle /\ \A k : <<p, k>> \in sent' => <<p, k>> \in sent
    BY <1>3, <1>5, <2>1, <2>2
  <2> QED BY <1>0, <1>2, <1>3, <1>6, <1>8, <2>3, <2>4, <2>5, StopsPolling
<1> QED BY <1>4, <1>7, <1>8

-----------------------------------------------------------------------------
(* The session, while nothing fails *)

\* Whatever fails is counted; otherwise the session goes on.
LEMMA OwnFrame ==
  ASSUME NEW p \in Procs, Own(p), failures \in Nat
  PROVE  /\ failures' \in Nat /\ failures <= failures'
         /\ live /\ failures' = failures => live'
<1> USE DEF server, bounds, EvidenceArrives
<1>1. CASE p[1] = "load"
  <2>1. LoadEvidence(p) \/ LoadJoins(p) \/ LoadRejected(p) \/ LoadGivenUp(p)
    BY <1>1 DEF Own
  <2>2. UNCHANGED <<live, failures>>
    BY <2>1 DEF LoadEvidence, LoadJoins, LoadRejected, LoadGivenUp
  <2> QED BY <2>2
<1>2. CASE p[1] = "timer"
  <2>1. Tick(p) \/ TimerEvidence(p) \/ TimerRejected(p)
    BY <1>2 DEF Own
  <2>2. UNCHANGED <<live, failures>>
    BY <2>1 DEF Tick, TimerEvidence, TimerRejected
  <2> QED BY <2>2
<1>3. CASE p[1] = "poll"
  <2>1. PollAnswered(p) \/ PollEvidence(p) \/ PollEnds(p) \/ PollRejected(p)
    BY <1>3 DEF Own
  <2>2. UNCHANGED <<live, failures>>
    BY <2>1 DEF PollAnswered, PollEvidence, PollEnds, PollRejected
  <2> QED BY <2>2
<1>4. CASE p[1] = "send"
  <2>1. ServeSend(p[2]) \/ SendAnswered(p) \/ SendEvidence(p) \/ SendRejected(p)
    BY <1>4 DEF Own
  <2>2. UNCHANGED <<live, failures>>
    BY <2>1 DEF ServeSend, Refuse, SendAnswered, SendEvidence, SendRejected
  <2> QED BY <2>2
<1>5. CASE p[1] = "click"
  <2>1. \/ ServeSession(p) \/ SignInAnswered(p) \/ SignOutAnswered(p)
        \/ ServeLifecycle(p) \/ LifecycleAnswered(p)
        \/ ServeRevoke(p) \/ ServeRehearse(p)
        \/ AuthorityAnswered(p) \/ AuthorityEvidence(p)
        \/ ClickRejected(p)
    BY <1>5 DEF Own
  <2>2. CASE ServeSession(p)
    <3>1. CASE Refuse(p)
      <4>1. live' = live
        BY <3>1 DEF Refuse
      <4>2. failures' = failures \/ failures' = failures + (IF live' THEN 0 ELSE 1)
        BY <2>2 DEF ServeSession
      <4> QED BY <4>1, <4>2
    <3>2. CASE ~Refuse(p)
      <4>1. failures' = failures + (IF live' THEN 0 ELSE 1)
        BY <2>2, <3>2 DEF ServeSession
      <4> QED BY <4>1
    <3> QED BY <3>1, <3>2
  <2>3. CASE ServeLifecycle(p) \/ ServeRevoke(p) \/ ServeRehearse(p)
    <3>1. UNCHANGED <<live, failures>>
      BY <2>3 DEF ServeLifecycle, ServeRevoke, ServeRehearse, Refuse
    <3> QED BY <3>1
  <2>4. CASE SignInAnswered(p) \/ SignOutAnswered(p) \/ LifecycleAnswered(p)
    <3>1. UNCHANGED <<live, failures>>
      BY <2>4 DEF SignInAnswered, SignOutAnswered, LifecycleAnswered
    <3> QED BY <3>1
  <2>5. CASE AuthorityAnswered(p) \/ AuthorityEvidence(p) \/ ClickRejected(p)
    <3>1. UNCHANGED <<live, failures>>
      BY <2>5 DEF AuthorityAnswered, AuthorityEvidence, ClickRejected
    <3> QED BY <3>1
  <2> QED BY <2>1, <2>2, <2>3, <2>4, <2>5
<1> QED BY <1>1, <1>2, <1>3, <1>4, <1>5, ProcFacts

LEMMA FreshStays ==
  ASSUME Fresh, UNCHANGED <<session, selectedId, sent>>, Quiet,
         \A q \in Procs : q[1] = "click" => pc'[q] = pc[q]
  PROVE  Fresh'
<1>1. \A q, k : /\ <<q, k>> \in rejected' => <<q, k>> \in rejected
                /\ Arrived(q, k)' => Arrived(q, k)
  BY QuietFacts
<1> QED BY <1>1 DEF Fresh, At

\* Before the sign-in nothing is going on but the sign-in.
LEMMA FreshOwn ==
  ASSUME IInv, Fresh, NEW p \in Procs, Own(p)
  PROVE  live' \/ Fresh'
<1>0. \A k : <<p, k>> \notin rejected /\ ~Arrived(p, k)
  BY DEF Fresh
<1>1. ~EvidenceArrives(p) /\ ~Caught(p)
  BY <1>0 DEF EvidenceArrives, Caught, Rejections
<1>2. CASE p[1] = "load"
  <2>1. LoadGivenUp(p)
    BY <1>0, <1>1, <1>2 DEF Own, LoadEvidence, LoadJoins, LoadRejected
  <2>2. /\ UNCHANGED <<session, selectedId, sent>> /\ pc' = Puts(pc, p, Idle)
        /\ answer' = Without(p, {"runs"}) /\ rejected' = rejected
    BY <2>1 DEF LoadGivenUp, Finish, Puts, tab, account
  <2>3. \A q \in Procs : q[1] = "click" => pc'[q] = pc[q]
    BY <1>2, <2>2, PutAt, IdlePlace DEF IInv, TypeOK
  <2>4. Quiet
    BY <2>2 DEF Quiet
  <2> QED BY <2>2, <2>3, <2>4, FreshStays
<1>3. CASE p[1] = "timer"
  BY <1>1, <1>3 DEF Own, Tick, TimerEvidence, TimerRejected, Fresh
<1>4. CASE p[1] = "poll"
  <2>1. PollEnds(p)
    BY <1>0, <1>1, <1>4 DEF Own, PollAnswered, PollEvidence, PollRejected
  <2> DEFINE o == Send(p[2])
             f == Puts(pc, p, Idle)
  <2>2. /\ UNCHANGED <<session, selectedId, sent, answer, rejected>>
        /\ pc' = f \/ pc' = Puts(f, o, Idle)
    BY <2>1 DEF PollEnds, Finish, Puts, account
  <2>3. o \in Procs /\ o[1] = "send"
    BY <1>4, ProcFacts, ProcNames
  <2>4. f \in Places /\ \A q \in Procs : q # p => f[q] = pc[q]
    BY PutAt, IdlePlace DEF IInv, TypeOK
  <2> HIDE DEF f, o
  <2>5. \A q \in Procs : q[1] = "click" => pc'[q] = pc[q]
    <3>1. \A q \in Procs : q # o => Puts(f, o, Idle)[q] = f[q]
      BY <2>3, <2>4, PutAt, IdlePlace
    <3> QED BY <1>4, <2>2, <2>3, <2>4, <3>1
  <2>6. Quiet
    BY <2>2 DEF Quiet
  <2> QED BY <2>2, <2>5, <2>6, FreshStays
<1>5. CASE p[1] = "send"
  <2>1. <<Send(p[2]), "post">> \notin sent
    <3>1. p = Send(p[2])
      BY <1>5, ProcFacts
    <3>2. <<p, "post">> \notin sent
      BY <1>5 DEF Fresh
    <3> QED BY <3>1, <3>2
  <2> QED BY <1>0, <1>1, <1>5, <2>1 DEF Own, ServeSend, Serve, SendAnswered, SendEvidence,
                                       SendRejected
<1>6. CASE p[1] = "click"
  <2>1. ServeSession(p) \/ ServeLifecycle(p) \/ ServeRevoke(p) \/ ServeRehearse(p)
    BY <1>0, <1>1, <1>6 DEF Own, SignInAnswered, SignOutAnswered, LifecycleAnswered,
                            AuthorityAnswered, AuthorityEvidence, ClickRejected
  <2>2. <<p, "post">> \in sent
    BY <2>1 DEF ServeSession, ServeLifecycle, ServeRevoke, ServeRehearse, Serve
  <2>3. At(p, {"signIn"})
    BY <2>2 DEF Fresh
  <2>4. ServeSession(p)
    BY <2>1, <2>3 DEF ServeLifecycle, ServeRevoke, ServeRehearse, At
  <2>5. live'
    BY <2>3, <2>4 DEF ServeSession
  <2> QED BY <2>5
<1> QED BY <1>2, <1>3, <1>4, <1>5, <1>6, ProcFacts

LEMMA OwnWatches ==
  ASSUME IInv, Watching, NEW p \in Procs, Own(p)
  PROVE  Watching'
<1>1. CASE p[1] = "load"
  <2>1. LoadEvidence(p) \/ LoadJoins(p) \/ LoadRejected(p) \/ LoadGivenUp(p)
    BY <1>1 DEF Own
  <2> QED BY <1>1, <2>1, LoadWatches, LoadJoinsWatches
<1>2. CASE p[1] = "timer"
  <2>1. Tick(p) \/ TimerEvidence(p) \/ TimerRejected(p)
    BY <1>2 DEF Own
  <2> QED BY <1>2, <2>1, TimerWatches
<1>3. CASE p[1] = "poll"
  <2>1. PollAnswered(p) \/ PollEvidence(p) \/ PollEnds(p) \/ PollRejected(p)
    BY <1>3 DEF Own
  <2> QED BY <1>3, <2>1, PollAnsweredWatches, PollEvidenceWatches, PollEndsWatches,
             PollRejectedWatches
<1>4. CASE p[1] = "send"
  <2>1. ServeSend(p[2]) \/ SendAnswered(p) \/ SendEvidence(p) \/ SendRejected(p)
    BY <1>4 DEF Own
  <2>2. p[2] \in Agents
    BY <1>4, ProcFacts
  <2> QED BY <1>4, <2>1, <2>2, ServeSendWatches, SendAnsweredWatches, SendEvidenceWatches,
             SendRejectedWatches
<1>5. CASE p[1] = "click"
  <2>1. \/ ServeSession(p) \/ SignInAnswered(p) \/ SignOutAnswered(p)
        \/ ServeLifecycle(p) \/ LifecycleAnswered(p)
        \/ ServeRevoke(p) \/ ServeRehearse(p)
        \/ AuthorityAnswered(p) \/ AuthorityEvidence(p)
        \/ ClickRejected(p)
    BY <1>5 DEF Own
  <2> QED BY <1>5, <2>1, ServeClickWatches, ClickWatches, SignOutWatches
<1> QED BY <1>1, <1>2, <1>3, <1>4, <1>5, ProcFacts

-----------------------------------------------------------------------------
(* The invariant *)

LEMMA ProgressKeepsWatch ==
  ASSUME WInv, NEW p \in Procs, Progress(p)
  PROVE  failures' \in Nat /\ (failures' = 0 => SignedIn' /\ Watching')
<1>0. IInv /\ failures \in Nat
  BY DEF WInv
<1>1. ASSUME NEW k \in Reads, AnswerRead(p, k)
      PROVE  failures' \in Nat /\ (failures' = 0 => SignedIn' /\ Watching')
  <2>1. UNCHANGED <<live, failures>> /\ <<p, k>> \in sent
    BY <1>1 DEF AnswerRead, server, bounds
  <2>2. ASSUME failures = 0 PROVE live
    BY <2>1, <2>2 DEF WInv, SignedIn, Fresh, Reads
  <2> QED BY <1>0, <1>1, <2>1, <2>2, ReadWatches DEF WInv, SignedIn
<1>2. CASE AgentsArrive(p)
  <2>1. UNCHANGED <<live, failures>> /\ Arrived(p, "agents")
    BY <1>2 DEF AgentsArrive, server, bounds
  <2>2. ASSUME failures = 0 PROVE live
    BY <2>1, <2>2 DEF WInv, SignedIn, Fresh
  <2> QED BY <1>0, <1>2, <2>1, <2>2, AgentsArriveWatches DEF WInv, SignedIn
<1>3. CASE Own(p)
  <2>1. /\ failures' \in Nat /\ failures <= failures'
        /\ live /\ failures' = failures => live'
    BY <1>0, <1>3, OwnFrame
  <2>2. ASSUME failures' = 0 PROVE SignedIn' /\ Watching'
    <3>1. failures = 0 /\ failures' = failures
      BY <1>0, <2>1, <2>2
    <3>2. Watching'
      BY <1>0, <1>3, <3>1, OwnWatches DEF WInv
    <3>3. SignedIn'
      <4>1. CASE live
        BY <2>1, <3>1, <4>1 DEF SignedIn
      <4>2. CASE ~live
        <5>1. Fresh
          BY <3>1, <4>2 DEF WInv, SignedIn
        <5>2. live' \/ Fresh'
          BY <1>0, <1>3, <5>1, FreshOwn
        <5> QED BY <5>2 DEF SignedIn
      <4> QED BY <4>1, <4>2
    <3> QED BY <3>2, <3>3
  <2> QED BY <2>1, <2>2
<1> QED BY <1>1, <1>2, <1>3 DEF Progress

LEMMA HumanKeepsWatch ==
  ASSUME WInv, Human
  PROVE  failures' \in Nat /\ (failures' = 0 => SignedIn' /\ Watching')
<1>0. IInv /\ failures \in Nat /\ selectedId \in Nat /\ Agents \subseteq Nat /\ NoAgent \in Nat
  BY ClientAssumption DEF WInv, IInv, TypeOK, NoAgent
<1>1. CASE SignInClicked
  <2>1. /\ Clicked("sessionBusy", "signIn", NoAgent)
        /\ UNCHANGED <<live, failures, session, selectedId, answer, rejected>>
    BY <1>1 DEF SignInClicked, Clicked, server, tab, account
  <2>2. "sessionBusy" \in Slots /\ "signIn" \in Requests
    BY DEF Slots, Requests
  <2>3. ASSUME failures = 0 PROVE Watching'
    BY <1>0, <2>1, <2>2, <2>3, ClickedWatches DEF WInv
  <2>4. ASSUME failures = 0 PROVE SignedIn'
    <3>1. CASE live
      BY <2>1, <3>1 DEF SignedIn
    <3>2. CASE ~live
      <4> DEFINE c == Click("sessionBusy")
                 x == [at |-> "signIn", for |-> NoAgent]
      <4>1. Fresh
        BY <2>4, <3>2 DEF WInv, SignedIn
      <4>2. c \in Procs /\ c[1] = "click" /\ x.at = "signIn"
        BY <2>2, ProcNames
      <4>3. pc' = Puts(pc, c, x) /\ sent' = sent \cup {<<c, "post">>}
        BY <2>1 DEF Clicked, Puts
      <4> HIDE DEF c, x
      <4>4. pc'[c] = x /\ \A q \in Procs : q # c => pc'[q] = pc[q]
        BY <1>0, <4>2, <4>3 DEF Puts, IInv, TypeOK, Places
      <4>5. \A q, k : <<q, k>> \in sent' => <<q, k>> \in sent \/ (q = c /\ k = "post")
        BY <4>3, Pairs
      <4>6. Fresh'
        BY <2>1, <4>1, <4>2, <4>4, <4>5 DEF Fresh, At, Arrived
      <4> QED BY <4>6 DEF SignedIn
    <3> QED BY <3>1, <3>2
  <2> QED BY <1>0, <2>1, <2>3, <2>4
\* The other buttons are there after the sign-in only.
<1>2. ASSUME session, UNCHANGED <<live, failures>>,
             failures = 0 => Watching'
      PROVE  failures' \in Nat /\ (failures' = 0 => SignedIn' /\ Watching')
  BY <1>0, <1>2 DEF WInv, SignedIn, Fresh
<1>3. CASE RevokeClicked \/ RehearseClicked
  <2>1. PICK slot \in {"revoking", "resetting"}, kind \in {"revoke", "rehearse"} :
          Clicked(slot, kind, selectedId)
    BY <1>3 DEF RevokeClicked, RehearseClicked
  <2>2. slot \in Slots /\ kind \in Requests /\ kind # "create"
    BY DEF Slots, Requests
  <2>3. session /\ UNCHANGED <<live, failures>>
    BY <1>3, <2>1 DEF RevokeClicked, RehearseClicked, Clicked, server
  <2>4. ASSUME failures = 0 PROVE Watching'
    BY <1>0, <2>1, <2>2, <2>4, ClickedWatches DEF WInv
  <2> QED BY <1>2, <2>3, <2>4
<1>4. ASSUME NEW kind \in Kinds, BusyClicked(kind)
      PROVE  failures' \in Nat /\ (failures' = 0 => SignedIn' /\ Watching')
  <2>1. PICK a \in EnabledFor(kind) : Clicked("busy", kind, a)
    BY <1>4 DEF BusyClicked
  <2>2. kind \in Requests /\ a \in Nat /\ (kind = "create" => a \in Agents)
    BY <1>0, ClientAssumption DEF EnabledFor, Requests, Listed
  <2>3. "busy" \in Slots
    BY DEF Slots
  <2>4. session /\ UNCHANGED <<live, failures>>
    BY <1>4, <2>1 DEF BusyClicked, Clicked, server
  <2>5. ASSUME failures = 0 PROVE Watching'
    BY <1>0, <2>1, <2>2, <2>3, <2>5, ClickedWatches DEF WInv
  <2> QED BY <1>2, <2>4, <2>5
<1>5. ASSUME NEW a \in Agents, SelectClicked(a) \/ SendClicked(a)
      PROVE  failures' \in Nat /\ (failures' = 0 => SignedIn' /\ Watching')
  <2>1. session /\ UNCHANGED <<live, failures>>
    BY <1>5 DEF SelectClicked, SendClicked, server
  <2>2. ASSUME failures = 0 PROVE Watching'
    BY <1>0, <1>5, <2>2, SelectClickedWatches, SendClickedWatches DEF WInv
  <2> QED BY <1>2, <2>1, <2>2
<1> QED BY <1>1, <1>3, <1>4, <1>5 DEF Human

LEMMA WorldKeepsWatch ==
  ASSUME WInv, World
  PROVE  failures' \in Nat /\ (failures' = 0 => SignedIn' /\ Watching')
<1>0. IInv /\ failures \in Nat
  BY DEF WInv
<1>1. ASSUME NEW a \in Agents, EventRecorded(a) \/ RunEnds(a)
      PROVE  failures' \in Nat /\ (failures' = 0 => SignedIn' /\ Watching')
  <2>1. UNCHANGED <<lastRun, live, failures, tab, pc, sent, answer, rejected>>
    BY <1>1 DEF EventRecorded, RunEnds, bounds
  <2>2. UNCHANGED <<session, selectedId, activeRun, pollingRunIds>>
    BY <2>1 DEF tab, account
  <2>3. ASSUME failures = 0 PROVE Watching'
    <3>1. Watching
      BY <2>3 DEF WInv
    <3>2. Tame /\ selectedId' \in Agents \cup {NoAgent}
      BY <1>1, <2>1, <2>2, <3>1 DEF EventRecorded, RunEnds, Tame, Watching, Conditions
    <3>3. \A q \in Procs : Undisturbed(q)
      BY <2>1 DEF Undisturbed, Arrived
    <3>4. \A b \in Agents : At(Send(b), {"refresh"}) => At(Send(b), {"refresh"})'
      BY <2>1 DEF At
    <3> QED BY <1>0, <2>2, <3>1, <3>2, <3>3, <3>4, PlainStep
  <2>4. ASSUME failures = 0 PROVE SignedIn'
    BY <2>1, <2>2, <2>4 DEF WInv, SignedIn, Fresh, At, Arrived
  <2> QED BY <1>0, <2>1, <2>3, <2>4
<1>2. CASE SessionExpires \/ \E p \in Procs, k \in Reads \cup {"post"} : NetworkFails(p, k)
  <2>1. failures' = failures + 1
    BY <1>2 DEF SessionExpires, NetworkFails
  <2> QED BY <1>0, <2>1
<1> QED BY <1>1, <1>2 DEF World

LEMMA InitWatch ==
  ASSUME Init
  PROVE  WInv
<1>1. DOMAIN answer = {} /\ sent = {} /\ rejected = {}
  BY DEF Init
<1>2. \A q, k : ~Awaits(q, k)
  BY <1>1 DEF Awaits, Arrived
<1>3. \A q \in Procs : pc[q] = Idle
  BY DEF Init
<1>4. SignedIn
  BY <1>2 DEF Init, SignedIn, Fresh, Awaits
<1>5. \A q \in Procs : ProcWatched(q)
  BY <1>2, <1>3 DEF ProcWatched, LoadOk, CreateOk, PollOk, SendOk, Awaits, At, Idle
<1>6. Known(activeRun) /\ Watched /\ selectedId \in Agents \cup {NoAgent} /\ failures \in Nat
  BY DEF Init, Known, Watched, InProgress
<1>7. status \in [Agents -> Conditions]
  BY ClientAssumption DEF Init, Conditions
<1> QED BY <1>4, <1>5, <1>6, <1>7, InitInv DEF WInv, Watching

LEMMA StepWatch ==
  ASSUME WInv, [Next]_vars
  PROVE  WInv'
<1>1. IInv'
  BY StepInv DEF WInv
<1>2. ASSUME NEW p \in Procs, Progress(p) PROVE WInv'
  BY <1>1, <1>2, ProgressKeepsWatch DEF WInv
<1>3. CASE Human
  BY <1>1, <1>3, HumanKeepsWatch DEF WInv
<1>4. CASE World
  BY <1>1, <1>4, WorldKeepsWatch DEF WInv
<1>5. CASE UNCHANGED vars
  <2>1. /\ UNCHANGED <<server, selectedId, session, activeRun, pollingRunIds, pc, sent, answer>>
        /\ UNCHANGED <<rejected, failures, live>>
    BY <1>5 DEF vars, server, tab, account, bounds
  <2>2. ASSUME failures = 0 PROVE Watching'
    <3>1. Watching /\ IInv
      BY <2>2 DEF WInv
    <3>2. Tame /\ selectedId' \in Agents \cup {NoAgent}
      BY <2>1, <3>1, StillTame DEF Watching
    <3>3. \A q \in Procs : Undisturbed(q)
      BY <2>1 DEF Undisturbed, Arrived
    <3>4. \A b \in Agents : At(Send(b), {"refresh"}) => At(Send(b), {"refresh"})'
      BY <2>1 DEF At
    <3> QED BY <2>1, <3>1, <3>2, <3>3, <3>4, PlainStep
  <2>3. ASSUME failures = 0 PROVE SignedIn'
    BY <2>1, <2>3 DEF WInv, SignedIn, Fresh, At, Arrived
  <2> QED BY <1>1, <2>1, <2>2, <2>3 DEF WInv
<1> QED BY <1>2, <1>3, <1>4, <1>5 DEF Next

\* The second inductive invariant: while nothing fails, a poller that has stopped, or is
\* about to, polled a Run that has ended, and sendMessage is about the newest Run.
THEOREM WatchInvariant == Spec => []WInv
<1>1. Init => WInv
  BY InitWatch
<1>2. WInv /\ [Next]_vars => WInv'
  BY StepWatch
<1> QED BY <1>1, <1>2, PTL DEF Spec

\* A Run shown as in progress that is in progress is being polled, or about to be, while
\* no request was lost and the session goes on: for any number of Agents, of Runs and of
\* loads, pollers and buttons that overlap (App.tsx, pollRun and its pollingRunIds).
THEOREM OpenRunIsWatchedHolds == Spec => []OpenRunIsWatched
<1>1. WInv => OpenRunIsWatched
  BY DEF WInv, Watching, Watched, OpenRunIsWatched
<1> QED BY <1>1, WatchInvariant, PTL

=============================================================================
