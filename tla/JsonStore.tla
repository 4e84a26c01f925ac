------------------------------ MODULE JsonStore -----------------------------
(***************************************************************************)
(* The JSON store: a document in memory, a file, one promise chain.        *)
(*                                                                         *)
(* mutate clones the document, lets the caller change the clone, writes it *)
(* to a temporary file, renames that over the file and only then publishes *)
(* the clone.  initialize reads the file, migrates it if it is old, and    *)
(* persists what it changed.  Every await is a step boundary; the process  *)
(* can die at each.  A write is not atomic, a rename is.                   *)
(*                                                                         *)
(* The document is abstract: its version, what was done to it in order     *)
(* (the application history of an older version, then calls of mutate) and *)
(* the security evidence it holds (authority records and audit events).    *)
(***************************************************************************)
EXTENDS Naturals, Sequences

CONSTANTS Calls,         \* calls of mutate
          Boot,          \* the writer that initialize is
          None,
          Recording,     \* the calls that add security evidence
          History,       \* the Agents, messages and Runs of an older version
          Evidence,      \* its authority records and audit events
          Absent, Torn, Unsupported,  \* what a file can hold other than a document
          MaxRestarts    \* bound of the model

Document == [version : {"old", "current"},
             log : Seq(Calls \cup {History}), evidence : Seq(Calls \cup {Evidence})]

ASSUME StoreAssumption ==
  /\ Boot \notin Calls /\ None \notin Calls
  /\ History \notin Calls /\ Evidence \notin Calls /\ Recording \subseteq Calls
  /\ {Absent, Torn, Unsupported} \cap Document = {}
  /\ Absent # Torn /\ Absent # Unsupported
  /\ MaxRestarts \in Nat

Writers == Calls \cup {Boot}

VARIABLES file,      \* the database file
          tmp,       \* the temporary file beside it
          data,      \* the document in memory
          up,        \* initialize has returned and the process lives
          queue,     \* the tail of the promise chain: the last call, or None
          previous,  \* the call whose promise each call waits for
          next,      \* the clone that each writer works on
          pc,
          arrivals,  \* history: the calls that are not settled, in order of arrival
          restarts

chainVars == <<queue, previous, arrivals>>
vars == <<file, tmp, data, up, chainVars, next, pc, restarts>>

Settled == {"committed", "failed", "lost"}
Persisting == {"writing", "torn", "renaming"}
Progress == {"idle", "queued", "mutating", "publishing"} \cup Persisting \cup Settled

TypeOK == /\ file \in Document \cup {Absent, Unsupported}
          /\ tmp \in Document \cup {Absent, Torn}
          /\ data \in Document
          /\ up \in BOOLEAN
          /\ queue \in Calls \cup {None}
          /\ previous \in [Calls -> Calls \cup {None}]
          /\ next \in [Writers -> Document]
          /\ pc \in [Writers -> Progress]
          /\ arrivals \in Seq(Calls)
          /\ restarts \in Nat

Empty == [version |-> "current", log |-> <<>>, evidence |-> <<>>]

\* Documents of the versions before 5; the first of them recorded no evidence.
OldDocuments == [version : {"old"}, log : {<<History>>}, evidence : {<<>>, <<Evidence>>}]

\* The first start may find no file, an old one, or one it does not understand.
Init == /\ file \in {Absent, Unsupported} \cup OldDocuments
        /\ tmp = Absent
        /\ data = Empty
        /\ up = FALSE
        /\ queue = None
        /\ previous = [c \in Calls |-> None]
        /\ next = [w \in Writers |-> Empty]
        /\ pc = [w \in Writers |-> "idle"]
        /\ arrivals = <<>>
        /\ restarts = 0

Go(w, step) == pc' = [pc EXCEPT ![w] = step]

-----------------------------------------------------------------------------
(* initialize *)

\* mutant: the security evidence of an old document passes for current evidence
MigratedWhole(document) == [document EXCEPT !.version = "current"]
\* What an old document becomes: the application history is retained, the security
\* evidence is not reinterpreted but reset.
Migrated(document) == [document EXCEPT !.version = "current", !.evidence = <<>>]

\* The file is read: it is served as it is, or a document has to be persisted first.
Load == /\ ~up /\ pc[Boot] = "idle"
        /\ file # Unsupported
        /\ IF file # Absent /\ file.version = "current"
             THEN /\ data' = file
                  /\ up' = TRUE
                  /\ UNCHANGED <<next, pc>>
             ELSE /\ data' = IF file = Absent THEN Empty ELSE Migrated(file)
                  /\ next' = [next EXCEPT ![Boot] = data']
                  /\ Go(Boot, "writing")
                  /\ UNCHANGED up
        /\ UNCHANGED <<file, tmp, chainVars, restarts>>

Serve == /\ pc[Boot] = "publishing"
         /\ up' = TRUE
         /\ Go(Boot, "idle")
         /\ UNCHANGED <<file, tmp, data, chainVars, next, restarts>>

\* initialize throws, the process ends and is started again.
BootFails == /\ pc[Boot] \in Persisting
             /\ data' = Empty
             /\ Go(Boot, "idle")
             /\ UNCHANGED <<file, tmp, up, chainVars, next, restarts>>

-----------------------------------------------------------------------------
(* mutate *)

\* mutant: a call waits for the one before the tail
BeforeTail == IF queue = None THEN None ELSE previous[queue]
ChainTail == queue

\* The chain: queue.then(...), and queue becomes this call, whatever its outcome.
Mutate(c) == /\ up /\ pc[c] = "idle"
             /\ previous' = [previous EXCEPT ![c] = ChainTail]
             /\ queue' = c
             /\ arrivals' = Append(arrivals, c)
             /\ Go(c, "queued")
             /\ UNCHANGED <<file, tmp, data, up, next, restarts>>

\* mutant: the chain goes on only after success
ResolvedBySuccess(promise) == promise # None => pc[promise] = "committed"
\* What the tail of the chain catches, so that a failure does not stop the next call.
Resolved(promise) == promise # None => pc[promise] \in Settled

\* The promise before resolved: the document is cloned and the mutation called.
Clone(c) == /\ pc[c] = "queued"
            /\ Resolved(previous[c])
            /\ next' = [next EXCEPT ![c] = data]
            /\ Go(c, "mutating")
            /\ UNCHANGED <<file, tmp, data, up, chainVars, restarts>>

\* What the mutation makes of its document.
With(document, c) ==
  [version  |-> document.version,
   log      |-> Append(document.log, c),
   evidence |-> IF c \in Recording THEN Append(document.evidence, c) ELSE document.evidence]

\* mutant: the mutation works on the document itself
ChangeInPlace(c) == /\ pc[c] = "mutating"
                    /\ data' = With(data, c)
                    /\ next' = [next EXCEPT ![c] = With(@, c)]
                    /\ Go(c, "writing")
                    /\ UNCHANGED <<file, tmp, up, chainVars, restarts>>
\* The mutation returns; it may have awaited a signature.
Change(c) == /\ pc[c] = "mutating"
             /\ next' = [next EXCEPT ![c] = With(@, c)]
             /\ Go(c, "writing")
             /\ UNCHANGED <<file, tmp, data, up, chainVars, restarts>>

Settle(c, outcome) == /\ Go(c, outcome)
                      /\ arrivals' = Tail(arrivals)

\* The mutation or a file operation throws: nothing is published.
Fail(c) == /\ pc[c] \in {"mutating"} \cup Persisting
           /\ Settle(c, "failed")
           /\ UNCHANGED <<file, tmp, data, up, queue, previous, next, restarts>>

Publish(c) == /\ pc[c] = "publishing"
              /\ data' = next[c]
              /\ Settle(c, "committed")
              /\ UNCHANGED <<file, tmp, up, queue, previous, next, restarts>>

-----------------------------------------------------------------------------
(* persist *)

StartWrite(w) == /\ pc[w] = "writing"
                 /\ tmp' = Torn
                 /\ Go(w, "torn")
                 /\ UNCHANGED <<file, data, up, chainVars, next, restarts>>

EndWrite(w) == /\ pc[w] = "torn"
               /\ tmp' = next[w]
               /\ Go(w, "renaming")
               /\ UNCHANGED <<file, data, up, chainVars, next, restarts>>

Rename(w) == /\ pc[w] = "renaming"
             /\ file' = tmp
             /\ tmp' = Absent
             /\ Go(w, "publishing")
             /\ UNCHANGED <<data, up, chainVars, next, restarts>>

-----------------------------------------------------------------------------
Running == {w \in Writers : pc[w] \notin {"idle"} \cup Settled}

\* The process dies: memory and the promise chain are gone, both files stay.
Crash == /\ restarts < MaxRestarts
         /\ restarts' = restarts + 1
         /\ up' = FALSE
         /\ data' = Empty
         /\ queue' = None
         /\ previous' = [c \in Calls |-> None]
         /\ arrivals' = <<>>
         /\ next' = [w \in Writers |-> Empty]
         /\ pc' = [w \in Writers |-> IF w = Boot THEN "idle"
                                     ELSE IF w \in Running THEN "lost" ELSE pc[w]]
         /\ UNCHANGED <<file, tmp>>

CallStep(c) == Clone(c) \/ Change(c) \/ Fail(c) \/ Publish(c)
PersistStep(w) == StartWrite(w) \/ EndWrite(w) \/ Rename(w)

Next == \/ Load \/ Serve \/ BootFails
        \/ \E c \in Calls : Mutate(c) \/ CallStep(c)
        \/ \E w \in Writers : PersistStep(w)
        \/ Crash

\* Mutations and file operations settle.  Nothing starts the process again.
Fairness == \A c \in Calls : WF_vars(CallStep(c) \/ PersistStep(c))

Spec == Init /\ [][Next]_vars /\ Fairness

-----------------------------------------------------------------------------
LogOf(document) == IF document \in {Absent, Unsupported} THEN <<>> ELSE document.log

InLog(c, log) == \E i \in 1 .. Len(log) : log[i] = c

\* What a reader of memory is shown survives any crash: the document in memory is the
\* one on disk, but for the one call that is about to publish what is there already.
MemoryIsDurable ==
  up => \/ file = data
        \/ \E c \in Calls : /\ pc[c] = "publishing" /\ file = next[c]
                            /\ file = With(data, c)

\* A call that was acknowledged is on disk for good; one that was refused is not,
\* in memory or on disk, and neither is one that has yet to rename.
OutcomesAreTrue ==
  \A c \in Calls :
    /\ pc[c] = "committed" => InLog(c, LogOf(file))
    /\ pc[c] \in {"idle", "queued", "mutating", "failed"} \cup Persisting =>
         ~InLog(c, LogOf(file)) /\ ~InLog(c, data.log)

\* Application history is never lost, cut short or taken back to an old version, and a
\* file that is not understood is never touched.  Security evidence is dropped once, by
\* the migration of an older version, none of which is ever taken for current evidence
\* (migrateDatabase; "retains application history but resets pre-v5 security evidence",
\* store.test.ts:59); from then on the file changes only by one call at a time.
FileMovesForward ==
  [][file' # file =>
       /\ file # Unsupported
       /\ file' \notin {Absent, Torn, Unsupported} /\ file'.version = "current"
       /\ IF file # Absent /\ file.version = "current"
            THEN \E c \in Calls :
                   /\ LogOf(file') = Append(LogOf(file), c)
                   /\ file'.evidence \in {file.evidence, Append(file.evidence, c)}
            ELSE LogOf(file') = LogOf(file) /\ file'.evidence = <<>>]_vars

\* The store is the durable log that its callers rely on.
Log == INSTANCE DurableLog WITH
         History <- {History},
         durable <- LogOf(file),
         visible <- IF up THEN data.log ELSE LogOf(file),
         queue   <- arrivals,
         outcome <- [c \in Calls |-> IF pc[c] \in Settled THEN pc[c] ELSE "none"]
ImplementsDurableLog == Log!LogSpec

\* No call waits for ever, however those before it end.
EveryMutationSettles == \A c \in Calls : pc[c] # "idle" ~> pc[c] \in Settled
=============================================================================
