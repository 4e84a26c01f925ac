-------------------------- MODULE JsonStoreProofs --------------------------
(***************************************************************************)
(* The store never loses, tears or reorders a mutation, for any number of  *)
(* calls and of crashes: type correctness, the invariants that the runs    *)
(* check, and that JsonStore implements DurableLog.                        *)
(***************************************************************************)
EXTENDS JsonStore, SequenceTheorems, TLAPS

-----------------------------------------------------------------------------
(* The inductive invariant *)

\* The calls that are not settled stand in arrivals once each; every one but the first
\* waits for the one before it, and the tail of the chain is the last.
ChainOrder ==
  /\ \A i, j \in 1 .. Len(arrivals) : arrivals[i] = arrivals[j] => i = j
  /\ \A i \in 1 .. Len(arrivals) : arrivals[i] \in Running
  /\ \A c \in Calls : c \in Running => \E i \in 1 .. Len(arrivals) : arrivals[i] = c
  /\ \A i \in 2 .. Len(arrivals) : /\ pc[arrivals[i]] = "queued"
                                   /\ previous[arrivals[i]] = arrivals[i - 1]
  /\ arrivals # <<>> => queue = arrivals[Len(arrivals)]

\* initialize and mutate do not overlap.
BootAlone == /\ pc[Boot] \in {"idle", "publishing"} \cup Persisting
             /\ up => pc[Boot] = "idle"
             /\ ~up => arrivals = <<>>

\* What each writer's clone has to do with the document in memory.
CloneOfData ==
  /\ \A c \in Calls : pc[c] = "mutating" => next[c] = data
  /\ \A c \in Calls : pc[c] \in Persisting \cup {"publishing"} =>
                        next[c] = With(data, c)
  /\ pc[Boot] \in Persisting \cup {"publishing"} => next[Boot] = data
  /\ \A w \in Writers : pc[w] = "renaming" => tmp = next[w]

\* What the file has to do with the document in memory.
FileOfData ==
  /\ up => /\ file \in Document /\ file.version = "current"
           /\ data.version = "current"
           /\ \A c \in Calls : pc[c] = "publishing" => file = next[c]
           /\ (\A c \in Calls : pc[c] # "publishing") => file = data
  /\ pc[Boot] \in Persisting => /\ file # Unsupported
                                /\ file # Absent => file.version # "current"
                                /\ data.version = "current" /\ data.log = LogOf(file)
                                /\ data.evidence = <<>>
  /\ pc[Boot] = "publishing" => file = data /\ data.version = "current"
  /\ ~up /\ pc[Boot] = "idle" => data = Empty

IInv == TypeOK /\ ChainOrder /\ BootAlone /\ CloneOfData /\ FileOfData /\ OutcomesAreTrue

-----------------------------------------------------------------------------
(* Documents and sequences *)

\* A document that a call is appended to is a document of the same version, and none
\* is mistaken for a file that holds none.
LEMMA DocumentFacts ==
  ASSUME NEW d \in Document
  PROVE  /\ d.log \in Seq(Calls \cup {History}) /\ d.version \in {"old", "current"}
         /\ d \notin {Absent, Torn, Unsupported}
         /\ LogOf(d) = d.log
         /\ \A c \in Calls : /\ With(d, c) \in Document
                             /\ With(d, c).log = Append(d.log, c)
                             /\ With(d, c).version = d.version
                             /\ With(d, c).evidence \in {d.evidence, Append(d.evidence, c)}
         /\ Migrated(d) \in Document
         /\ Migrated(d).log = d.log /\ Migrated(d).version = "current"
         /\ Migrated(d).evidence = <<>>
<1>1. d \notin {Absent, Torn, Unsupported}
  BY StoreAssumption
<1>2. \A c \in Calls : /\ With(d, c) \in Document
                       /\ With(d, c).log = Append(d.log, c)
                       /\ With(d, c).version = d.version
                       /\ With(d, c).evidence \in {d.evidence, Append(d.evidence, c)}
  <2> SUFFICES ASSUME NEW c \in Calls
               PROVE  /\ With(d, c) \in Document
                      /\ With(d, c).log = Append(d.log, c)
                      /\ With(d, c).version = d.version
                      /\ With(d, c).evidence \in {d.evidence, Append(d.evidence, c)}
    OBVIOUS
  <2>1. /\ d.log \in Seq(Calls \cup {History}) /\ d.evidence \in Seq(Calls \cup {Evidence})
        /\ d.version \in {"old", "current"}
        /\ d = [version |-> d.version, log |-> d.log, evidence |-> d.evidence]
    BY DEF Document
  <2>2. /\ Append(d.log, c) \in Seq(Calls \cup {History})
        /\ Append(d.evidence, c) \in Seq(Calls \cup {Evidence})
    BY <2>1
  <2>3. With(d, c) = [version |-> d.version, log |-> Append(d.log, c),
                      evidence |-> IF c \in Recording THEN Append(d.evidence, c)
                                                      ELSE d.evidence]
    BY DEF With
  <2> QED BY <2>1, <2>2, <2>3 DEF Document
<1>3. /\ Migrated(d) \in Document /\ Migrated(d).evidence = <<>>
      /\ Migrated(d).log = d.log /\ Migrated(d).version = "current"
  <2>1. <<>> \in Seq(Calls \cup {Evidence})
    OBVIOUS
  <2> QED BY <2>1 DEF Document, Migrated
<1> QED BY <1>1, <1>2, <1>3 DEF Document, LogOf

\* The empty document is one.
LEMMA EmptyFacts == /\ Empty \in Document /\ Empty.log = <<>> /\ Empty.evidence = <<>>
                    /\ Empty.version = "current"
BY DEF Empty, Document

\* Appending puts one more member into a log.
LEMMA InLogAppend ==
  ASSUME NEW S, NEW s \in Seq(S), NEW b \in S, NEW c
  PROVE  InLog(c, Append(s, b)) <=> InLog(c, s) \/ c = b
<1>1. /\ Len(Append(s, b)) = Len(s) + 1 /\ Len(s) \in Nat
      /\ Append(s, b)[Len(s) + 1] = b
      /\ \A i \in 1 .. Len(s) : Append(s, b)[i] = s[i]
  OBVIOUS
<1>2. ASSUME InLog(c, Append(s, b)) PROVE InLog(c, s) \/ c = b
  <2>1. PICK i \in 1 .. Len(s) + 1 : Append(s, b)[i] = c
    BY <1>1, <1>2 DEF InLog
  <2>2. CASE i = Len(s) + 1
    BY <1>1, <2>1, <2>2
  <2>3. CASE i \in 1 .. Len(s)
    BY <1>1, <2>1, <2>3 DEF InLog
  <2> QED BY <1>1, <2>1, <2>2, <2>3
<1>3. ASSUME InLog(c, s) PROVE InLog(c, Append(s, b))
  <2>1. PICK i \in 1 .. Len(s) : s[i] = c
    BY <1>3 DEF InLog
  <2>2. i \in 1 .. Len(s) + 1 /\ Append(s, b)[i] = c
    BY <1>1, <2>1
  <2> QED BY <1>1, <2>2 DEF InLog
<1>4. ASSUME c = b PROVE InLog(c, Append(s, b))
  BY <1>1, <1>4 DEF InLog
<1> QED BY <1>2, <1>3, <1>4

\* What Tail does to a sequence that is not empty.
LEMMA TailOf ==
  ASSUME NEW S, NEW s \in Seq(S), s # <<>>
  PROVE  /\ Len(s) \in Nat \ {0} /\ Tail(s) \in Seq(S)
         /\ Len(Tail(s)) = Len(s) - 1
         /\ Len(s) = 1 <=> Tail(s) = <<>>
         /\ \A i \in 1 .. Len(s) - 1 : Tail(s)[i] = s[i + 1]
<1>1. Tail(s) \in Seq(S) /\ Len(s) \in Nat \ {0}
  BY EmptySeq
<1>2. Len(Tail(s)) = Len(s) - 1 /\ \A i \in 1 .. Len(s) - 1 : Tail(s)[i] = s[i + 1]
  BY <1>1
<1>3. Tail(s) = <<>> <=> Len(Tail(s)) = 0
  BY <1>1, EmptySeq
<1> QED BY <1>1, <1>2, <1>3

-----------------------------------------------------------------------------
(* Who works *)

Working == {"mutating", "publishing"} \cup Persisting

\* Only the first call of the chain works on a clone.
LEMMA WorkerIsFirst ==
  ASSUME IInv, NEW c \in Calls,
         pc[c] \in Working \/ (pc[c] = "queued" /\ Resolved(previous[c]))
  PROVE  /\ up /\ arrivals # <<>> /\ arrivals[1] = c /\ Head(arrivals) = c
         /\ \A d \in Calls : d # c => pc[d] \in {"idle", "queued"} \cup Settled
         /\ pc[Boot] = "idle" /\ c # Boot
<1> USE DEF IInv
<1>1. c \in Running /\ arrivals \in Seq(Calls) /\ Len(arrivals) \in Nat
  BY DEF Running, Writers, Working, Persisting, Settled, TypeOK
<1>2. PICK i \in 1 .. Len(arrivals) : arrivals[i] = c
  BY <1>1 DEF ChainOrder
<1>3. i = 1
  <2> SUFFICES ASSUME i \in 2 .. Len(arrivals) PROVE FALSE
    BY <1>1, <1>2
  <2>1. pc[c] = "queued" /\ previous[c] = arrivals[i - 1]
    BY <1>2 DEF ChainOrder
  <2>2. Resolved(previous[c])
    BY <2>1 DEF Working, Persisting
  <2>3. i - 1 \in 1 .. Len(arrivals)
    BY <1>1, <1>2
  <2>4. previous[c] \in Running /\ previous[c] \in Calls
    BY <1>1, <2>1, <2>3 DEF ChainOrder
  <2> QED BY <2>2, <2>4, StoreAssumption DEF Resolved, Running
<1>4. arrivals # <<>> /\ Head(arrivals) = c
  BY <1>1, <1>2, <1>3
<1>5. up /\ pc[Boot] = "idle" /\ c # Boot
  BY <1>4, StoreAssumption DEF BootAlone, TypeOK
<1>6. ASSUME NEW d \in Calls, d # c PROVE pc[d] \in {"idle", "queued"} \cup Settled
  <2>1. CASE d \in Running
    <3>1. PICK j \in 1 .. Len(arrivals) : arrivals[j] = d
      BY <2>1 DEF ChainOrder
    <3>2. j \in 2 .. Len(arrivals)
      BY <1>1, <1>2, <1>3, <1>6, <3>1
    <3> QED BY <3>1, <3>2 DEF ChainOrder
  <2>2. CASE d \notin Running
    BY <2>2 DEF Running, Writers
  <2> QED BY <2>1, <2>2
<1> QED BY <1>2, <1>3, <1>4, <1>5, <1>6


\* While the store is not served no call is under way.
LEMMA NoCallRuns ==
  ASSUME IInv, ~up
  PROVE  arrivals = <<>> /\ \A c \in Calls : c \notin Running /\ pc[c] \in {"idle"} \cup Settled
<1>1. arrivals = <<>>
  BY DEF IInv, BootAlone
<1>2. ASSUME NEW c \in Calls, c \in Running PROVE FALSE
  <2>1. PICK i \in 1 .. Len(arrivals) : arrivals[i] = c
    BY <1>2 DEF IInv, ChainOrder
  <2>2. Len(arrivals) = 0
    BY <1>1
  <2> QED BY <2>1, <2>2
<1> QED BY <1>1, <1>2 DEF Running, Writers

\* A writer that goes on under way leaves the set of those that run as it is.
LEMMA RunningKept ==
  ASSUME TypeOK, NEW w \in Writers, NEW step, Go(w, step),
         w \in Running, step \notin {"idle"} \cup Settled
  PROVE  /\ Running' = Running
         /\ pc'[w] = step /\ \A v \in Writers \ {w} : pc'[v] = pc[v]
BY DEF TypeOK, Go, Running

\* The order of the chain survives a step that leaves the chain alone and takes at most
\* its first call out of the waiting.
LEMMA ChainKept ==
  ASSUME TypeOK, ChainOrder, UNCHANGED chainVars,
         \A c \in Calls : c \in Running' <=> c \in Running,
         \A c \in Calls : pc[c] = "queued" /\ pc'[c] # "queued" => c = arrivals[1]
  PROVE  ChainOrder'
<1>1. UNCHANGED <<queue, previous, arrivals>>
  BY DEF chainVars
<1>2. /\ arrivals \in Seq(Calls) /\ Len(arrivals) \in Nat
      /\ \A i \in 1 .. Len(arrivals) : arrivals[i] \in Calls
  BY DEF TypeOK
<1>3. \A i \in 2 .. Len(arrivals) : pc'[arrivals[i]] = "queued"
  <2> SUFFICES ASSUME NEW i \in 2 .. Len(arrivals) PROVE pc'[arrivals[i]] = "queued"
    OBVIOUS
  <2>1. i \in 1 .. Len(arrivals) /\ 1 \in 1 .. Len(arrivals) /\ i # 1
    BY <1>2
  <2>2. arrivals[i] # arrivals[1] /\ pc[arrivals[i]] = "queued" /\ arrivals[i] \in Calls
    BY <1>2, <2>1 DEF ChainOrder
  <2> QED BY <2>2
<1> QED BY <1>1, <1>2, <1>3 DEF ChainOrder

\* The first call settles: the others move up.
LEMMA ChainAfterSettle ==
  ASSUME IInv, NEW c \in Calls, pc[c] \in Working,
         NEW outcome \in Settled, Settle(c, outcome), UNCHANGED <<queue, previous>>
  PROVE  /\ ChainOrder' /\ arrivals' \in Seq(Calls)
         /\ pc'[c] = outcome /\ \A v \in Writers \ {c} : pc'[v] = pc[v]
<1> USE DEF IInv
<1>1. /\ arrivals \in Seq(Calls) /\ arrivals # <<>> /\ arrivals[1] = c
      /\ c \in Writers
  BY WorkerIsFirst DEF TypeOK, Writers
<1>2. /\ pc'[c] = outcome /\ \A v \in Writers \ {c} : pc'[v] = pc[v]
      /\ arrivals' = Tail(arrivals)
  BY <1>1 DEF Settle, Go, TypeOK
<1>3. /\ Len(arrivals) \in Nat \ {0} /\ arrivals' \in Seq(Calls)
      /\ Len(arrivals') = Len(arrivals) - 1
      /\ Len(arrivals) = 1 <=> arrivals' = <<>>
      /\ \A i \in 1 .. Len(arrivals) - 1 : arrivals'[i] = arrivals[i + 1]
      /\ \A i \in 1 .. Len(arrivals) : arrivals[i] \in Calls
  BY <1>1, <1>2, TailOf
<1>4. \A i \in 1 .. Len(arrivals') : /\ i + 1 \in 2 .. Len(arrivals)
                                     /\ i + 1 \in 1 .. Len(arrivals)
                                     /\ arrivals'[i] = arrivals[i + 1]
                                     /\ arrivals'[i] \in Calls
                                     /\ arrivals'[i] # c
  <2> SUFFICES ASSUME NEW i \in 1 .. Len(arrivals')
               PROVE  /\ i + 1 \in 2 .. Len(arrivals)
                      /\ i + 1 \in 1 .. Len(arrivals)
                      /\ arrivals'[i] = arrivals[i + 1]
                      /\ arrivals[i + 1] \in Calls
                      /\ arrivals[i + 1] # c
    BY <1>3
  <2>1. /\ i + 1 \in 2 .. Len(arrivals) /\ i + 1 \in 1 .. Len(arrivals)
        /\ 1 \in 1 .. Len(arrivals) /\ i + 1 # 1 /\ arrivals'[i] = arrivals[i + 1]
    BY <1>3
  <2> QED BY <1>1, <1>3, <2>1 DEF ChainOrder
<1>5. c \notin Running' /\ \A d \in Calls \ {c} : d \in Running' <=> d \in Running
  BY <1>2 DEF Running, Writers
<1>6. \A i, j \in 1 .. Len(arrivals') : arrivals'[i] = arrivals'[j] => i = j
  <2> SUFFICES ASSUME NEW i \in 1 .. Len(arrivals'), NEW j \in 1 .. Len(arrivals'),
                      arrivals'[i] = arrivals'[j]
               PROVE  i = j
    OBVIOUS
  <2>1. i + 1 = j + 1
    BY <1>4 DEF ChainOrder
  <2> QED BY <2>1, <1>3
<1>7. \A i \in 1 .. Len(arrivals') : arrivals'[i] \in Running'
  BY <1>4, <1>5 DEF ChainOrder
<1>8. ASSUME NEW d \in Calls, d \in Running' PROVE \E i \in 1 .. Len(arrivals') : arrivals'[i] = d
  <2>1. d # c /\ d \in Running
    BY <1>5, <1>8
  <2>2. PICK i \in 1 .. Len(arrivals) : arrivals[i] = d
    BY <2>1 DEF ChainOrder
  <2>3. i # 1
    BY <1>1, <2>1, <2>2
  <2>4. i - 1 \in 1 .. Len(arrivals') /\ (i - 1) + 1 = i /\ i - 1 \in 1 .. Len(arrivals) - 1
    BY <1>3, <2>2, <2>3
  <2>5. arrivals'[i - 1] = arrivals[(i - 1) + 1]
    BY <1>3, <2>4
  <2> QED BY <2>2, <2>4, <2>5
<1>9. \A i \in 2 .. Len(arrivals') : /\ pc'[arrivals'[i]] = "queued"
                                     /\ previous'[arrivals'[i]] = arrivals'[i - 1]
  <2> SUFFICES ASSUME NEW i \in 2 .. Len(arrivals')
               PROVE  /\ pc'[arrivals'[i]] = "queued"
                      /\ previous'[arrivals'[i]] = arrivals'[i - 1]
    OBVIOUS
  <2>1. /\ i \in 1 .. Len(arrivals') /\ i - 1 \in 1 .. Len(arrivals')
        /\ i + 1 \in 2 .. Len(arrivals) /\ (i + 1) - 1 = i /\ (i - 1) + 1 = i
    BY <1>3
  <2>2. /\ arrivals'[i] = arrivals[i + 1] /\ arrivals'[i - 1] = arrivals[i]
        /\ arrivals'[i] \in Calls /\ arrivals'[i] # c
    BY <1>4, <2>1
  <2>3. pc[arrivals[i + 1]] = "queued" /\ previous[arrivals[i + 1]] = arrivals[i]
    BY <2>1 DEF ChainOrder
  <2> QED BY <1>2, <2>2, <2>3 DEF Writers
<1>10. arrivals' # <<>> => queue' = arrivals'[Len(arrivals')]
  <2> SUFFICES ASSUME arrivals' # <<>> PROVE queue' = arrivals'[Len(arrivals')]
    OBVIOUS
  <2>1. /\ Len(arrivals') \in 1 .. Len(arrivals) - 1
        /\ Len(arrivals') + 1 = Len(arrivals)
    BY <1>3
  <2>2. arrivals'[Len(arrivals')] = arrivals[Len(arrivals)]
    BY <1>3, <2>1
  <2> QED BY <1>1, <2>2 DEF ChainOrder
<1> QED BY <1>2, <1>3, <1>6, <1>7, <1>8, <1>9, <1>10 DEF ChainOrder

-----------------------------------------------------------------------------
(* Every step keeps the invariant *)

\* The initial state satisfies the invariant.
LEMMA InitInv ==
  ASSUME Init
  PROVE  IInv
<1> USE DEF Init
<1>1. TypeOK
  <2>1. OldDocuments \subseteq Document
    <3>1. /\ <<History>> \in Seq(Calls \cup {History})
          /\ <<>> \in Seq(Calls \cup {Evidence}) /\ <<Evidence>> \in Seq(Calls \cup {Evidence})
      OBVIOUS
    <3> QED BY <3>1 DEF OldDocuments, Document
  <2>2. None \in Calls \cup {None} /\ "idle" \in Progress /\ 0 \in Nat
    BY DEF Progress
  <2>3. file \in Document \cup {Absent, Unsupported} /\ tmp \in Document \cup {Absent, Torn}
    BY <2>1
  <2>4. data \in Document /\ next \in [Writers -> Document]
    BY EmptyFacts
  <2>5. /\ pc \in [Writers -> Progress] /\ previous \in [Calls -> Calls \cup {None}]
        /\ queue \in Calls \cup {None} /\ up \in BOOLEAN /\ restarts \in Nat
    BY <2>2
  <2>6. arrivals \in Seq(Calls)
    OBVIOUS
  <2> QED BY <2>3, <2>4, <2>5, <2>6 DEF TypeOK
<1>2. arrivals = <<>> /\ Len(arrivals) = 0 /\ Running = {}
  BY DEF Running
<1>3. ChainOrder
  BY <1>2, StoreAssumption DEF ChainOrder, Running, Writers
<1>4. \A w \in Writers : pc[w] = "idle"
  OBVIOUS
<1>5. BootAlone /\ CloneOfData /\ FileOfData
  BY <1>2, <1>4 DEF BootAlone, CloneOfData, FileOfData, Persisting, Writers
<1>6. OutcomesAreTrue
  <2> SUFFICES ASSUME NEW c \in Calls PROVE ~InLog(c, LogOf(file)) /\ ~InLog(c, data.log)
    BY <1>4 DEF OutcomesAreTrue, Writers
  <2>1. ~InLog(c, <<>>) /\ ~InLog(c, <<History>>)
    BY StoreAssumption DEF InLog
  <2>2. LogOf(file) \in {<<>>, <<History>>}
    BY DEF LogOf, OldDocuments
  <2> QED BY <2>1, <2>2, EmptyFacts
<1> QED BY <1>1, <1>3, <1>5, <1>6 DEF IInv

\* initialize reads the file.
LEMMA LoadStep ==
  ASSUME IInv, Load
  PROVE  IInv'
<1> USE DEF IInv
<1>1. /\ arrivals = <<>> /\ ~up /\ pc[Boot] = "idle"
      /\ \A c \in Calls : c \notin Running /\ pc[c] \in {"idle"} \cup Settled
  BY NoCallRuns DEF Load
<1>2. /\ file # Unsupported /\ UNCHANGED <<file, tmp, queue, previous, arrivals, restarts>>
      /\ file # Absent => file \in Document
  BY DEF Load, chainVars, TypeOK
<1>3. CASE file # Absent /\ file.version = "current"
  <2>1. data' = file /\ up' = TRUE /\ UNCHANGED <<next, pc>>
    BY <1>3 DEF Load
  <2>2. TypeOK'
    BY <1>2, <1>3, <2>1 DEF TypeOK
  <2>3. ChainOrder'
    BY <1>2, <2>1 DEF ChainOrder, Running
  <2>4. BootAlone' /\ CloneOfData'
    BY <1>1, <1>2, <2>1 DEF BootAlone, CloneOfData, Persisting, Settled
  <2>5. FileOfData'
    BY <1>1, <1>2, <1>3, <2>1 DEF FileOfData, Persisting, Settled
  <2>6. OutcomesAreTrue'
    BY <1>2, <1>3, <2>1, DocumentFacts DEF OutcomesAreTrue
  <2> QED BY <2>2, <2>3, <2>4, <2>5, <2>6
<1>4. CASE ~(file # Absent /\ file.version = "current")
  <2>1. /\ data' = IF file = Absent THEN Empty ELSE Migrated(file)
        /\ next' = [next EXCEPT ![Boot] = data'] /\ Go(Boot, "writing") /\ up' = up
    BY <1>4 DEF Load
  <2>2. /\ data' \in Document /\ data'.version = "current" /\ data'.log = LogOf(file)
        /\ data'.evidence = <<>>
    BY <1>2, <2>1, DocumentFacts, EmptyFacts DEF LogOf
  <2>3. /\ Boot \in Writers /\ pc'[Boot] = "writing" /\ next'[Boot] = data'
        /\ \A c \in Calls : pc'[c] = pc[c]
    BY <2>1, StoreAssumption DEF Go, TypeOK, Writers
  <2>4. TypeOK'
    BY <1>2, <2>1, <2>2 DEF TypeOK, Go, Writers, Progress, Persisting
  <2>5. ChainOrder'
    BY <1>1, <1>2, <2>3 DEF ChainOrder, Running, Writers
  <2>6. BootAlone' /\ CloneOfData'
    BY <1>1, <1>2, <2>1, <2>3 DEF BootAlone, CloneOfData, Persisting, Settled, Writers
  <2>7. FileOfData'
    BY <1>1, <1>2, <1>4, <2>1, <2>2, <2>3 DEF FileOfData, Persisting, LogOf
  <2>8. OutcomesAreTrue'
    BY <1>2, <2>2, <2>3 DEF OutcomesAreTrue, LogOf
  <2> QED BY <2>4, <2>5, <2>6, <2>7, <2>8
<1> QED BY <1>3, <1>4

\* initialize returns.
LEMMA ServeStep ==
  ASSUME IInv, Serve
  PROVE  IInv'
<1> USE DEF IInv
<1>1. /\ pc[Boot] = "publishing" /\ ~up /\ Boot \in Writers
      /\ file = data /\ data.version = "current"
  BY DEF Serve, BootAlone, FileOfData, Writers
<1>2. /\ arrivals = <<>>
      /\ \A c \in Calls : c \notin Running /\ pc[c] \in {"idle"} \cup Settled
  BY <1>1, NoCallRuns
<1>3. /\ up' = TRUE /\ pc'[Boot] = "idle" /\ \A c \in Calls : pc'[c] = pc[c]
      /\ UNCHANGED <<file, tmp, data, queue, previous, arrivals, next, restarts>>
  BY <1>1, StoreAssumption DEF Serve, Go, chainVars, TypeOK, Writers
<1>4. TypeOK'
  BY <1>3 DEF Serve, TypeOK, Go, Writers, Progress
<1>5. ChainOrder'
  BY <1>2, <1>3 DEF ChainOrder, Running, Writers
<1>6. BootAlone' /\ CloneOfData'
  BY <1>1, <1>2, <1>3 DEF BootAlone, CloneOfData, Persisting, Settled, Writers
<1>7. FileOfData'
  BY <1>1, <1>2, <1>3, DocumentFacts DEF FileOfData, Persisting, Settled, TypeOK
<1>8. OutcomesAreTrue'
  BY <1>3 DEF OutcomesAreTrue, LogOf
<1> QED BY <1>4, <1>5, <1>6, <1>7, <1>8

\* initialize throws.
LEMMA BootFailsStep ==
  ASSUME IInv, BootFails
  PROVE  IInv'
<1> USE DEF IInv
<1>1. pc[Boot] \in Persisting /\ ~up /\ Boot \in Writers
  BY DEF BootFails, BootAlone, Persisting, Writers
<1>2. /\ arrivals = <<>>
      /\ \A c \in Calls : c \notin Running /\ pc[c] \in {"idle"} \cup Settled
  BY <1>1, NoCallRuns
<1>3. /\ data' = Empty /\ pc'[Boot] = "idle" /\ \A c \in Calls : pc'[c] = pc[c]
      /\ UNCHANGED <<file, tmp, up, queue, previous, arrivals, next, restarts>>
  BY <1>1, StoreAssumption DEF BootFails, Go, chainVars, TypeOK, Writers
<1>4. TypeOK'
  BY <1>3, EmptyFacts DEF BootFails, TypeOK, Go, Writers, Progress
<1>5. ChainOrder'
  BY <1>2, <1>3 DEF ChainOrder, Running, Writers
<1>6. BootAlone' /\ CloneOfData'
  BY <1>1, <1>2, <1>3 DEF BootAlone, CloneOfData, Persisting, Settled, Writers
<1>7. FileOfData'
  BY <1>1, <1>2, <1>3 DEF FileOfData, Persisting
<1>8. OutcomesAreTrue'
  BY <1>3, EmptyFacts DEF OutcomesAreTrue, LogOf, InLog
<1> QED BY <1>4, <1>5, <1>6, <1>7, <1>8

\* A call joins the chain.
LEMMA MutateStep ==
  ASSUME IInv, NEW c \in Calls, Mutate(c)
  PROVE  IInv'
<1> USE DEF IInv
<1>1. /\ up /\ pc[c] = "idle" /\ c \in Writers /\ c # Boot /\ c \notin Running
      /\ queue \in Calls \cup {None}
  BY StoreAssumption DEF Mutate, Writers, Running, TypeOK
<1>2. /\ pc'[c] = "queued" /\ \A v \in Writers \ {c} : pc'[v] = pc[v]
      /\ previous'[c] = queue /\ \A d \in Calls \ {c} : previous'[d] = previous[d]
      /\ queue' = c /\ arrivals' = Append(arrivals, c)
      /\ UNCHANGED <<file, tmp, data, up, next, restarts>>
  BY <1>1 DEF Mutate, Go, TypeOK, ChainTail
<1>3. /\ arrivals \in Seq(Calls) /\ Len(arrivals) \in Nat /\ arrivals' \in Seq(Calls)
      /\ Len(arrivals') = Len(arrivals) + 1 /\ arrivals'[Len(arrivals) + 1] = c
      /\ \A i \in 1 .. Len(arrivals) : arrivals'[i] = arrivals[i]
      /\ \A i \in 1 .. Len(arrivals) : arrivals[i] \in Calls
      /\ Len(arrivals) # 0 => arrivals # <<>>
  BY <1>2 DEF TypeOK
<1>4. TypeOK'
  BY <1>1, <1>2, <1>3 DEF Mutate, Go, ChainTail, TypeOK, Progress
<1>5. c \in Running' /\ \A v \in Writers \ {c} : v \in Running' <=> v \in Running
  BY <1>1, <1>2 DEF Running, Settled
<1>6. \A i \in 1 .. Len(arrivals) : arrivals[i] # c /\ arrivals[i] \in Running
  BY <1>1, <1>3 DEF ChainOrder
<1>7. ChainOrder'
  <2>1. \A i, j \in 1 .. Len(arrivals') : arrivals'[i] = arrivals'[j] => i = j
    <3> SUFFICES ASSUME NEW i \in 1 .. Len(arrivals'), NEW j \in 1 .. Len(arrivals'),
                        arrivals'[i] = arrivals'[j]
                 PROVE  i = j
      OBVIOUS
    <3>1. CASE i \in 1 .. Len(arrivals) /\ j \in 1 .. Len(arrivals)
      BY <1>3, <3>1 DEF ChainOrder
    <3>2. CASE i = Len(arrivals) + 1
      BY <1>3, <1>6, <3>2
    <3>3. CASE j = Len(arrivals) + 1
      BY <1>3, <1>6, <3>3
    <3> QED BY <1>3, <3>1, <3>2, <3>3
  <2>2. \A i \in 1 .. Len(arrivals') : arrivals'[i] \in Running'
    <3> SUFFICES ASSUME NEW i \in 1 .. Len(arrivals') PROVE arrivals'[i] \in Running'
      OBVIOUS
    <3>1. CASE i \in 1 .. Len(arrivals)
      BY <1>3, <1>5, <1>6, <3>1 DEF Writers
    <3>2. CASE i = Len(arrivals) + 1
      BY <1>3, <1>5, <3>2
    <3> QED BY <1>3, <3>1, <3>2
  <2>3. ASSUME NEW d \in Calls, d \in Running'
        PROVE  \E i \in 1 .. Len(arrivals') : arrivals'[i] = d
    <3>1. CASE d = c
      BY <1>3, <3>1
    <3>2. CASE d # c
      <4>1. PICK i \in 1 .. Len(arrivals) : arrivals[i] = d
        BY <1>5, <2>3, <3>2 DEF ChainOrder, Writers
      <4>2. i \in 1 .. Len(arrivals') /\ arrivals'[i] = d
        BY <1>3, <4>1
      <4> QED BY <4>2
    <3> QED BY <3>1, <3>2
  <2>4. \A i \in 2 .. Len(arrivals') : /\ pc'[arrivals'[i]] = "queued"
                                       /\ previous'[arrivals'[i]] = arrivals'[i - 1]
    <3> SUFFICES ASSUME NEW i \in 2 .. Len(arrivals')
                 PROVE  /\ pc'[arrivals'[i]] = "queued"
                        /\ previous'[arrivals'[i]] = arrivals'[i - 1]
      OBVIOUS
    <3>1. i - 1 \in 1 .. Len(arrivals) /\ arrivals'[i - 1] = arrivals[i - 1]
      BY <1>3
    <3>2. CASE i \in 2 .. Len(arrivals)
      <4>1. /\ i \in 1 .. Len(arrivals) /\ arrivals'[i] = arrivals[i]
            /\ arrivals[i] \in Calls /\ arrivals[i] # c
        BY <1>3, <1>6, <3>2
      <4> QED BY <1>2, <3>1, <3>2, <4>1 DEF ChainOrder, Writers
    <3>3. CASE i = Len(arrivals) + 1
      <4>1. arrivals'[i] = c /\ i - 1 = Len(arrivals) /\ arrivals # <<>>
        BY <1>3, <3>1, <3>3
      <4> QED BY <1>2, <3>1, <4>1 DEF ChainOrder
    <3> QED BY <1>3, <3>2, <3>3
  <2>5. queue' = arrivals'[Len(arrivals')]
    BY <1>2, <1>3
  <2> QED BY <2>1, <2>2, <2>3, <2>4, <2>5 DEF ChainOrder
<1>8. BootAlone'
  BY <1>1, <1>2 DEF BootAlone, Writers
<1>9. CloneOfData'
  BY <1>1, <1>2 DEF CloneOfData, Persisting, Writers
<1>10. FileOfData'
  BY <1>1, <1>2 DEF FileOfData, BootAlone, Persisting, Writers, LogOf
<1>11. OutcomesAreTrue'
  BY <1>1, <1>2 DEF OutcomesAreTrue, Persisting, Writers, LogOf
<1> QED BY <1>4, <1>7, <1>8, <1>9, <1>10, <1>11

\* The first call clones the document.
LEMMA CloneStep ==
  ASSUME IInv, NEW c \in Calls, Clone(c)
  PROVE  IInv'
<1> USE DEF IInv
<1>1. /\ up /\ arrivals[1] = c /\ pc[Boot] = "idle" /\ c # Boot /\ c \in Writers
      /\ pc[c] = "queued" /\ c \in Running
      /\ \A d \in Calls : d # c => pc[d] \in {"idle", "queued"} \cup Settled
  BY WorkerIsFirst DEF Clone, Running, Writers, Settled
<1>2. /\ pc'[c] = "mutating" /\ \A v \in Writers \ {c} : pc'[v] = pc[v]
      /\ next'[c] = data /\ \A v \in Writers \ {c} : next'[v] = next[v]
      /\ UNCHANGED <<file, tmp, data, up, queue, previous, arrivals, restarts>>
  BY <1>1 DEF Clone, Go, TypeOK, chainVars
<1>3. TypeOK'
  BY <1>1, <1>2 DEF Clone, Go, TypeOK, Progress
<1>4. Running' = Running
  BY <1>1, RunningKept DEF Clone, Settled
<1>5. ChainOrder'
  BY <1>1, <1>2, <1>4, ChainKept DEF chainVars, Writers
<1>6. BootAlone'
  BY <1>1, <1>2 DEF BootAlone, Writers
<1>7. CloneOfData'
  BY <1>1, <1>2 DEF CloneOfData, Persisting, Writers, Settled
<1>8. FileOfData'
  BY <1>1, <1>2 DEF FileOfData, Persisting, Writers, Settled, LogOf
<1>9. OutcomesAreTrue'
  BY <1>1, <1>2 DEF OutcomesAreTrue, Persisting, Writers, LogOf
<1> QED BY <1>3, <1>5, <1>6, <1>7, <1>8, <1>9

\* The mutation changes the clone.
LEMMA ChangeStep ==
  ASSUME IInv, NEW c \in Calls, Change(c)
  PROVE  IInv'
<1> USE DEF IInv
<1>1. /\ up /\ arrivals[1] = c /\ pc[Boot] = "idle" /\ c # Boot /\ c \in Writers
      /\ pc[c] = "mutating" /\ c \in Running
      /\ \A d \in Calls : d # c => pc[d] \in {"idle", "queued"} \cup Settled
  BY WorkerIsFirst DEF Change, Running, Writers, Settled, Working
<1>2. next[c] = data /\ data \in Document /\ next[c] \in Document
  BY <1>1 DEF CloneOfData, TypeOK
<1>3. With(data, c) \in Document
  BY <1>2, DocumentFacts
<1>4. /\ pc'[c] = "writing" /\ \A v \in Writers \ {c} : pc'[v] = pc[v]
      /\ next' = [next EXCEPT ![c] = With(data, c)]
      /\ UNCHANGED <<file, tmp, data, up, queue, previous, arrivals, restarts>>
  BY <1>1, <1>2 DEF Change, Go, TypeOK, chainVars
<1>5. /\ next'[c] = With(data, c)
      /\ \A v \in Writers \ {c} : next'[v] = next[v]
  BY <1>1, <1>4 DEF TypeOK
<1>6. TypeOK'
  <2>1. next' \in [Writers -> Document]
    BY <1>3, <1>4 DEF TypeOK
  <2>2. pc' \in [Writers -> Progress]
    BY DEF Change, Go, TypeOK, Progress, Persisting
  <2> QED BY <1>4, <2>1, <2>2 DEF TypeOK
<1>7. Running' = Running
  BY <1>1, RunningKept DEF Change, Settled
<1>8. ChainOrder'
  BY <1>1, <1>4, <1>7, ChainKept DEF chainVars, Writers
<1>9. BootAlone'
  BY <1>1, <1>4 DEF BootAlone, Writers
<1>10. CloneOfData'
  BY <1>1, <1>4, <1>5 DEF CloneOfData, Persisting, Writers, Settled
<1>11. FileOfData'
  BY <1>1, <1>4 DEF FileOfData, Persisting, Writers, Settled, LogOf
<1>12. OutcomesAreTrue'
  BY <1>1, <1>4 DEF OutcomesAreTrue, Persisting, Writers, LogOf
<1> QED BY <1>6, <1>8, <1>9, <1>10, <1>11, <1>12

\* What the steps of the first call rely on.
LEMMA FirstCall ==
  ASSUME IInv, NEW c \in Calls, pc[c] \in Working
  PROVE  /\ up /\ arrivals # <<>> /\ Head(arrivals) = c
         /\ pc[Boot] = "idle" /\ c # Boot /\ c \in Writers /\ c \in Running
         /\ \A v \in Writers \ {c} : pc[v] \in {"idle", "queued"} \cup Settled
         /\ file \in Document /\ data \in Document /\ next[c] \in Document
         /\ file.version = "current" /\ data.version = "current"
<1> USE DEF IInv
<1>1. /\ up /\ arrivals # <<>> /\ Head(arrivals) = c /\ pc[Boot] = "idle" /\ c # Boot
      /\ \A d \in Calls : d # c => pc[d] \in {"idle", "queued"} \cup Settled
  BY WorkerIsFirst
<1>2. c \in Writers /\ c \in Running
  BY DEF Writers, Running, Working, Persisting, Settled
<1>3. \A v \in Writers \ {c} : pc[v] \in {"idle", "queued"} \cup Settled
  BY <1>1 DEF Writers
<1>4. /\ file \in Document /\ data \in Document /\ next[c] \in Document
      /\ file.version = "current" /\ data.version = "current"
  BY <1>1, <1>2 DEF FileOfData, TypeOK
<1> QED BY <1>1, <1>2, <1>3, <1>4

\* The mutation or a file operation throws.
LEMMA FailStep ==
  ASSUME IInv, NEW c \in Calls, Fail(c)
  PROVE  IInv'
<1> USE DEF IInv
<1>1. pc[c] \in Working /\ pc[c] \in {"mutating"} \cup Persisting /\ pc[c] # "publishing"
  BY DEF Fail, Working, Persisting
<1>2. /\ up /\ pc[Boot] = "idle" /\ c # Boot /\ c \in Writers
      /\ \A v \in Writers \ {c} : pc[v] \in {"idle", "queued"} \cup Settled
  BY <1>1, FirstCall
<1>3. /\ Settle(c, "failed") /\ "failed" \in Settled
      /\ UNCHANGED <<file, tmp, data, up, queue, previous, next, restarts>>
  BY DEF Fail, Settled
<1>4. /\ ChainOrder' /\ arrivals' \in Seq(Calls)
      /\ pc'[c] = "failed" /\ \A v \in Writers \ {c} : pc'[v] = pc[v]
  BY <1>1, <1>3, ChainAfterSettle
<1>5. TypeOK'
  BY <1>3, <1>4 DEF Settle, Go, TypeOK, Progress, Settled
<1>6. BootAlone'
  BY <1>2, <1>3, <1>4 DEF BootAlone, Writers
<1>7. CloneOfData'
  BY <1>2, <1>3, <1>4 DEF CloneOfData, Persisting, Settled, Writers
<1>8. FileOfData'
  <2>1. file = data
    BY <1>1, <1>2 DEF FileOfData, Writers, Settled
  <2> QED BY <2>1, <1>2, <1>3, <1>4 DEF FileOfData, Persisting, Settled, Writers
<1>9. OutcomesAreTrue'
  BY <1>1, <1>2, <1>3, <1>4 DEF OutcomesAreTrue, Writers, LogOf
<1> QED BY <1>4, <1>5, <1>6, <1>7, <1>8, <1>9

\* What a call publishes is on disk, with the call in it.
LEMMA PublishedFile ==
  ASSUME IInv, NEW c \in Calls, pc[c] = "publishing"
  PROVE  /\ file = next[c] /\ next[c] = With(data, c)
         /\ LogOf(file) = Append(data.log, c) /\ InLog(c, LogOf(file))
<1>1. pc[c] \in Working
  BY DEF Working
<1>2. file = next[c] /\ next[c] = With(data, c)
  BY <1>1, FirstCall DEF IInv, CloneOfData, FileOfData
<1>3. /\ file \in Document /\ data \in Document /\ data.log \in Seq(Calls \cup {History})
  BY <1>1, FirstCall, DocumentFacts
<1>4. LogOf(file) = Append(data.log, c)
  <2>1. With(data, c).log = Append(data.log, c)
    BY <1>3, DocumentFacts
  <2>2. LogOf(file) = file.log
    BY <1>3, DocumentFacts
  <2> QED BY <1>2, <2>1, <2>2
<1>5. InLog(c, Append(data.log, c))
  BY <1>3, InLogAppend
<1> QED BY <1>2, <1>4, <1>5

\* The clone becomes the document in memory.
LEMMA PublishStep ==
  ASSUME IInv, NEW c \in Calls, Publish(c)
  PROVE  IInv'
<1> USE DEF IInv
<1>1. pc[c] = "publishing" /\ pc[c] \in Working
  BY DEF Publish, Working
<1>2. /\ up /\ pc[Boot] = "idle" /\ c # Boot /\ c \in Writers
      /\ file \in Document /\ file.version = "current"
      /\ \A v \in Writers \ {c} : pc[v] \in {"idle", "queued"} \cup Settled
  BY <1>1, FirstCall
<1>3. /\ Settle(c, "committed") /\ "committed" \in Settled /\ data' = next[c]
      /\ UNCHANGED <<file, tmp, up, queue, previous, next, restarts>>
  BY DEF Publish, Settled
<1>4. /\ ChainOrder' /\ arrivals' \in Seq(Calls)
      /\ pc'[c] = "committed" /\ \A v \in Writers \ {c} : pc'[v] = pc[v]
  BY <1>1, <1>3, ChainAfterSettle
<1>5. data' = file /\ data'.log = LogOf(file) /\ InLog(c, LogOf(file))
  BY <1>1, <1>2, <1>3, PublishedFile, DocumentFacts
<1>6. TypeOK'
  BY <1>2, <1>3, <1>4, <1>5 DEF Settle, Go, TypeOK, Progress, Settled
<1>7. BootAlone'
  BY <1>2, <1>3, <1>4 DEF BootAlone, Writers
<1>8. CloneOfData'
  BY <1>2, <1>3, <1>4 DEF CloneOfData, Persisting, Settled, Writers
<1>9. FileOfData'
  BY <1>2, <1>3, <1>4, <1>5 DEF FileOfData, Persisting, Settled, Writers
<1>10. OutcomesAreTrue'
  <2> SUFFICES ASSUME NEW d \in Calls
               PROVE  /\ pc'[d] = "committed" => InLog(d, LogOf(file))
                      /\ pc'[d] \in {"idle", "queued", "mutating", "failed"} \cup Persisting =>
                           ~InLog(d, LogOf(file))
    BY <1>3, <1>5 DEF OutcomesAreTrue, LogOf
  <2>1. CASE d = c
    BY <2>1, <1>4, <1>5 DEF Persisting
  <2>2. CASE d # c
    BY <2>2, <1>4 DEF OutcomesAreTrue, Writers
  <2> QED BY <2>1, <2>2
<1> QED BY <1>4, <1>6, <1>7, <1>8, <1>9, <1>10

\* Only one writer at a time is at the files: the first call, or initialize.
LEMMA OnlyWriter ==
  ASSUME IInv, NEW w \in Writers, pc[w] \in Persisting
  PROVE  /\ w \in Running /\ next[w] \in Document
         /\ \A v \in Writers \ {w} : pc[v] \in {"idle", "queued"} \cup Settled
         /\ w = Boot => /\ ~up /\ arrivals = <<>> /\ next[w] = data /\ file # Unsupported
                        /\ file # Absent => file.version # "current"
                        /\ data.version = "current" /\ data.log = LogOf(file)
                        /\ data.evidence = <<>>
         /\ w # Boot => /\ w \in Calls /\ pc[w] \in Working /\ up /\ file = data
<1>1. w \in Running /\ next[w] \in Document
  BY DEF Running, Persisting, Settled, IInv, TypeOK
<1>2. CASE w = Boot
  <2>1. ~up /\ arrivals = <<>>
    BY <1>2 DEF IInv, BootAlone, Persisting
  <2>2. \A v \in Writers \ {w} : pc[v] \in {"idle", "queued"} \cup Settled
    BY <1>2, <2>1, NoCallRuns DEF Writers
  <2>3. /\ next[w] = data /\ file # Unsupported
        /\ file # Absent => file.version # "current"
        /\ data.version = "current" /\ data.log = LogOf(file) /\ data.evidence = <<>>
    BY <1>2 DEF IInv, CloneOfData, FileOfData
  <2> QED BY <1>1, <1>2, <2>1, <2>2, <2>3
<1>3. CASE w # Boot
  <2>1. w \in Calls /\ pc[w] \in Working
    BY <1>3 DEF Writers, Working
  <2>2. up /\ \A v \in Writers \ {w} : pc[v] \in {"idle", "queued"} \cup Settled
    BY <2>1, FirstCall
  <2>3. \A d \in Calls : pc[d] # "publishing"
    BY <2>2 DEF Writers, Settled, Persisting
  <2>4. file = data
    BY <2>2, <2>3 DEF IInv, FileOfData
  <2> QED BY <1>1, <1>3, <2>1, <2>2, <2>4
<1> QED BY <1>2, <1>3

\* The temporary file is written, in two steps.
LEMMA WriteStep ==
  ASSUME IInv, NEW w \in Writers, StartWrite(w) \/ EndWrite(w)
  PROVE  IInv'
<1> USE DEF IInv
<1>1. /\ pc[w] \in Persisting /\ pc'[w] \in Persisting
      /\ \A v \in Writers \ {w} : pc'[v] = pc[v]
      /\ UNCHANGED <<file, data, up, queue, previous, arrivals, next, restarts>>
      /\ pc' \in [Writers -> Progress]
  BY DEF StartWrite, EndWrite, Go, TypeOK, Persisting, Progress, chainVars
<1>2. /\ w \in Running /\ next[w] \in Document
      /\ \A v \in Writers \ {w} : pc[v] \in {"idle", "queued"} \cup Settled
  BY <1>1, OnlyWriter
<1>3. tmp' \in Document \cup {Torn} /\ (pc'[w] = "renaming" => tmp' = next[w])
  BY <1>2 DEF StartWrite, EndWrite, Go, TypeOK
<1>4. TypeOK'
  BY <1>1, <1>3 DEF TypeOK
<1>5. Running' = Running
  BY <1>1, <1>2 DEF Running, Persisting, Settled
<1>6. ChainOrder'
  BY <1>1, <1>5, ChainKept DEF chainVars, Writers, Persisting
<1>7. BootAlone'
  BY <1>1 DEF BootAlone, Writers, Persisting
<1>8. CloneOfData'
  <2>1. \A c \in Calls : pc'[c] = "mutating" => pc[c] = "mutating"
    BY <1>1 DEF Writers, Persisting
  <2>2. \A v \in Writers : pc'[v] \in Persisting \cup {"publishing"} =>
                            pc[v] \in Persisting \cup {"publishing"}
    BY <1>1
  <2>3. \A v \in Writers : pc'[v] = "renaming" => tmp' = next[v]
    BY <1>1, <1>2, <1>3 DEF Settled
  <2> QED BY <1>1, <2>1, <2>2, <2>3 DEF CloneOfData, Writers
<1>9. FileOfData'
  <2>1. \A v \in Writers : /\ pc'[v] = "publishing" <=> pc[v] = "publishing"
                           /\ pc'[v] \in Persisting <=> pc[v] \in Persisting
                           /\ pc'[v] = "idle" <=> pc[v] = "idle"
    BY <1>1 DEF Persisting
  <2> QED BY <1>1, <2>1 DEF FileOfData, Writers, LogOf
<1>10. OutcomesAreTrue'
  <2>1. \A v \in Writers : /\ pc'[v] = "committed" => pc[v] = "committed"
                           /\ pc'[v] \in {"idle", "queued", "mutating", "failed"} \cup Persisting =>
                              pc[v] \in {"idle", "queued", "mutating", "failed"} \cup Persisting
    BY <1>1 DEF Persisting
  <2> QED BY <1>1, <2>1 DEF OutcomesAreTrue, Writers, LogOf
<1> QED BY <1>4, <1>6, <1>7, <1>8, <1>9, <1>10

\* What a rename puts in the place of the file.
LEMMA RenamedFile ==
  ASSUME IInv, NEW w \in Writers, Rename(w)
  PROVE  /\ file' = next[w] /\ file' \in Document /\ file'.version = "current"
         /\ w = Boot => /\ LogOf(file') = LogOf(file) /\ file'.evidence = <<>>
                        /\ file # Absent => file.version # "current"
         /\ w # Boot => /\ file' = With(data, w) /\ file = data /\ data \in Document
                        /\ data.version = "current" /\ data.log = LogOf(file)
                        /\ data.log \in Seq(Calls \cup {History})
                        /\ LogOf(file') = Append(LogOf(file), w)
<1>1. pc[w] = "renaming" /\ pc[w] \in Persisting /\ file' = tmp
  BY DEF Rename, Persisting
<1>2. tmp = next[w] /\ next[w] \in Document
  BY <1>1, OnlyWriter DEF IInv, CloneOfData
<1>3. CASE w = Boot
  <2>1. /\ next[w] = data /\ data.version = "current" /\ data.log = LogOf(file)
        /\ data.evidence = <<>> /\ (file # Absent => file.version # "current")
    BY <1>1, <1>3, OnlyWriter
  <2> QED BY <1>1, <1>2, <1>3, <2>1, DocumentFacts
<1>4. CASE w # Boot
  <2>1. w \in Calls /\ file = data /\ data \in Document /\ data.version = "current"
    BY <1>1, <1>4, OnlyWriter, FirstCall
  <2>2. next[w] = With(data, w)
    BY <1>1, <2>1 DEF IInv, CloneOfData
  <2>3. With(data, w).log = Append(data.log, w) /\ With(data, w).version = "current"
    BY <2>1, DocumentFacts
  <2>4. LogOf(file) = data.log /\ data.log \in Seq(Calls \cup {History})
    BY <2>1, DocumentFacts
  <2>5. LogOf(file') = file'.log
    BY <1>1, <1>2, DocumentFacts
  <2> QED BY <1>1, <1>2, <1>4, <2>1, <2>2, <2>3, <2>4, <2>5
<1> QED BY <1>3, <1>4

\* The temporary file replaces the file.
LEMMA RenameStep ==
  ASSUME IInv, NEW w \in Writers, Rename(w)
  PROVE  IInv'
<1> USE DEF IInv
<1>1. /\ pc[w] = "renaming" /\ pc[w] \in Persisting /\ pc'[w] = "publishing"
      /\ \A v \in Writers \ {w} : pc'[v] = pc[v]
      /\ tmp' = Absent
      /\ UNCHANGED <<data, up, queue, previous, arrivals, next, restarts>>
      /\ pc' \in [Writers -> Progress]
  BY DEF Rename, Go, TypeOK, Persisting, Progress, chainVars
<1>2. /\ w \in Running
      /\ \A v \in Writers \ {w} : pc[v] \in {"idle", "queued"} \cup Settled
  BY <1>1, OnlyWriter
<1>3. file' = next[w] /\ file' \in Document /\ file'.version = "current"
  BY RenamedFile
<1>4. TypeOK'
  BY <1>1, <1>3 DEF TypeOK
<1>5. Running' = Running
  BY <1>1, <1>2 DEF Running, Persisting, Settled
<1>6. ChainOrder'
  BY <1>1, <1>5, ChainKept DEF chainVars, Writers, Persisting
<1>7. BootAlone'
  BY <1>1 DEF BootAlone, Writers, Persisting
<1>8. CloneOfData'
  <2>1. \A c \in Calls : pc'[c] = "mutating" => pc[c] = "mutating"
    BY <1>1 DEF Writers
  <2>2. \A v \in Writers : pc'[v] \in Persisting \cup {"publishing"} =>
                            pc[v] \in Persisting \cup {"publishing"}
    BY <1>1
  <2>3. \A v \in Writers : pc'[v] # "renaming"
    BY <1>1, <1>2 DEF Settled
  <2> QED BY <1>1, <2>1, <2>2, <2>3 DEF CloneOfData, Writers
<1>9. FileOfData'
  <2>1. CASE w = Boot
    <3>1. ~up /\ next[w] = data /\ data.version = "current"
      BY <1>1, <2>1, OnlyWriter
    <3> QED BY <1>1, <1>3, <2>1, <3>1 DEF FileOfData, Persisting
  <2>2. CASE w # Boot
    <3>1. w \in Calls /\ up /\ data.version = "current" /\ pc[Boot] = "idle"
      BY <1>1, <2>2, OnlyWriter, FirstCall
    <3>2. \A c \in Calls : pc'[c] = "publishing" => c = w
      BY <1>1, <1>2 DEF Writers, Settled
    <3>3. pc'[Boot] = "idle"
      BY <1>1, <2>2, <3>1 DEF Writers
    <3> QED BY <1>1, <1>3, <3>1, <3>2, <3>3 DEF FileOfData, Persisting
  <2> QED BY <2>1, <2>2
<1>10. OutcomesAreTrue'
  <2> SUFFICES ASSUME NEW d \in Calls
               PROVE  /\ pc'[d] = "committed" => InLog(d, LogOf(file'))
                      /\ pc'[d] \in {"idle", "queued", "mutating", "failed"} \cup Persisting =>
                           ~InLog(d, LogOf(file')) /\ ~InLog(d, data.log)
    BY <1>1 DEF OutcomesAreTrue, LogOf
  <2>1. CASE d = w
    BY <1>1, <2>1 DEF Persisting
  <2>2. CASE d # w
    <3>1. /\ pc'[d] = pc[d]
          /\ pc[d] = "committed" => InLog(d, LogOf(file))
          /\ pc[d] \in {"idle", "queued", "mutating", "failed"} \cup Persisting =>
               ~InLog(d, LogOf(file)) /\ ~InLog(d, data.log)
      BY <1>1, <2>2 DEF OutcomesAreTrue, Writers
    <3>2. InLog(d, LogOf(file')) <=> InLog(d, LogOf(file))
      <4>1. CASE w = Boot
        BY <4>1, RenamedFile
      <4>2. CASE w # Boot
        <5>1. /\ LogOf(file') = Append(LogOf(file), w) /\ w \in Calls \cup {History}
              /\ LogOf(file) \in Seq(Calls \cup {History})
          BY <4>2, RenamedFile DEF Writers
        <5>2. InLog(d, Append(LogOf(file), w)) <=> InLog(d, LogOf(file)) \/ d = w
          BY <5>1, InLogAppend
        <5> QED BY <2>2, <5>1, <5>2
      <4> QED BY <4>1, <4>2
    <3> QED BY <3>1, <3>2
  <2> QED BY <2>1, <2>2
<1> QED BY <1>4, <1>6, <1>7, <1>8, <1>9, <1>10

\* The process dies.
LEMMA CrashStep ==
  ASSUME IInv, Crash
  PROVE  IInv'
<1> USE DEF IInv
<1>1. /\ up' = FALSE /\ data' = Empty /\ queue' = None /\ arrivals' = <<>>
      /\ previous' = [c \in Calls |-> None] /\ next' = [v \in Writers |-> Empty]
      /\ restarts' \in Nat /\ UNCHANGED <<file, tmp>>
  BY DEF Crash, TypeOK
<1>2. /\ pc' \in [Writers -> Progress]
      /\ pc'[Boot] = "idle"
      /\ \A c \in Calls : /\ pc'[c] = IF c \in Running THEN "lost" ELSE pc[c]
                          /\ pc'[c] \in {"idle"} \cup Settled
  BY StoreAssumption DEF Crash, TypeOK, Writers, Progress, Settled, Running
<1>3. TypeOK'
  <2>1. previous' \in [Calls -> Calls \cup {None}] /\ next' \in [Writers -> Document]
    BY <1>1, EmptyFacts
  <2>2. arrivals' \in Seq(Calls) /\ data' \in Document /\ queue' \in Calls \cup {None}
    BY <1>1, EmptyFacts
  <2> QED BY <1>1, <1>2, <2>1, <2>2 DEF TypeOK
<1>4. ChainOrder'
  <2>1. Len(arrivals') = 0
    BY <1>1
  <2>2. \A c \in Calls : c \notin Running'
    BY <1>2 DEF Running
  <2> QED BY <1>1, <2>1, <2>2 DEF ChainOrder
<1>5. BootAlone' /\ CloneOfData'
  BY <1>1, <1>2 DEF BootAlone, CloneOfData, Persisting, Settled, Writers
<1>6. FileOfData'
  BY <1>1, <1>2 DEF FileOfData, Persisting
<1>7. OutcomesAreTrue'
  <2> SUFFICES ASSUME NEW c \in Calls
               PROVE  /\ pc'[c] = "committed" => InLog(c, LogOf(file))
                      /\ pc'[c] \in {"idle", "queued", "mutating", "failed"} \cup Persisting =>
                           ~InLog(c, LogOf(file)) /\ ~InLog(c, data'.log)
    BY <1>1 DEF OutcomesAreTrue, LogOf
  <2>1. ~InLog(c, data'.log)
    BY <1>1, EmptyFacts DEF InLog
  <2>2. CASE c \in Running
    BY <1>2, <2>2 DEF Persisting
  <2>3. CASE c \notin Running
    BY <1>2, <2>1, <2>3 DEF OutcomesAreTrue
  <2> QED BY <2>2, <2>3
<1> QED BY <1>3, <1>4, <1>5, <1>6, <1>7

\* Every step of the store keeps the invariant.
LEMMA StepInv ==
  ASSUME IInv, [Next]_vars
  PROVE  IInv'
<1>1. CASE Load \/ Serve \/ BootFails
  BY <1>1, LoadStep, ServeStep, BootFailsStep
<1>2. ASSUME NEW c \in Calls, Mutate(c) \/ CallStep(c) PROVE IInv'
  BY <1>2, MutateStep, CloneStep, ChangeStep, FailStep, PublishStep DEF CallStep
<1>3. ASSUME NEW w \in Writers, PersistStep(w) PROVE IInv'
  BY <1>3, WriteStep, RenameStep DEF PersistStep
<1>4. CASE Crash
  BY <1>4, CrashStep
<1>5. CASE UNCHANGED vars
  <2>1. UNCHANGED <<file, tmp, data, up, queue, previous, arrivals, next, pc, restarts>>
    BY <1>5 DEF vars, chainVars
  <2>2. TypeOK' /\ BootAlone' /\ CloneOfData'
    BY <2>1 DEF IInv, TypeOK, BootAlone, CloneOfData
  <2>3. ChainOrder'
    BY <2>1 DEF IInv, ChainOrder, Running
  <2>4. FileOfData' /\ OutcomesAreTrue'
    BY <2>1 DEF IInv, FileOfData, OutcomesAreTrue, LogOf
  <2> QED BY <2>2, <2>3, <2>4 DEF IInv
<1> QED BY <1>1, <1>2, <1>3, <1>4, <1>5 DEF Next

-----------------------------------------------------------------------------
(* What holds in every state *)

\* The inductive invariant of the store: the chain stands in the order of arrival, one
\* writer at a time works, and the file is the document in memory or one call ahead.
THEOREM StoreInvariant == Spec => []IInv
<1>1. Init => IInv
  BY InitInv
<1>2. IInv /\ [Next]_vars => IInv'
  BY StepInv
<1> QED BY <1>1, <1>2, PTL DEF Spec

\* The type invariant of the store.
THEOREM StoreTypeCorrect == Spec => []TypeOK
<1>1. IInv => TypeOK
  BY DEF IInv
<1> QED BY <1>1, StoreInvariant, PTL

\* What snapshot shows survives any crash (store.ts: data is assigned after the rename).
THEOREM MemoryIsDurableHolds == Spec => []MemoryIsDurable
<1>1. ASSUME IInv PROVE MemoryIsDurable
  <2> SUFFICES ASSUME up, file # data
               PROVE  \E c \in Calls : /\ pc[c] = "publishing" /\ file = next[c]
                                       /\ file = With(data, c)
    BY DEF MemoryIsDurable
  <2>1. PICK c \in Calls : pc[c] = "publishing"
    BY <1>1 DEF IInv, FileOfData
  <2>2. file = next[c] /\ file = With(data, c)
    BY <1>1, <2>1, PublishedFile
  <2> QED BY <2>1, <2>2
<1> QED BY <1>1, StoreInvariant, PTL

\* An acknowledged mutation is on disk for good, a refused one nowhere (mutate).
THEOREM OutcomesAreTrueHolds == Spec => []OutcomesAreTrue
<1>1. IInv => OutcomesAreTrue
  BY DEF IInv
<1> QED BY <1>1, StoreInvariant, PTL

\* Only a rename changes the file: to a whole document that adds one call, or that is the
\* migration of what was there.
LEMMA OnlyRenames ==
  ASSUME [Next]_vars, file' # file
  PROVE  \E w \in Writers : Rename(w)
<1>1. ASSUME NEW c \in Calls, Mutate(c) \/ CallStep(c) PROVE file' = file
  BY <1>1 DEF Mutate, CallStep, Clone, Change, Fail, Publish
<1>2. ASSUME NEW w \in Writers, StartWrite(w) \/ EndWrite(w) PROVE file' = file
  BY <1>2 DEF StartWrite, EndWrite
<1>3. CASE Load \/ Serve \/ BootFails \/ Crash \/ UNCHANGED vars
  BY <1>3 DEF Load, Serve, BootFails, Crash, vars
<1> QED BY <1>1, <1>2, <1>3 DEF Next, PersistStep

\* Application history is never lost, cut short or taken back, and only the migration of
\* an older version drops security evidence, all of it (persist, migrateDatabase).
THEOREM FileMovesForwardHolds == Spec => FileMovesForward
<1> DEFINE Forward ==
      file' # file =>
        /\ file # Unsupported
        /\ file' \notin {Absent, Torn, Unsupported} /\ file'.version = "current"
        /\ IF file # Absent /\ file.version = "current"
             THEN \E c \in Calls :
                    /\ LogOf(file') = Append(LogOf(file), c)
                    /\ file'.evidence \in {file.evidence, Append(file.evidence, c)}
             ELSE LogOf(file') = LogOf(file) /\ file'.evidence = <<>>
<1>1. ASSUME IInv, [Next]_vars PROVE Forward
  <2> SUFFICES ASSUME file' # file PROVE Forward
    OBVIOUS
  <2>1. PICK w \in Writers : Rename(w)
    BY <1>1, OnlyRenames
  <2>2. file' \in Document /\ file'.version = "current" /\ file' \notin {Absent, Torn, Unsupported}
    BY <1>1, <2>1, RenamedFile, DocumentFacts
  <2>3. file # Unsupported
    <3>1. pc[w] \in Persisting
      BY <2>1 DEF Rename, Persisting
    <3>2. file # Unsupported \/ file \in Document
      BY <1>1, <3>1, OnlyWriter DEF IInv, TypeOK
    <3> QED BY <3>2, DocumentFacts
  <2>4. CASE w = Boot
    BY <1>1, <2>1, <2>2, <2>3, <2>4, RenamedFile
  <2>5. CASE w # Boot
    <3>1. /\ w \in Calls /\ file' = With(file, w) /\ file \in Document
          /\ file.version = "current" /\ LogOf(file') = Append(LogOf(file), w)
      BY <1>1, <2>1, <2>5, RenamedFile DEF Writers
    <3>2. /\ file # Absent
          /\ file'.evidence \in {file.evidence, Append(file.evidence, w)}
      BY <3>1, DocumentFacts
    <3> QED BY <2>2, <2>3, <3>1, <3>2
  <2> QED BY <2>4, <2>5
<1>2. IInv /\ [Next]_vars => [Forward]_vars
  BY <1>1
<1> QED BY <1>2, StoreInvariant, PTL DEF Spec, FileMovesForward

-----------------------------------------------------------------------------
(* The refinement *)

\* A call is in the chain exactly while it runs.
LEMMA InChain ==
  ASSUME IInv, NEW c \in Calls
  PROVE  (\E i \in 1 .. Len(arrivals) : arrivals[i] = c) <=> c \in Running
BY DEF IInv, ChainOrder

LogVisible == IF up THEN data.log ELSE LogOf(file)
LogOutcome == [c \in Calls |-> IF pc[c] \in Settled THEN pc[c] ELSE "none"]

\* Where the file, the chain and the outcomes stay and what is shown stays, the durable
\* log stutters.
LEMMA LogStutters ==
  ASSUME LogOf(file)' = LogOf(file), LogVisible' = LogVisible, arrivals' = arrivals,
         \A c \in Calls : /\ pc'[c] \in Settled <=> pc[c] \in Settled
                          /\ pc[c] \in Settled => pc'[c] = pc[c]
  PROVE  UNCHANGED Log!logVars
<1>1. LogOutcome' = LogOutcome
  BY DEF LogOutcome, Settled
<1> QED BY <1>1 DEF Log!logVars, LogOutcome, LogVisible

\* A call that settles changes its own outcome only.
LEMMA OutcomeSet ==
  ASSUME NEW c \in Calls, NEW outcome \in Settled,
         pc'[c] = outcome, \A d \in Calls \ {c} : pc'[d] = pc[d]
  PROVE  LogOutcome' = [LogOutcome EXCEPT ![c] = outcome]
BY DEF LogOutcome, Settled

\* The initial state of the store is one of the log.
LEMMA InitRefines ==
  ASSUME Init
  PROVE  Log!LogInit
<1>1. LogOf(file) \in {<<>>, <<History>>} /\ ~up /\ arrivals = <<>>
  BY DEF Init, LogOf, OldDocuments
<1>2. LogOf(file) \in Seq({History})
  <2>1. <<>> \in Seq({History}) /\ <<History>> \in Seq({History})
    OBVIOUS
  <2> QED BY <1>1, <2>1
<1>3. LogOutcome = [c \in Calls |-> "none"]
  BY DEF Init, LogOutcome, Settled, Writers
<1> QED BY <1>1, <1>2, <1>3 DEF Log!LogInit, LogOutcome

\* The start of the process shows what is on disk.
LEMMA BootStutters ==
  ASSUME IInv, Load \/ Serve \/ BootFails
  PROVE  UNCHANGED Log!logVars
<1> USE DEF IInv
<1>1. /\ arrivals' = arrivals /\ file' = file /\ ~up
      /\ \A c \in Calls : pc'[c] = pc[c]
  BY StoreAssumption DEF Load, Serve, BootFails, chainVars, Go, TypeOK, BootAlone, Writers, Persisting
<1>2. LogOf(file)' = LogOf(file)
  BY <1>1 DEF LogOf
<1>3. up' => data'.log = LogOf(file)
  <2>1. CASE Load
    <3>1. up' => data' = file /\ file \in Document
      BY <1>1, <2>1 DEF Load, TypeOK
    <3> QED BY <3>1, DocumentFacts
  <2>2. CASE Serve
    <3>1. data' = file /\ file \in Document
      BY <2>2 DEF Serve, FileOfData, TypeOK
    <3> QED BY <3>1, DocumentFacts
  <2>3. CASE BootFails
    BY <1>1, <2>3 DEF BootFails
  <2> QED BY <2>1, <2>2, <2>3
<1>4. LogVisible' = LogVisible
  BY <1>1, <1>2, <1>3 DEF LogVisible
<1> QED BY <1>1, <1>2, <1>4, LogStutters

\* Joining the chain is Submit.
LEMMA MutateRefines ==
  ASSUME IInv, NEW c \in Calls, Mutate(c)
  PROVE  Log!Submit(c)
<1>1. /\ pc[c] = "idle" /\ c \notin Running /\ arrivals' = Append(arrivals, c)
      /\ UNCHANGED <<file, data, up>>
      /\ pc'[c] = "queued" /\ \A d \in Calls \ {c} : pc'[d] = pc[d]
  BY DEF Mutate, Go, Running, IInv, TypeOK, Writers
<1>2. ~ \E i \in 1 .. Len(arrivals) : arrivals[i] = c
  BY <1>1, InChain
<1>3. LogOf(file)' = LogOf(file) /\ LogVisible' = LogVisible
  BY <1>1 DEF LogOf, LogVisible
<1>4. LogOutcome' = LogOutcome /\ LogOutcome[c] = "none"
  BY <1>1 DEF LogOutcome, Settled
<1> QED BY <1>1, <1>2, <1>3, <1>4 DEF Log!Submit, LogOutcome, LogVisible

\* The clone and what is done to it show nowhere.
LEMMA CloneStutters ==
  ASSUME IInv, NEW c \in Calls, Clone(c) \/ Change(c)
  PROVE  UNCHANGED Log!logVars
<1>1. /\ arrivals' = arrivals /\ UNCHANGED <<file, data, up>>
      /\ pc[c] \notin Settled /\ pc'[c] \notin Settled
      /\ \A d \in Calls \ {c} : pc'[d] = pc[d]
  BY DEF Clone, Change, Go, chainVars, IInv, TypeOK, Writers, Settled
<1>2. LogOf(file)' = LogOf(file) /\ LogVisible' = LogVisible
  BY <1>1 DEF LogOf, LogVisible
<1> QED BY <1>1, <1>2, LogStutters

\* Nor does the temporary file.
LEMMA WriteStutters ==
  ASSUME IInv, NEW w \in Writers, StartWrite(w) \/ EndWrite(w)
  PROVE  UNCHANGED Log!logVars
<1>1. /\ arrivals' = arrivals /\ UNCHANGED <<file, data, up>>
      /\ pc[w] \notin Settled /\ pc'[w] \notin Settled
      /\ \A v \in Writers \ {w} : pc'[v] = pc[v]
  BY DEF StartWrite, EndWrite, Go, chainVars, IInv, TypeOK, Settled
<1>2. LogOf(file)' = LogOf(file) /\ LogVisible' = LogVisible
  BY <1>1 DEF LogOf, LogVisible
<1> QED BY <1>1, <1>2, LogStutters DEF Writers

\* A failure is Refuse: the call is not on disk.
LEMMA FailRefines ==
  ASSUME IInv, NEW c \in Calls, Fail(c)
  PROVE  Log!Refuse(c)
<1>1. pc[c] \in Working /\ pc[c] \in {"mutating"} \cup Persisting
  BY DEF Fail, Working
<1>2. arrivals # <<>> /\ Head(arrivals) = c
  BY <1>1, FirstCall
<1>3. /\ arrivals' = Tail(arrivals) /\ UNCHANGED <<file, data, up>>
      /\ pc'[c] = "failed" /\ \A d \in Calls \ {c} : pc'[d] = pc[d]
  BY DEF Fail, Settle, Go, IInv, TypeOK, Writers
<1>4. ~InLog(c, LogOf(file))
  BY <1>1 DEF IInv, OutcomesAreTrue
<1>5. LogOf(file)' = LogOf(file) /\ LogVisible' = LogVisible
  BY <1>3 DEF LogOf, LogVisible
<1>6. LogOutcome' = [LogOutcome EXCEPT ![c] = "failed"]
  BY <1>3, OutcomeSet DEF Settled
<1> QED BY <1>2, <1>3, <1>4, <1>5, <1>6 DEF Log!Refuse, Log!OnDisk, InLog, LogOutcome, LogVisible

\* Publishing is Acknowledge: the call is on disk, and the file is what is shown next.
LEMMA PublishRefines ==
  ASSUME IInv, NEW c \in Calls, Publish(c)
  PROVE  Log!Acknowledge(c)
<1>1. pc[c] = "publishing" /\ pc[c] \in Working
  BY DEF Publish, Working
<1>2. arrivals # <<>> /\ Head(arrivals) = c /\ up /\ file \in Document
  BY <1>1, FirstCall
<1>3. /\ arrivals' = Tail(arrivals) /\ UNCHANGED <<file, up>> /\ data' = next[c]
      /\ pc'[c] = "committed" /\ \A d \in Calls \ {c} : pc'[d] = pc[d]
  BY DEF Publish, Settle, Go, IInv, TypeOK, Writers
<1>4. file = next[c] /\ InLog(c, LogOf(file))
  BY <1>1, PublishedFile
<1>5. LogOf(file)' = LogOf(file) /\ LogVisible' = LogOf(file)
  BY <1>2, <1>3, <1>4, DocumentFacts DEF LogOf, LogVisible
<1>6. LogOutcome' = [LogOutcome EXCEPT ![c] = "committed"]
  BY <1>3, OutcomeSet DEF Settled
<1> QED BY <1>2, <1>3, <1>4, <1>5, <1>6
        DEF Log!Acknowledge, Log!OnDisk, InLog, LogOutcome, LogVisible

\* The rename is Commit, or of a migration, which keeps the application history.
LEMMA RenameRefines ==
  ASSUME IInv, NEW w \in Writers, Rename(w)
  PROVE  (\E c \in Calls : Log!Commit(c)) \/ UNCHANGED Log!logVars
<1>1. /\ pc[w] = "renaming" /\ pc[w] \in Persisting /\ arrivals' = arrivals
      /\ UNCHANGED <<data, up>> /\ pc'[w] = "publishing"
      /\ \A v \in Writers \ {w} : pc'[v] = pc[v]
  BY DEF Rename, Go, chainVars, IInv, TypeOK, Persisting
<1>2. /\ \A c \in Calls : /\ pc'[c] \in Settled <=> pc[c] \in Settled
                          /\ pc[c] \in Settled => pc'[c] = pc[c]
      /\ LogOutcome' = LogOutcome
  BY <1>1 DEF LogOutcome, Settled, Writers
<1>3. LogOf(file)' = LogOf(file')
  BY DEF LogOf
<1>4. CASE w = Boot
  <2>1. LogOf(file)' = LogOf(file) /\ ~up
    BY <1>1, <1>3, <1>4, RenamedFile, OnlyWriter
  <2>2. LogVisible' = LogVisible
    BY <1>1, <2>1 DEF LogVisible
  <2> QED BY <1>1, <1>2, <2>1, <2>2, LogStutters
<1>5. CASE w # Boot
  <2>1. w \in Calls /\ up /\ pc[w] \in Working
    BY <1>1, <1>5, OnlyWriter
  <2>2. arrivals # <<>> /\ Head(arrivals) = w
    BY <2>1, FirstCall
  <2>3. LogOf(file)' = Append(LogOf(file), w)
    BY <1>3, <1>5, RenamedFile
  <2>4. ~InLog(w, LogOf(file))
    BY <1>1, <2>1 DEF IInv, OutcomesAreTrue
  <2>5. LogVisible' = LogVisible
    BY <1>1, <2>1 DEF LogVisible
  <2>6. Log!Commit(w)
    BY <1>1, <1>2, <2>2, <2>3, <2>4, <2>5
       DEF Log!Commit, Log!OnDisk, InLog, LogOutcome, LogVisible
  <2> QED BY <2>1, <2>6
<1> QED BY <1>4, <1>5

\* A crash of the process is one of the log.
LEMMA CrashRefines ==
  ASSUME IInv, Crash
  PROVE  Log!Crash
<1>1. ~up' /\ arrivals' = <<>> /\ file' = file
  BY DEF Crash
<1>2. \A c \in Calls : pc'[c] = IF c \in Running THEN "lost" ELSE pc[c]
  BY StoreAssumption DEF Crash, Writers
<1>3. LogOf(file)' = LogOf(file) /\ LogVisible' = LogOf(file)
  BY <1>1 DEF LogOf, LogVisible
<1>4. LogOutcome' = [c \in Calls |-> IF \E i \in 1 .. Len(arrivals) : arrivals[i] = c
                                       THEN "lost" ELSE LogOutcome[c]]
  <2>1. \A c \in Calls : (\E i \in 1 .. Len(arrivals) : arrivals[i] = c) <=> c \in Running
    BY InChain
  <2>2. \A c \in Calls : LogOutcome'[c] = IF c \in Running THEN "lost" ELSE LogOutcome[c]
    BY <1>2 DEF LogOutcome, Settled, Running
  <2>3. LogOutcome' = [c \in Calls |-> LogOutcome'[c]]
    BY DEF LogOutcome
  <2> QED BY <2>1, <2>2, <2>3
<1> QED BY <1>1, <1>3, <1>4 DEF Log!Crash, LogOutcome, LogVisible

\* Every step of the store is a step of the log, or none.
LEMMA StepRefines ==
  ASSUME IInv, [Next]_vars
  PROVE  [Log!LogNext]_(Log!logVars)
<1>1. CASE Load \/ Serve \/ BootFails
  BY <1>1, BootStutters
<1>2. ASSUME NEW c \in Calls, Mutate(c) \/ CallStep(c) PROVE [Log!LogNext]_(Log!logVars)
  BY <1>2, MutateRefines, CloneStutters, FailRefines, PublishRefines DEF CallStep, Log!LogNext
<1>3. ASSUME NEW w \in Writers, PersistStep(w) PROVE [Log!LogNext]_(Log!logVars)
  BY <1>3, WriteStutters, RenameRefines DEF PersistStep, Log!LogNext
<1>4. CASE Crash
  BY <1>4, CrashRefines DEF Log!LogNext
<1>5. CASE UNCHANGED vars
  <2>1. UNCHANGED <<file, data, up, arrivals, pc>>
    BY <1>5 DEF vars, chainVars
  <2>2. LogOf(file)' = LogOf(file) /\ LogVisible' = LogVisible
    BY <2>1 DEF LogOf, LogVisible
  <2> QED BY <2>1, <2>2, LogStutters
<1> QED BY <1>1, <1>2, <1>3, <1>4, <1>5 DEF Next

\* The store is the durable log that its callers rely on: every mutation takes effect as
\* a whole or not at all, in the order of arrival, and an acknowledged one for good.
THEOREM StoreImplementsDurableLog == Spec => ImplementsDurableLog
<1>1. Init => Log!LogInit
  BY InitRefines
<1>2. IInv /\ [Next]_vars => [Log!LogNext]_(Log!logVars)
  BY StepRefines
<1> QED BY <1>1, <1>2, StoreInvariant, PTL DEF Spec, ImplementsDurableLog, Log!LogSpec

-----------------------------------------------------------------------------
(* The chain never stalls *)

\* What the first call of the chain waits for has settled, and the tail of the chain is a
\* promise that was made.
FirstMayGo == /\ arrivals # <<>> => Resolved(previous[arrivals[1]])
              /\ queue # None => pc[queue] # "idle"

\* While calls are under way one of them waits for no other: it works, or what it waits
\* for has settled.
NeverStalls ==
  (\E c \in Calls : c \in Running) =>
    \E c \in Calls : c \in Running /\ (pc[c] = "queued" => Resolved(previous[c]))

\* A call that has settled stays so, and none is forgotten once it was made.
LEMMA CallsGoOn ==
  ASSUME IInv, [Next]_vars, NEW c \in Calls
  PROVE  /\ pc[c] \in Settled => pc'[c] \in Settled
         /\ pc[c] # "idle" => pc'[c] # "idle"
<1> USE StoreAssumption DEF IInv, TypeOK, Writers
<1>1. ASSUME NEW w \in Writers, NEW step, Go(w, step), pc[w] \notin Settled,
             step # "idle" \/ w = Boot
      PROVE  /\ pc[c] \in Settled => pc'[c] \in Settled
             /\ pc[c] # "idle" => pc'[c] # "idle"
  BY <1>1 DEF Go
<1>2. CASE Load \/ Serve \/ BootFails
  BY <1>1, <1>2 DEF Load, Serve, BootFails, Persisting, Settled
<1>3. ASSUME NEW d \in Calls, Mutate(d) \/ CallStep(d)
      PROVE  /\ pc[c] \in Settled => pc'[c] \in Settled
             /\ pc[c] # "idle" => pc'[c] # "idle"
  BY <1>1, <1>3 DEF Mutate, CallStep, Clone, Change, Fail, Publish, Settle, Persisting, Settled
<1>4. ASSUME NEW w \in Writers, PersistStep(w)
      PROVE  /\ pc[c] \in Settled => pc'[c] \in Settled
             /\ pc[c] # "idle" => pc'[c] # "idle"
  BY <1>1, <1>4 DEF PersistStep, StartWrite, EndWrite, Rename, Settled
<1>5. CASE Crash
  BY <1>5 DEF Crash, Settled, Running
<1>6. CASE UNCHANGED vars
  BY <1>6 DEF vars
<1> QED BY <1>2, <1>3, <1>4, <1>5, <1>6 DEF Next

LEMMA FirstMayGoStep ==
  ASSUME IInv, FirstMayGo, [Next]_vars
  PROVE  FirstMayGo'
<1> USE StoreAssumption DEF IInv
<1>1. /\ arrivals \in Seq(Calls) /\ queue \in Calls \cup {None}
      /\ previous \in [Calls -> Calls \cup {None}] /\ pc \in [Writers -> Progress]
      /\ arrivals # <<>> => 1 \in 1 .. Len(arrivals) /\ arrivals[1] \in Calls
  <2>1. arrivals \in Seq(Calls)
    BY DEF TypeOK
  <2>2. ASSUME arrivals # <<>> PROVE 1 \in 1 .. Len(arrivals)
    BY <2>1, <2>2, EmptySeq
  <2> QED BY <2>1, <2>2 DEF TypeOK
<1>2. CASE UNCHANGED chainVars
  BY <1>1, <1>2, CallsGoOn DEF chainVars, FirstMayGo, Resolved
<1>3. ASSUME NEW c \in Calls, Mutate(c) PROVE FirstMayGo'
  <2>1. /\ pc[c] = "idle" /\ pc'[c] = "queued" /\ queue' = c
        /\ previous' = [previous EXCEPT ![c] = queue] /\ arrivals' = Append(arrivals, c)
    BY <1>1, <1>3 DEF Mutate, ChainTail, Go, Writers
  <2>2. CASE arrivals # <<>>
    <3>1. arrivals'[1] = arrivals[1] /\ arrivals[1] \in Running
      BY <1>1, <2>1, <2>2 DEF ChainOrder
    <3>2. previous'[arrivals'[1]] = previous[arrivals[1]]
      BY <1>1, <2>1, <2>2, <3>1 DEF Running
    <3> QED BY <1>1, <2>1, <2>2, <3>2, CallsGoOn DEF FirstMayGo, Resolved
  <2>3. CASE arrivals = <<>>
    <3>1. arrivals'[1] = c /\ previous'[c] = queue
      BY <1>1, <2>1, <2>3
    <3>2. queue # None => queue \notin Running /\ queue \in Writers
      BY <1>1, <2>3 DEF ChainOrder, Writers
    <3>3. queue # None => pc[queue] \in Settled
      BY <3>2 DEF Running, FirstMayGo
    <3> QED BY <1>1, <2>1, <3>1, <3>3, CallsGoOn DEF FirstMayGo, Resolved
  <2> QED BY <2>2, <2>3
<1>4. ASSUME NEW c \in Calls, Fail(c) \/ Publish(c) PROVE FirstMayGo'
  <2>1. /\ pc[c] \in Working /\ UNCHANGED <<queue, previous>>
        /\ \E outcome \in Settled : Settle(c, outcome)
    BY <1>4 DEF Fail, Publish, Working, Settled
  <2>2. arrivals # <<>> /\ arrivals[1] = c /\ c \in Writers
    BY <2>1, WorkerIsFirst DEF Writers
  <2>3. arrivals' = Tail(arrivals) /\ pc'[c] \in Settled
    BY <1>1, <2>1, <2>2 DEF Settle, Go
  <2>4. ASSUME arrivals' # <<>> PROVE Resolved(previous[arrivals[1]])'
    <3>1. 2 \in 2 .. Len(arrivals) /\ arrivals'[1] = arrivals[2]
      BY <1>1, <2>2, <2>3, <2>4, TailOf
    <3>2. previous[arrivals[2]] = arrivals[2 - 1]
      BY <3>1 DEF ChainOrder
    <3>3. previous'[arrivals'[1]] = c
      BY <2>1, <2>2, <3>1, <3>2
    <3> QED BY <2>3, <3>3 DEF Resolved
  <2> QED BY <1>1, <2>1, <2>4, CallsGoOn DEF FirstMayGo
<1>5. CASE Crash
  BY <1>5 DEF Crash, FirstMayGo
<1>6. CASE Load \/ Serve \/ BootFails \/ UNCHANGED vars
  BY <1>2, <1>6 DEF Load, Serve, BootFails, vars
<1>7. ASSUME NEW c \in Calls, Clone(c) \/ Change(c) PROVE FirstMayGo'
  BY <1>2, <1>7 DEF Clone, Change
<1>8. ASSUME NEW w \in Writers, PersistStep(w) PROVE FirstMayGo'
  BY <1>2, <1>8 DEF PersistStep, StartWrite, EndWrite, Rename
<1> QED BY <1>3, <1>4, <1>5, <1>6, <1>7, <1>8 DEF Next, CallStep

\* However the calls before them end and wherever the process dies, while calls of mutate
\* are under way one of them can go on: the promise chain strands nobody.
THEOREM NeverStallsHolds == Spec => []NeverStalls
<1>1. Init => FirstMayGo
  BY DEF Init, FirstMayGo
<1>2. IInv /\ FirstMayGo => NeverStalls
  <2> SUFFICES ASSUME IInv, FirstMayGo, NEW c \in Calls, c \in Running
               PROVE  \E d \in Calls : d \in Running /\ (pc[d] = "queued" => Resolved(previous[d]))
    BY DEF NeverStalls
  <2>1. arrivals \in Seq(Calls) /\ \E i \in 1 .. Len(arrivals) : arrivals[i] = c
    BY DEF IInv, TypeOK, ChainOrder
  <2>2. arrivals # <<>> /\ 1 \in 1 .. Len(arrivals)
    BY <2>1
  <2>3. arrivals[1] \in Calls /\ arrivals[1] \in Running /\ Resolved(previous[arrivals[1]])
    BY <2>1, <2>2 DEF IInv, ChainOrder, FirstMayGo
  <2> QED BY <2>3
<1> QED BY <1>1, <1>2, FirstMayGoStep, StoreInvariant, PTL DEF Spec
=============================================================================
