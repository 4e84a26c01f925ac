------------------------- MODULE MandateLeaseProofs -------------------------
(***************************************************************************)
(* The promise chain of withMandateOperation is a first-come first-served  *)
(* mutual exclusion lock, for any number of calls and of Mandates.         *)
(***************************************************************************)
EXTENDS MandateLease, SequenceTheorems, TLAPS

IInv == TypeOK /\ Chain

\* What Tail does to a sequence that is not empty.
LEMMA TailFacts ==
  ASSUME NEW S, NEW s \in Seq(S), s # <<>>
  PROVE  /\ Len(s) \in Nat \ {0} /\ Len(Tail(s)) \in Nat
         /\ Len(Tail(s)) = Len(s) - 1
         /\ Len(Tail(s)) = 0 => Tail(s) = <<>>
         /\ \A i \in 1 .. Len(s) - 1 : Tail(s)[i] = s[i + 1]
<1>1. Tail(s) \in Seq(S) /\ Len(s) \in Nat \ {0}
  BY EmptySeq
<1>2. Len(Tail(s)) = Len(s) - 1 /\ \A i \in 1 .. Len(s) - 1 : Tail(s)[i] = s[i + 1]
  BY <1>1
<1> QED BY <1>1, <1>2, EmptySeq

\* Initially no call was made and every chain is empty.
LEMMA InitChain == Init => IInv
BY NoneAssumption DEF Init, IInv, TypeOK, Chain, ChainMember, ChainCovers, ChainOnce,
   ChainTail, ChainLinks, ChainHead, Pending

\* A step leaves every variable in its type.
LEMMA TypeStep == IInv /\ [Next]_vars => TypeOK'
<1> SUFFICES ASSUME IInv, [Next]_vars PROVE TypeOK'
  OBVIOUS
<1> USE NoneAssumption DEF IInv, TypeOK
<1>1. ASSUME NEW o \in Ops, NEW k \in Keys, Begin(o, k) PROVE TypeOK'
  BY <1>1 DEF Begin, Found
<1>2. ASSUME NEW o \in Ops, Proceed(o) PROVE TypeOK'
  BY <1>2 DEF Proceed
<1>3. ASSUME NEW o \in Ops, Finish(o) PROVE TypeOK'
  <2>1. o \in Pending /\ key[o] \in Keys
    BY <1>3 DEF Finish, Pending, Chain, ChainCovers
  <2>2. arrivals[key[o]] # <<>>
    BY <2>1 DEF Chain, ChainCovers
  <2> QED BY <1>3, <2>1, <2>2 DEF Finish, TailLeftBy
<1>4. ASSUME Restart PROVE TypeOK'
  BY <1>4 DEF Restart, Pending
<1>5. ASSUME UNCHANGED vars PROVE TypeOK'
  BY <1>5 DEF vars
<1> QED BY <1>1, <1>2, <1>3, <1>4, <1>5 DEF Next

\* Begin appends the call to its chain, behind the tail that it awaits.
LEMMA BeginStep ==
  ASSUME IInv, NEW o \in Ops, NEW k \in Keys, Begin(o, k)
  PROVE  Chain'
<1>1. \A j \in Keys : arrivals[j] \in Seq(Ops)
  BY DEF IInv, TypeOK
<1>2. /\ arrivals'[k] = Append(arrivals[k], o)
      /\ \A j \in Keys \ {k} : arrivals'[j] = arrivals[j]
  BY DEF Begin, IInv, TypeOK
<1>3. /\ Len(arrivals'[k]) = Len(arrivals[k]) + 1
      /\ \A i \in 1 .. Len(arrivals[k]) : arrivals'[k][i] = arrivals[k][i]
      /\ arrivals'[k][Len(arrivals[k]) + 1] = o
  BY <1>1, <1>2
<1>4. \A j \in Keys : /\ Len(arrivals[j]) \in Nat
                      /\ \A i \in 1 .. Len(arrivals[j]) : arrivals[j][i] \in Ops
  BY <1>1
<1>5. /\ pc[o] = "idle" /\ pc'[o] = "waiting" /\ key'[o] = k
      /\ previous'[o] = mandateOperations[k]
      /\ \A p \in Ops \ {o} : /\ pc'[p] = pc[p] /\ key'[p] = key[p]
                              /\ previous'[p] = previous[p]
  BY DEF Begin, Found, IInv, TypeOK
<1>6. /\ mandateOperations'[k] = o
      /\ \A j \in Keys \ {k} : mandateOperations'[j] = mandateOperations[j]
  BY DEF Begin, IInv, TypeOK
<1>7. \A j \in Keys : \A i \in 1 .. Len(arrivals[j]) : arrivals[j][i] # o
  BY <1>5 DEF IInv, Chain, ChainMember
<1>8. \A j \in Keys \ {k} : Len(arrivals'[j]) = Len(arrivals[j])
  BY <1>2
<1>9. ChainMember'
  <2> SUFFICES ASSUME NEW j \in Keys, NEW i \in 1 .. Len(arrivals'[j])
               PROVE  /\ pc'[arrivals'[j][i]] \in {"waiting", "running"}
                      /\ key'[arrivals'[j][i]] = j
    BY DEF ChainMember
  <2>1. CASE i \in 1 .. Len(arrivals[j])
    <3>1. arrivals'[j][i] = arrivals[j][i] /\ arrivals[j][i] \in Ops \ {o}
      BY <2>1, <1>2, <1>3, <1>4, <1>7
    <3> QED BY <3>1, <2>1, <1>5 DEF IInv, Chain, ChainMember
  <2>2. CASE i \notin 1 .. Len(arrivals[j])
    <3>1. j = k /\ arrivals'[j][i] = o
      BY <2>2, <1>3, <1>4, <1>8
    <3> QED BY <3>1, <1>5
  <2> QED BY <2>1, <2>2
<1>10. ChainCovers'
  <2> SUFFICES ASSUME NEW p \in Pending'
               PROVE  /\ key'[p] \in Keys
                      /\ \E i \in 1 .. Len(arrivals'[key'[p]]) : arrivals'[key'[p]][i] = p
    BY DEF ChainCovers
  <2>1. CASE p = o
    <3>1. Len(arrivals[k]) + 1 \in 1 .. Len(arrivals'[k])
      BY <1>3, <1>4
    <3> QED BY <2>1, <3>1, <1>3, <1>5
  <2>2. CASE p # o
    <3>1. p \in Pending /\ key'[p] = key[p]
      BY <2>2, <1>5 DEF Pending
    <3>2. PICK i \in 1 .. Len(arrivals[key[p]]) : key[p] \in Keys /\ arrivals[key[p]][i] = p
      BY <3>1 DEF IInv, Chain, ChainCovers
    <3>3. i \in 1 .. Len(arrivals'[key[p]]) /\ arrivals'[key[p]][i] = p
      BY <3>2, <1>2, <1>3, <1>4, <1>8
    <3> QED BY <3>1, <3>2, <3>3
  <2> QED BY <2>1, <2>2
<1>11. ChainOnce'
  <2> SUFFICES ASSUME NEW j \in Keys, NEW i \in 1 .. Len(arrivals'[j]),
                      NEW h \in 1 .. Len(arrivals'[j]), arrivals'[j][i] = arrivals'[j][h]
               PROVE  i = h
    BY DEF ChainOnce
  <2>1. CASE j # k
    BY <2>1, <1>2 DEF IInv, Chain, ChainOnce
  <2>2. CASE j = k
    <3>1. CASE i \in 1 .. Len(arrivals[k]) /\ h \in 1 .. Len(arrivals[k])
      BY <2>2, <3>1, <1>3 DEF IInv, Chain, ChainOnce
    <3>2. CASE i = Len(arrivals[k]) + 1 /\ h \in 1 .. Len(arrivals[k])
      BY <2>2, <3>2, <1>3, <1>7
    <3>3. CASE i \in 1 .. Len(arrivals[k]) /\ h = Len(arrivals[k]) + 1
      BY <2>2, <3>3, <1>3, <1>7
    <3>4. CASE i = Len(arrivals[k]) + 1 /\ h = Len(arrivals[k]) + 1
      BY <3>4
    <3>5. /\ i \in 1 .. Len(arrivals[k]) \/ i = Len(arrivals[k]) + 1
          /\ h \in 1 .. Len(arrivals[k]) \/ h = Len(arrivals[k]) + 1
      BY <2>2, <1>3, <1>4
    <3> QED BY <3>1, <3>2, <3>3, <3>4, <3>5
  <2> QED BY <2>1, <2>2
<1>12. ChainTail'
  <2>1. arrivals'[k] # <<>> /\ arrivals'[k][Len(arrivals'[k])] = o
    BY <1>1, <1>2, <1>3, <1>4
  <2> QED BY <2>1, <1>2, <1>6 DEF IInv, Chain, ChainTail
<1>13. ChainLinks'
  <2> SUFFICES ASSUME NEW j \in Keys, NEW i \in 2 .. Len(arrivals'[j])
               PROVE  previous'[arrivals'[j][i]] = arrivals'[j][i - 1]
    BY DEF ChainLinks
  <2>1. CASE i \in 2 .. Len(arrivals[j])
    <3>1. /\ i \in 1 .. Len(arrivals[j]) /\ i - 1 \in 1 .. Len(arrivals[j])
      BY <2>1, <1>4
    <3>2. /\ arrivals'[j][i] = arrivals[j][i] /\ arrivals[j][i] \in Ops \ {o}
          /\ arrivals'[j][i - 1] = arrivals[j][i - 1]
      BY <3>1, <1>2, <1>3, <1>4, <1>7
    <3> QED BY <2>1, <3>2, <1>5 DEF IInv, Chain, ChainLinks
  <2>2. CASE i \notin 2 .. Len(arrivals[j])
    <3>1. j = k /\ i = Len(arrivals[k]) + 1
      BY <2>2, <1>3, <1>4, <1>8
    <3>2. Len(arrivals[k]) \in 1 .. Len(arrivals[k]) /\ i - 1 = Len(arrivals[k])
      BY <3>1, <1>3, <1>4
    <3>3. mandateOperations[k] = arrivals[k][Len(arrivals[k])]
      BY <3>2, <1>1 DEF IInv, Chain, ChainTail
    <3> QED BY <3>1, <3>2, <3>3, <1>3, <1>5
  <2> QED BY <2>1, <2>2
<1>14. ChainHead'
  <2> SUFFICES ASSUME NEW j \in Keys, NEW i \in 2 .. Len(arrivals'[j])
               PROVE  pc'[arrivals'[j][i]] = "waiting"
    BY DEF ChainHead
  <2>1. CASE i \in 2 .. Len(arrivals[j])
    <3>1. /\ arrivals'[j][i] = arrivals[j][i] /\ arrivals[j][i] \in Ops \ {o}
      BY <2>1, <1>2, <1>3, <1>4, <1>7
    <3> QED BY <2>1, <3>1, <1>5 DEF IInv, Chain, ChainHead
  <2>2. CASE i \notin 2 .. Len(arrivals[j])
    BY <2>2, <1>3, <1>4, <1>5, <1>8
  <2> QED BY <2>1, <2>2
<1> QED BY <1>9, <1>10, <1>11, <1>12, <1>13, <1>14 DEF Chain

\* Only the call at the head of its chain can find its promise resolved.
LEMMA OnlyHeadProceeds ==
  ASSUME IInv, NEW o \in Ops, Proceed(o)
  PROVE  key[o] \in Keys /\ arrivals[key[o]] # <<>> /\ arrivals[key[o]][1] = o
<1> USE NoneAssumption DEF IInv, TypeOK
<1>1. o \in Pending
  BY DEF Proceed, Pending
<1>2. PICK i \in 1 .. Len(arrivals[key[o]]) : key[o] \in Keys /\ arrivals[key[o]][i] = o
  BY <1>1 DEF Chain, ChainCovers
<1>3. i \in 2 .. Len(arrivals[key[o]]) => FALSE
  <2> SUFFICES ASSUME i \in 2 .. Len(arrivals[key[o]]) PROVE FALSE
    OBVIOUS
  <2>1. i - 1 \in 1 .. Len(arrivals[key[o]])
    BY <1>2
  <2>2. previous[o] = arrivals[key[o]][i - 1]
    BY <1>2 DEF Chain, ChainLinks
  <2>3. previous[o] \in Ops /\ pc[previous[o]] \in {"waiting", "running"}
    BY <1>2, <2>1, <2>2 DEF Chain, ChainMember
  <2> QED BY <2>3 DEF Proceed, Resolved
<1> QED BY <1>2, <1>3

\* A running call is at the head of its chain.
LEMMA RunningIsHead ==
  ASSUME IInv, NEW o \in Ops, pc[o] = "running"
  PROVE  key[o] \in Keys /\ arrivals[key[o]] # <<>> /\ arrivals[key[o]][1] = o
<1> USE NoneAssumption DEF IInv, TypeOK
<1>1. o \in Pending
  BY DEF Pending
<1>2. PICK i \in 1 .. Len(arrivals[key[o]]) : key[o] \in Keys /\ arrivals[key[o]][i] = o
  BY <1>1 DEF Chain, ChainCovers
<1>3. i \notin 2 .. Len(arrivals[key[o]])
  BY <1>2 DEF Chain, ChainHead
<1> QED BY <1>2, <1>3

\* An operation whose predecessor has resolved keeps every chain.
LEMMA ProceedStep ==
  ASSUME IInv, NEW o \in Ops, Proceed(o)
  PROVE  Chain'
<1> USE NoneAssumption DEF IInv, TypeOK
<1>1. key[o] \in Keys /\ arrivals[key[o]] # <<>> /\ arrivals[key[o]][1] = o
  BY OnlyHeadProceeds
<1>2. /\ UNCHANGED <<mandateOperations, previous, key, arrivals>>
      /\ pc'[o] = "running" /\ pc[o] = "waiting"
      /\ \A p \in Ops \ {o} : pc'[p] = pc[p]
  BY DEF Proceed
<1>3. ChainMember'
  <2> SUFFICES ASSUME NEW k \in Keys, NEW i \in 1 .. Len(arrivals[k])
               PROVE  /\ pc'[arrivals[k][i]] \in {"waiting", "running"}
                      /\ key[arrivals[k][i]] = k
    BY <1>2 DEF ChainMember
  <2>1. /\ pc[arrivals[k][i]] \in {"waiting", "running"} /\ key[arrivals[k][i]] = k
    BY DEF Chain, ChainMember
  <2>2. arrivals[k][i] \in Ops
    OBVIOUS
  <2> QED BY <1>2, <2>1, <2>2
<1>4. ChainCovers'
  BY <1>2 DEF Chain, ChainCovers, Pending
<1>5. ChainHead'
  <2> SUFFICES ASSUME NEW k \in Keys, NEW i \in 2 .. Len(arrivals[k])
               PROVE  pc'[arrivals[k][i]] = "waiting"
    BY <1>2 DEF ChainHead
  <2>1. arrivals[k][i] \in Ops /\ pc[arrivals[k][i]] = "waiting" /\ key[arrivals[k][i]] = k
    BY DEF Chain, ChainHead, ChainMember
  <2>2. arrivals[k][i] # o
    <3> SUFFICES ASSUME arrivals[k][i] = o PROVE FALSE
      OBVIOUS
    <3>1. /\ k = key[o] /\ arrivals[k][1] = arrivals[k][i]
          /\ 1 \in 1 .. Len(arrivals[k]) /\ i \in 1 .. Len(arrivals[k]) /\ i # 1
      BY <1>1, <2>1
    <3>2. ChainOnce
      BY DEF Chain
    <3> QED BY <3>1, <3>2 DEF ChainOnce
  <2> QED BY <1>2, <2>1, <2>2
<1> QED BY <1>2, <1>3, <1>4, <1>5 DEF Chain, ChainOnce, ChainTail, ChainLinks

\* Finish removes the head; the map keeps the tail unless the head was the tail.
LEMMA FinishStep ==
  ASSUME IInv, NEW o \in Ops, Finish(o)
  PROVE  Chain'
<1> DEFINE k == key[o]
<1>1. k \in Keys /\ arrivals[k] # <<>> /\ arrivals[k][1] = o
  BY RunningIsHead DEF Finish
<1>2. \A j \in Keys : arrivals[j] \in Seq(Ops)
  BY DEF IInv, TypeOK
<1>3. /\ arrivals'[k] = Tail(arrivals[k])
      /\ \A j \in Keys \ {k} : arrivals'[j] = arrivals[j]
  BY <1>1 DEF Finish, IInv, TypeOK
<1>4. /\ Len(arrivals[k]) \in Nat \ {0} /\ Len(arrivals'[k]) \in Nat
      /\ Len(arrivals'[k]) = Len(arrivals[k]) - 1
      /\ Len(arrivals'[k]) = 0 => arrivals'[k] = <<>>
      /\ \A i \in 1 .. Len(arrivals[k]) - 1 : arrivals'[k][i] = arrivals[k][i + 1]
  BY <1>1, <1>2, <1>3, TailFacts
<1>5. /\ pc'[o] = "done" /\ key' = key /\ previous' = previous
      /\ \A p \in Ops \ {o} : pc'[p] = pc[p]
  BY DEF Finish, IInv, TypeOK
<1>6. /\ mandateOperations'[k] = TailLeftBy(o, mandateOperations[k])
      /\ \A j \in Keys \ {k} : mandateOperations'[j] = mandateOperations[j]
  BY <1>1 DEF Finish, IInv, TypeOK
<1>7. /\ ChainMember /\ ChainCovers /\ ChainOnce
      /\ ChainTail /\ ChainLinks /\ ChainHead
  BY DEF IInv, Chain
<1>8. \A j \in Keys : /\ Len(arrivals[j]) \in Nat
                      /\ \A i \in 1 .. Len(arrivals[j]) : arrivals[j][i] \in Ops
  BY <1>2
\* The member at place i of the new chain was at place i + 1, and is not o.
<1>9. \A i \in 1 .. Len(arrivals'[k]) : /\ i + 1 \in 2 .. Len(arrivals[k])
                                       /\ i + 1 \in 1 .. Len(arrivals[k])
                                       /\ arrivals'[k][i] = arrivals[k][i + 1]
                                       /\ arrivals'[k][i] \in Ops
                                       /\ arrivals'[k][i] # o
  <2> SUFFICES ASSUME NEW i \in 1 .. Len(arrivals'[k])
               PROVE  /\ i + 1 \in 2 .. Len(arrivals[k])
                      /\ arrivals'[k][i] = arrivals[k][i + 1]
                      /\ arrivals'[k][i] \in Ops
                      /\ arrivals'[k][i] # o
    BY <1>4
  <2>1. /\ i + 1 \in 2 .. Len(arrivals[k]) /\ i + 1 \in 1 .. Len(arrivals[k])
        /\ 1 \in 1 .. Len(arrivals[k]) /\ i + 1 # 1
        /\ arrivals'[k][i] = arrivals[k][i + 1]
    BY <1>4
  <2>2. arrivals[k][i + 1] # arrivals[k][1]
    BY <1>1, <1>7, <2>1 DEF ChainOnce
  <2> QED BY <1>1, <1>8, <2>1, <2>2
<1>10. \A j \in Keys \ {k} : \A i \in 1 .. Len(arrivals[j]) : arrivals[j][i] \in Ops \ {o}
  BY <1>1, <1>7, <1>8 DEF ChainMember
<1>11. ChainMember'
  <2> SUFFICES ASSUME NEW j \in Keys, NEW i \in 1 .. Len(arrivals'[j])
               PROVE  /\ pc'[arrivals'[j][i]] \in {"waiting", "running"}
                      /\ key'[arrivals'[j][i]] = j
    BY DEF ChainMember
  <2>1. CASE j = k
    <3>1. /\ i + 1 \in 1 .. Len(arrivals[k])
          /\ arrivals'[k][i] = arrivals[k][i + 1]
          /\ arrivals'[k][i] \in Ops /\ arrivals'[k][i] # o
      BY <2>1, <1>9
    <3>2. /\ pc[arrivals[k][i + 1]] \in {"waiting", "running"}
          /\ key[arrivals[k][i + 1]] = k
      BY <3>1, <1>1, <1>7 DEF ChainMember
    <3> QED BY <2>1, <3>1, <3>2, <1>5
  <2>2. CASE j # k
    BY <2>2, <1>3, <1>5, <1>7, <1>10 DEF ChainMember
  <2> QED BY <2>1, <2>2
<1>12. ChainCovers'
  <2> SUFFICES ASSUME NEW p \in Pending'
               PROVE  /\ key'[p] \in Keys
                      /\ \E i \in 1 .. Len(arrivals'[key'[p]]) : arrivals'[key'[p]][i] = p
    BY DEF ChainCovers
  <2>1. p \in Ops /\ p # o /\ p \in Pending
    BY <1>5 DEF Pending
  <2>2. PICK i \in 1 .. Len(arrivals[key[p]]) : key[p] \in Keys /\ arrivals[key[p]][i] = p
    BY <2>1, <1>7 DEF ChainCovers
  <2>3. CASE key[p] # k
    BY <2>2, <2>3, <1>3, <1>5
  <2>4. CASE key[p] = k
    <3>1. i # 1
      BY <2>1, <2>2, <2>4, <1>1
    <3>2. /\ i - 1 \in 1 .. Len(arrivals'[k]) /\ i - 1 \in 1 .. Len(arrivals[k]) - 1
          /\ (i - 1) + 1 = i
      BY <3>1, <2>2, <2>4, <1>4
    <3>3. arrivals'[k][i - 1] = arrivals[k][(i - 1) + 1]
      BY <3>2, <1>4
    <3> QED BY <3>2, <3>3, <2>2, <2>4, <1>5
  <2> QED BY <2>3, <2>4
<1>13. ChainOnce'
  <2> SUFFICES ASSUME NEW j \in Keys, NEW i \in 1 .. Len(arrivals'[j]),
                      NEW h \in 1 .. Len(arrivals'[j]), arrivals'[j][i] = arrivals'[j][h]
               PROVE  i = h
    BY DEF ChainOnce
  <2>1. CASE j # k
    BY <2>1, <1>3, <1>7 DEF ChainOnce
  <2>2. CASE j = k
    <3>1. /\ i + 1 \in 1 .. Len(arrivals[k]) /\ h + 1 \in 1 .. Len(arrivals[k])
          /\ arrivals[k][i + 1] = arrivals[k][h + 1]
      BY <2>2, <1>9
    <3>2. i + 1 = h + 1
      BY <3>1, <1>1, <1>7 DEF ChainOnce
    <3> QED BY <3>2, <2>2, <1>4
  <2> QED BY <2>1, <2>2
<1>14. ChainTail'
  <2>1. ASSUME NEW j \in Keys, j # k
        PROVE mandateOperations'[j] = IF arrivals'[j] = <<>> THEN None
                                      ELSE arrivals'[j][Len(arrivals'[j])]
    BY <2>1, <1>3, <1>6, <1>7 DEF ChainTail
  <2>2. mandateOperations[k] = arrivals[k][Len(arrivals[k])]
    BY <1>1, <1>7 DEF ChainTail
  <2>3. CASE Len(arrivals[k]) = 1
    <3>1. arrivals'[k] = <<>>
      BY <2>3, <1>4
    <3>2. mandateOperations'[k] = None
      BY <2>2, <2>3, <1>1, <1>6 DEF TailLeftBy
    <3> QED BY <2>1, <3>1, <3>2 DEF ChainTail
  <2>4. CASE Len(arrivals[k]) # 1
    <3> DEFINE n == Len(arrivals[k])
    <3>0. n \in Nat /\ n # 0 /\ n # 1 /\ Len(arrivals'[k]) = n - 1
      BY <2>4, <1>4
    <3> HIDE DEF n
    <3>1. /\ Len(arrivals'[k]) \in 1 .. Len(arrivals'[k])
          /\ Len(arrivals'[k]) + 1 = n
      BY <3>0
    <3>2. /\ arrivals'[k][Len(arrivals'[k])] = arrivals[k][Len(arrivals[k])]
          /\ arrivals'[k][Len(arrivals'[k])] # o
      BY <3>1, <1>9 DEF n
    <3>3. mandateOperations'[k] = mandateOperations[k]
      BY <2>2, <3>2, <1>6 DEF TailLeftBy
    <3>4. arrivals'[k] # <<>>
      BY <3>1, <3>0
    <3> QED BY <2>1, <2>2, <3>2, <3>3, <3>4 DEF ChainTail
  <2> QED BY <2>3, <2>4
<1>15. ChainLinks'
  <2> SUFFICES ASSUME NEW j \in Keys, NEW i \in 2 .. Len(arrivals'[j])
               PROVE  previous'[arrivals'[j][i]] = arrivals'[j][i - 1]
    BY DEF ChainLinks
  <2>1. CASE j # k
    BY <2>1, <1>3, <1>5, <1>7 DEF ChainLinks
  <2>2. CASE j = k
    <3>1. /\ i \in 1 .. Len(arrivals'[k]) /\ i - 1 \in 1 .. Len(arrivals'[k])
          /\ (i - 1) + 1 = i /\ (i + 1) - 1 = i
      BY <2>2, <1>4
    <3>2. previous[arrivals[k][i + 1]] = arrivals[k][(i + 1) - 1]
      BY <3>1, <1>1, <1>7, <1>9 DEF ChainLinks
    <3>3. arrivals'[k][i - 1] = arrivals[k][(i - 1) + 1]
      BY <3>1, <1>9
    <3> QED BY <3>1, <3>2, <3>3, <2>2, <1>5, <1>9
  <2> QED BY <2>1, <2>2
<1>16. ChainHead'
  <2> SUFFICES ASSUME NEW j \in Keys, NEW i \in 2 .. Len(arrivals'[j])
               PROVE  pc'[arrivals'[j][i]] = "waiting"
    BY DEF ChainHead
  <2>1. CASE j # k
    <3>1. i \in 2 .. Len(arrivals[j]) /\ i \in 1 .. Len(arrivals[j])
      BY <2>1, <1>3, <1>8
    <3> QED BY <3>1, <2>1, <1>3, <1>5, <1>7, <1>10 DEF ChainHead
  <2>2. CASE j = k
    <3>1. i \in 1 .. Len(arrivals'[k])
      BY <2>2, <1>4
    <3> QED BY <3>1, <2>2, <1>1, <1>5, <1>7, <1>9 DEF ChainHead
  <2> QED BY <2>1, <2>2
<1> QED BY <1>11, <1>12, <1>13, <1>14, <1>15, <1>16 DEF Chain

\* A restart starts every chain anew.
LEMMA RestartStep == ASSUME IInv, Restart PROVE Chain'
BY NoneAssumption DEF IInv, TypeOK, Restart, Chain, ChainMember, ChainCovers, ChainOnce,
   ChainTail, ChainLinks, ChainHead, Pending

\* Every step keeps the chain in order.
LEMMA InductiveStep == IInv /\ [Next]_vars => IInv'
<1> SUFFICES ASSUME IInv, [Next]_vars PROVE IInv'
  OBVIOUS
<1>1. TypeOK'
  BY TypeStep
<1>2. ASSUME NEW o \in Ops, NEW k \in Keys, Begin(o, k) PROVE Chain'
  BY <1>2, BeginStep
<1>3. ASSUME NEW o \in Ops, Proceed(o) PROVE Chain'
  BY <1>3, ProceedStep
<1>4. ASSUME NEW o \in Ops, Finish(o) PROVE Chain'
  BY <1>4, FinishStep
<1>5. ASSUME Restart PROVE Chain'
  BY <1>5, RestartStep
<1>6. ASSUME UNCHANGED vars PROVE Chain'
  BY <1>6 DEF IInv, vars, Chain, ChainMember, ChainCovers, ChainOnce, ChainTail, ChainLinks,
     ChainHead, Pending
<1> QED BY <1>1, <1>2, <1>3, <1>4, <1>5, <1>6 DEF Next, IInv

\* Type correctness and the order of the chain hold in every reachable state.
THEOREM ChainInvariant == Spec => []IInv
BY InitChain, InductiveStep, PTL DEF Spec

\* Two bodies on one Mandate never overlap, for any number of calls.
THEOREM MutualExclusionHolds == Spec => []MutualExclusion
<1>1. IInv => MutualExclusion
  <2> SUFFICES ASSUME IInv, NEW o \in Ops, NEW p \in Ops,
                      pc[o] = "running", pc[p] = "running", key[o] = key[p]
               PROVE  o = p
    BY DEF MutualExclusion
  <2> QED BY RunningIsHead
<1> QED BY <1>1, ChainInvariant, PTL

\* The map holds an entry exactly for the Mandates that have a pending operation.
THEOREM MapTracksPendingHolds == Spec => []MapTracksPending
<1>1. IInv => MapTracksPending
  <2> SUFFICES ASSUME IInv, NEW k \in Keys
               PROVE  (mandateOperations[k] # None) <=> (\E o \in Pending : key[o] = k)
    BY DEF MapTracksPending
  <2>1. arrivals[k] \in Seq(Ops) /\ Len(<<>>) = 0
    BY DEF IInv, TypeOK
  <2>2. arrivals[k] # <<>> => Len(arrivals[k]) \in 1 .. Len(arrivals[k])
    BY <2>1, EmptySeq
  <2>3. arrivals[k] = <<>> => mandateOperations[k] = None
    BY DEF IInv, Chain, ChainTail
  <2>4. ASSUME arrivals[k] # <<>>
        PROVE  mandateOperations[k] # None /\ \E o \in Pending : key[o] = k
    <3> DEFINE last == arrivals[k][Len(arrivals[k])]
    <3>1. last \in Ops /\ mandateOperations[k] = last
      BY <2>1, <2>2, <2>4 DEF IInv, Chain, ChainTail
    <3>2. pc[last] \in {"waiting", "running"} /\ key[last] = k
      BY <2>2, <2>4 DEF IInv, Chain, ChainMember
    <3> QED BY <3>1, <3>2, NoneAssumption DEF Pending
  <2>5. ASSUME NEW o \in Pending, key[o] = k PROVE arrivals[k] # <<>>
    BY <2>1, <2>5 DEF IInv, Chain, ChainCovers
  <2> QED BY <2>3, <2>4, <2>5
<1> QED BY <1>1, ChainInvariant, PTL

\* Each step of the chain is a step of the abstract lock, or changes nothing it sees.
LEMMA BeginJoins ==
  ASSUME IInv, NEW o \in Ops, NEW k \in Keys, Begin(o, k)
  PROVE  Lock!Join(o, k)
<1>1. pc[o] = "idle" /\ ChainMember
  BY DEF Begin, IInv, Chain
<1>2. \A j \in Keys : \A i \in 1 .. Len(arrivals[j]) : arrivals[j][i] # o
  BY <1>1 DEF ChainMember
<1>3. {p \in Ops : pc'[p] = "running"} = {p \in Ops : pc[p] = "running"}
  BY <1>1 DEF Begin, IInv, TypeOK
<1>4. arrivals' = [arrivals EXCEPT ![k] = Append(@, o)]
  BY DEF Begin
<1> QED BY <1>2, <1>3, <1>4 DEF Lock!Join

\* An operation that proceeds enters the abstract lock.
LEMMA ProceedEnters ==
  ASSUME IInv, NEW o \in Ops, Proceed(o)
  PROVE  \E k \in Keys : Lock!Enter(o, k)
<1>1. key[o] \in Keys /\ arrivals[key[o]] # <<>> /\ arrivals[key[o]][1] = o
  BY OnlyHeadProceeds
<1>2. Head(arrivals[key[o]]) = o
  BY <1>1 DEF IInv, TypeOK
<1>3. {p \in Ops : pc'[p] = "running"} = {p \in Ops : pc[p] = "running"} \cup {o}
  BY DEF Proceed, IInv, TypeOK
<1>4. arrivals' = arrivals
  BY DEF Proceed
<1> QED BY <1>1, <1>2, <1>3, <1>4 DEF Lock!Enter, Lock!Holds

\* An operation that finishes leaves the abstract lock.
LEMMA FinishLeaves ==
  ASSUME IInv, NEW o \in Ops, Finish(o)
  PROVE  \E k \in Keys : Lock!Leave(o, k)
<1>1. key[o] \in Keys /\ arrivals[key[o]] # <<>> /\ arrivals[key[o]][1] = o
  BY RunningIsHead DEF Finish
<1>2. Head(arrivals[key[o]]) = o
  BY <1>1 DEF IInv, TypeOK
<1>3. /\ o \in {p \in Ops : pc[p] = "running"}
      /\ {p \in Ops : pc'[p] = "running"} = {p \in Ops : pc[p] = "running"} \ {o}
  BY DEF Finish, IInv, TypeOK
<1>4. arrivals' = [arrivals EXCEPT ![key[o]] = Tail(@)]
  BY DEF Finish
<1> QED BY <1>1, <1>2, <1>3, <1>4 DEF Lock!Leave, Lock!Holds

\* A restart forgets every holder of the abstract lock.
LEMMA RestartForgets == ASSUME IInv, Restart PROVE Lock!Forget
<1>1. {p \in Ops : pc'[p] = "running"} = {}
  BY DEF Restart, Pending, IInv, TypeOK
<1> QED BY <1>1 DEF Restart, Lock!Forget

\* The promise chain implements the abstract first-come first-served lock.
THEOREM LeaseImplementsFifoLock == Spec => ImplementsFifoLock
<1>1. Init => Lock!LockInit
  BY DEF Init, Lock!LockInit
<1>2. IInv /\ [Next]_vars => [Lock!LockNext]_(Lock!lockVars)
  <2>1. ASSUME IInv, Next PROVE Lock!LockNext
    <3>1. ASSUME NEW o \in Ops, NEW k \in Keys, Begin(o, k) PROVE Lock!LockNext
      BY <2>1, <3>1, BeginJoins DEF Lock!LockNext
    <3>2. ASSUME NEW o \in Ops, Proceed(o) PROVE Lock!LockNext
      <4>1. \E k \in Keys : Lock!Enter(o, k)
        BY <2>1, <3>2, ProceedEnters
      <4> QED BY <4>1 DEF Lock!LockNext
    <3>3. ASSUME NEW o \in Ops, Finish(o) PROVE Lock!LockNext
      <4>1. \E k \in Keys : Lock!Leave(o, k)
        BY <2>1, <3>3, FinishLeaves
      <4> QED BY <4>1 DEF Lock!LockNext
    <3>4. ASSUME Restart PROVE Lock!LockNext
      BY <2>1, <3>4, RestartForgets DEF Lock!LockNext
    <3> QED BY <2>1, <3>1, <3>2, <3>3, <3>4 DEF Next
  <2>2. ASSUME UNCHANGED vars PROVE UNCHANGED Lock!lockVars
    BY <2>2 DEF vars, Lock!lockVars
  <2> QED BY <2>1, <2>2
<1> QED BY <1>1, <1>2, ChainInvariant, PTL DEF Spec, ImplementsFifoLock, Lock!LockSpec
-----------------------------------------------------------------------------
(* Nobody is stranded *)

\* What the first of each chain awaited is resolved: a tail left in the map is that of a
\* pending call, and a call that ends before its successor resolves what that one awaits.
ChainFirst == \A k \in Keys : arrivals[k] # <<>> => Resolved(previous[arrivals[k][1]])

\* Beside every pending call there is one on the same Mandate, perhaps itself, that awaits
\* nothing any more: its body runs, or what it awaited is resolved.
PendingIsServed ==
  \A o \in Pending : \E p \in Pending : /\ key[p] = key[o]
                                       /\ (pc[p] = "running" \/ Resolved(previous[p]))

\* A step that leaves a chain as it is, or appends to one that is not empty, keeps its first.
LEMMA FirstKept ==
  ASSUME IInv, ChainFirst, NEW k \in Keys, arrivals[k] # <<>>, arrivals'[k][1] = arrivals[k][1],
         previous'[arrivals[k][1]] = previous[arrivals[k][1]],
         \A p \in Ops : pc[p] = "done" => pc'[p] = "done"
  PROVE  Resolved(previous[arrivals[k][1]])'
BY DEF ChainFirst, Resolved

LEMMA FirstStep ==
  ASSUME IInv, ChainFirst, [Next]_vars
  PROVE  ChainFirst'
<1> USE NoneAssumption
<1>1. /\ \A k \in Keys : arrivals[k] \in Seq(Ops)
      /\ \A k \in Keys : arrivals[k] # <<>> => /\ Len(arrivals[k]) \in Nat \ {0}
                                              /\ arrivals[k][1] \in Ops
                                              /\ pc[arrivals[k][1]] \in {"waiting", "running"}
                                              /\ key[arrivals[k][1]] = k
  <2>1. \A k \in Keys : arrivals[k] \in Seq(Ops)
    BY DEF IInv, TypeOK
  <2>2. ASSUME NEW k \in Keys, arrivals[k] # <<>> PROVE 1 \in 1 .. Len(arrivals[k])
    BY <2>1, <2>2, EmptySeq
  <2> QED BY <2>1, <2>2 DEF IInv, Chain, ChainMember
<1>2. ASSUME NEW o \in Ops, NEW j \in Keys, Begin(o, j) PROVE ChainFirst'
  <2>1. /\ pc[o] = "idle" /\ pc' = [pc EXCEPT ![o] = "waiting"]
        /\ previous' = [previous EXCEPT ![o] = mandateOperations[j]]
        /\ arrivals' = [arrivals EXCEPT ![j] = Append(@, o)]
    BY <1>2 DEF Begin, Found
  <2>2. \A p \in Ops : pc[p] = "done" => pc'[p] = "done"
    BY <2>1 DEF IInv, TypeOK
  <2>3. ASSUME NEW k \in Keys, arrivals[k] # <<>>
        PROVE  Resolved(previous[arrivals[k][1]])'
    <3>1. arrivals'[k][1] = arrivals[k][1]
      BY <1>1, <2>1, <2>3 DEF IInv, TypeOK
    <3>2. arrivals[k][1] # o
      BY <1>1, <2>1, <2>3
    <3> QED BY <1>1, <2>1, <2>2, <2>3, <3>1, <3>2, FirstKept DEF IInv, TypeOK
  <2>4. ASSUME arrivals[j] = <<>> PROVE Resolved(previous[arrivals[j][1]])'
    <3>1. arrivals'[j] = <<o>> /\ mandateOperations[j] = None
      BY <2>1, <2>4 DEF IInv, TypeOK, Chain, ChainTail
    <3> QED BY <2>1, <3>1 DEF Resolved, IInv, TypeOK
  <2>5. \A k \in Keys : k # j => arrivals'[k] = arrivals[k]
    BY <2>1 DEF IInv, TypeOK
  <2> QED BY <2>3, <2>4, <2>5 DEF ChainFirst
<1>3. ASSUME NEW o \in Ops, Proceed(o) PROVE ChainFirst'
  <2>1. /\ pc[o] = "waiting" /\ pc' = [pc EXCEPT ![o] = "running"]
        /\ UNCHANGED <<previous, arrivals>>
    BY <1>3 DEF Proceed
  <2> QED BY <2>1 DEF ChainFirst, Resolved, IInv, TypeOK
<1>4. ASSUME NEW o \in Ops, Finish(o) PROVE ChainFirst'
  <2>1. key[o] \in Keys /\ arrivals[key[o]] # <<>> /\ arrivals[key[o]][1] = o
    BY <1>4, RunningIsHead DEF Finish
  <2>2. /\ pc' = [pc EXCEPT ![o] = "done"] /\ UNCHANGED <<previous, key>>
        /\ arrivals' = [arrivals EXCEPT ![key[o]] = Tail(@)]
    BY <1>4 DEF Finish
  <2>3. ASSUME NEW k \in Keys, k # key[o], arrivals[k] # <<>>
        PROVE  Resolved(previous[arrivals[k][1]])'
    BY <2>2, <2>3 DEF ChainFirst, Resolved, IInv, TypeOK
  <2>4. ASSUME arrivals'[key[o]] # <<>> PROVE Resolved(previous[arrivals[key[o]][1]])'
    <3>1. /\ arrivals'[key[o]] = Tail(arrivals[key[o]])
          /\ Tail(arrivals[key[o]]) \in Seq(Ops) /\ Tail(arrivals[key[o]]) # <<>>
      BY <1>1, <2>1, <2>2, <2>4 DEF IInv, TypeOK
    <3>2. /\ 2 \in 2 .. Len(arrivals[key[o]])
          /\ arrivals'[key[o]][1] = arrivals[key[o]][2]
      BY <1>1, <2>1, <3>1, TailFacts
    <3>3. previous[arrivals[key[o]][2]] = arrivals[key[o]][2 - 1]
      BY <2>1, <3>2 DEF IInv, Chain, ChainLinks
    <3>4. previous'[arrivals'[key[o]][1]] = o
      BY <2>1, <2>2, <3>2, <3>3
    <3> QED BY <2>2, <3>4 DEF Resolved, IInv, TypeOK
  <2>5. \A k \in Keys : k # key[o] => arrivals'[k] = arrivals[k]
    BY <2>2 DEF IInv, TypeOK
  <2>6. ASSUME NEW k \in Keys, arrivals'[k] # <<>> PROVE Resolved(previous[arrivals[k][1]])'
    <3>1. CASE k = key[o]
      BY <2>2, <2>4, <2>6, <3>1
    <3>2. CASE k # key[o]
      BY <2>3, <2>5, <2>6, <3>2
    <3> QED BY <3>1, <3>2
  <2> QED BY <2>6 DEF ChainFirst
<1>5. CASE Restart
  BY <1>5 DEF Restart, ChainFirst
<1>6. CASE UNCHANGED vars
  BY <1>6 DEF vars, ChainFirst, Resolved
<1> QED BY <1>2, <1>3, <1>4, <1>5, <1>6 DEF Next

\* No call of withMandateOperation is stranded: with every pending call there is one on its
\* Mandate that can go on, however calls arrived, ended or failed before.  Together with the
\* order of the chain it is why every call completes.
THEOREM PendingIsServedHolds == Spec => []PendingIsServed
<1>1. Init => ChainFirst
  BY DEF Init, ChainFirst
<1>2. IInv /\ ChainFirst => PendingIsServed
  <2> SUFFICES ASSUME IInv, ChainFirst, NEW o \in Pending
               PROVE  \E p \in Pending : /\ key[p] = key[o]
                                        /\ (pc[p] = "running" \/ Resolved(previous[p]))
    BY DEF PendingIsServed
  <2>1. /\ key[o] \in Keys /\ arrivals[key[o]] \in Seq(Ops)
        /\ \E i \in 1 .. Len(arrivals[key[o]]) : arrivals[key[o]][i] = o
    BY DEF IInv, TypeOK, Chain, ChainCovers
  <2>2. arrivals[key[o]] # <<>> /\ 1 \in 1 .. Len(arrivals[key[o]])
    BY <2>1
  <2>3. /\ arrivals[key[o]][1] \in Pending /\ key[arrivals[key[o]][1]] = key[o]
        /\ Resolved(previous[arrivals[key[o]][1]])
    BY <2>1, <2>2 DEF IInv, Chain, ChainMember, ChainFirst, Pending
  <2> QED BY <2>3
<1> QED BY <1>1, <1>2, FirstStep, ChainInvariant, PTL DEF Spec
=============================================================================
