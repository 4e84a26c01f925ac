------------------------------ MODULE FifoLock ------------------------------
(***************************************************************************)
(* What the per-Mandate serialisation of AuthorityService promises its     *)
(* callers: for each key, the operations run one at a time and in the      *)
(* order in which they arrived.  A restart of the server process forgets   *)
(* every queue.  The specification says nothing of promises or of the map  *)
(* that holds them: MandateLease does, and implements this one; Gateway    *)
(* uses the promise and is checked to respect it.                          *)
(***************************************************************************)
EXTENDS Naturals, Sequences

CONSTANTS Ops,    \* the operations, each one call
          Keys    \* the Mandate identifiers they lock

VARIABLES queue,  \* queue[k]: operations on k that have arrived and not left
          inside  \* operations whose body has been entered

lockVars == <<queue, inside>>

Holds(o, k) == queue[k] # <<>> /\ Head(queue[k]) = o

LockInit == /\ queue = [k \in Keys |-> <<>>]
            /\ inside = {}

Join(o, k) == /\ \A j \in Keys : \A i \in 1 .. Len(queue[j]) : queue[j][i] # o
              /\ queue' = [queue EXCEPT ![k] = Append(@, o)]
              /\ UNCHANGED inside

Enter(o, k) == /\ Holds(o, k)
               /\ inside' = inside \cup {o}
               /\ UNCHANGED queue

Leave(o, k) == /\ Holds(o, k)
               /\ o \in inside
               /\ queue' = [queue EXCEPT ![k] = Tail(@)]
               /\ inside' = inside \ {o}

Forget == /\ queue' = [k \in Keys |-> <<>>]
          /\ inside' = {}

LockNext == \/ \E o \in Ops, k \in Keys : Join(o, k) \/ Enter(o, k) \/ Leave(o, k)
            \/ Forget

LockSpec == LockInit /\ [][LockNext]_lockVars
=============================================================================
