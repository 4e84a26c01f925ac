---------------------------- MODULE MandateLease ----------------------------
(***************************************************************************)
(* AuthorityService.withMandateOperation: a mutual exclusion lock per      *)
(* Mandate made of chained promises.  `mandateOperations` maps a Mandate   *)
(* to the tail promise of the operation that arrived last.  An operation   *)
(* takes the tail it finds as its `previous`, leaves its own tail in the   *)
(* map, waits for `previous`, runs its body, resolves its gate and deletes *)
(* the map entry only if the entry is still its own.                       *)
(*                                                                         *)
(* A promise is named by the operation that made it.  The tail of `o` is   *)
(* previous(o).then(gate(o)), and gate(o) is released after previous(o)    *)
(* has been awaited, so the tail of `o` is resolved exactly when `o` is    *)
(* done.  Everything up to the first await of withMandateOperation runs    *)
(* without interleaving (Begin); so does everything from release on        *)
(* (Finish).  A body that throws reaches the same `finally`.               *)
(***************************************************************************)
EXTENDS Naturals, Sequences, FiniteSets

CONSTANTS Ops,   \* calls of withMandateOperation
          Keys,  \* Mandate identifiers
          None   \* absent map entry, or Promise.resolve()

ASSUME NoneAssumption == None \notin Ops /\ None \notin Keys

VARIABLES mandateOperations,  \* [Keys -> Ops \cup {None}]
          previous,           \* the promise each operation awaits
          key,                \* the Mandate each operation is about
          pc,                 \* progress of each operation
          arrivals            \* history: operations on k in arrival order

vars == <<mandateOperations, previous, key, pc, arrivals>>

Pending == {o \in Ops : pc[o] \in {"waiting", "running"}}

ResolvedTooSoon(promise) == promise \in Ops => pc[promise] # "waiting"  \* mutant

Resolved(promise) == promise \in Ops => pc[promise] = "done"

OwnTail(o, k) == o                                                      \* mutant

\* What a call finds in the map before it installs its own tail.
Found(o, k) == mandateOperations[k]

DropAnyTail(o, tail) == None                                            \* mutant
DropNoTail(o, tail) == tail                                             \* mutant

\* What `finally` leaves in the map, given the tail it finds there.
TailLeftBy(o, tail) == IF tail = o THEN None ELSE tail

TypeOK ==
  /\ mandateOperations \in [Keys -> Ops \cup {None}]
  /\ previous \in [Ops -> Ops \cup {None}]
  /\ key \in [Ops -> Keys \cup {None}]
  /\ pc \in [Ops -> {"idle", "waiting", "running", "done", "dead"}]
  /\ arrivals \in [Keys -> Seq(Ops)]

Init ==
  /\ mandateOperations = [k \in Keys |-> None]
  /\ previous = [o \in Ops |-> None]
  /\ key = [o \in Ops |-> None]
  /\ pc = [o \in Ops |-> "idle"]
  /\ arrivals = [k \in Keys |-> <<>>]

\* The call, up to `await previous`.
Begin(o, k) ==
  /\ pc[o] = "idle"
  /\ previous' = [previous EXCEPT ![o] = Found(o, k)]
  /\ mandateOperations' = [mandateOperations EXCEPT ![k] = o]
  /\ key' = [key EXCEPT ![o] = k]
  /\ pc' = [pc EXCEPT ![o] = "waiting"]
  /\ arrivals' = [arrivals EXCEPT ![k] = Append(@, o)]

\* `previous` has resolved: the body starts.
Proceed(o) ==
  /\ pc[o] = "waiting"
  /\ Resolved(previous[o])
  /\ pc' = [pc EXCEPT ![o] = "running"]
  /\ UNCHANGED <<mandateOperations, previous, key, arrivals>>

\* The body returned or threw: release the gate, tidy the map.
Finish(o) ==
  /\ pc[o] = "running"
  /\ pc' = [pc EXCEPT ![o] = "done"]
  /\ mandateOperations' =
       [mandateOperations EXCEPT ![key[o]] = TailLeftBy(o, @)]
  /\ arrivals' = [arrivals EXCEPT ![key[o]] = Tail(@)]
  /\ UNCHANGED <<previous, key>>

\* The process dies: the map and every pending call go with it.
Restart ==
  /\ Pending # {}
  /\ pc' = [o \in Ops |-> IF o \in Pending THEN "dead" ELSE pc[o]]
  /\ mandateOperations' = [k \in Keys |-> None]
  /\ arrivals' = [k \in Keys |-> <<>>]
  /\ UNCHANGED <<previous, key>>

Next == \/ \E o \in Ops, k \in Keys : Begin(o, k)
        \/ \E o \in Ops : Proceed(o) \/ Finish(o)
        \/ Restart

\* A resolved promise runs its continuation, and a body terminates: the bodies
\* await signature checks and one store mutation, each of which settles.
Fairness == \A o \in Ops : WF_vars(Proceed(o)) /\ WF_vars(Finish(o))

Spec == Init /\ [][Next]_vars /\ Fairness

-----------------------------------------------------------------------------
\* Two bodies on one Mandate never overlap, however calls arrive while an
\* earlier body runs or finishes (the lease the Gateway and revoke rely on).
MutualExclusion ==
  \A o, p \in Ops : /\ pc[o] = "running" /\ pc[p] = "running"
                    /\ key[o] = key[p]
                    => o = p

\* The map holds an entry exactly for the Mandates with a pending operation:
\* it neither leaks an entry nor forgets the tail that the next call must await.
MapTracksPending ==
  \A k \in Keys : (mandateOperations[k] # None) <=> (\E o \in Pending : key[o] = k)

\* Why the promise chain is a queue: on each Mandate the pending operations are
\* those of `arrivals`, each once; the map holds the last of them; each awaits
\* the one before it; only the first may be running.
\* This is the inductive invariant of MandateLeaseProofs.
ChainMember == \A k \in Keys : \A i \in 1 .. Len(arrivals[k]) :
                 /\ pc[arrivals[k][i]] \in {"waiting", "running"}
                 /\ key[arrivals[k][i]] = k
ChainCovers == \A o \in Pending : /\ key[o] \in Keys
                                  /\ \E i \in 1 .. Len(arrivals[key[o]]) : arrivals[key[o]][i] = o
ChainOnce   == \A k \in Keys : \A i, j \in 1 .. Len(arrivals[k]) :
                 arrivals[k][i] = arrivals[k][j] => i = j
ChainTail   == \A k \in Keys :
                 mandateOperations[k] = IF arrivals[k] = <<>> THEN None
                                        ELSE arrivals[k][Len(arrivals[k])]
ChainLinks  == \A k \in Keys : \A i \in 2 .. Len(arrivals[k]) :
                 previous[arrivals[k][i]] = arrivals[k][i - 1]
ChainHead   == \A k \in Keys : \A i \in 2 .. Len(arrivals[k]) :
                 pc[arrivals[k][i]] = "waiting"
Chain == /\ ChainMember /\ ChainCovers /\ ChainOnce
         /\ ChainTail   /\ ChainLinks  /\ ChainHead

\* The promise chain behaves as a first-come first-served lock per Mandate.
Lock == INSTANCE FifoLock WITH queue  <- arrivals,
                               inside <- {o \in Ops : pc[o] = "running"}
ImplementsFifoLock == Lock!LockSpec

\* No call of withMandateOperation waits for ever: its body runs to the end
\* unless the process dies.
EveryCallCompletes ==
  \A o \in Ops : pc[o] = "waiting" ~> pc[o] \in {"done", "dead"}

=============================================================================
