----------------------------- MODULE DurableLog -----------------------------
(***************************************************************************)
(* What JsonStore promises to its callers: mutations take effect one at a  *)
(* time in the order they were asked for, each as a whole or not at all;   *)
(* one that was acknowledged is durable, one that was refused never was    *)
(* and never is visible; a crash loses nothing that was visible.  What is  *)
(* on disk before the first call is the application history of an older    *)
(* version; the security evidence of that version is no part of this.      *)
(***************************************************************************)
EXTENDS Naturals, Sequences

CONSTANTS Calls,
          History  \* what may be on disk before the first call

VARIABLES durable,  \* the mutations on disk, in the order they took effect
          visible,  \* the mutations that snapshot shows
          queue,    \* the calls that are not settled, in order of arrival
          outcome

logVars == <<durable, visible, queue, outcome>>

OnDisk(c) == \E i \in 1 .. Len(durable) : durable[i] = c

LogInit == /\ durable \in Seq(History) /\ visible = durable /\ queue = <<>>
           /\ outcome = [c \in Calls |-> "none"]

Submit(c) == /\ outcome[c] = "none" /\ \A i \in 1 .. Len(queue) : queue[i] # c
             /\ queue' = Append(queue, c)
             /\ UNCHANGED <<durable, visible, outcome>>

\* The first call in the queue takes effect, once.
Commit(c) == /\ queue # <<>> /\ c = Head(queue) /\ ~OnDisk(c)
             /\ durable' = Append(durable, c)
             /\ UNCHANGED <<visible, queue, outcome>>

Acknowledge(c) == /\ queue # <<>> /\ c = Head(queue) /\ OnDisk(c)
                  /\ visible' = durable
                  /\ queue' = Tail(queue)
                  /\ outcome' = [outcome EXCEPT ![c] = "committed"]
                  /\ UNCHANGED durable

Refuse(c) == /\ queue # <<>> /\ c = Head(queue) /\ ~OnDisk(c)
             /\ queue' = Tail(queue)
             /\ outcome' = [outcome EXCEPT ![c] = "failed"]
             /\ UNCHANGED <<durable, visible>>

\* What is visible next is what is durable; calls that were waiting never learn.
Crash == /\ visible' = durable
         /\ queue' = <<>>
         /\ outcome' = [c \in Calls |->
                          IF \E i \in 1 .. Len(queue) : queue[i] = c THEN "lost"
                                                                     ELSE outcome[c]]
         /\ UNCHANGED durable

LogNext == \/ \E c \in Calls : Submit(c) \/ Commit(c) \/ Acknowledge(c) \/ Refuse(c)
           \/ Crash

LogSpec == LogInit /\ [][LogNext]_logVars
=============================================================================
