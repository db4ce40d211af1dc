---------------------------- MODULE CommittedLog ----------------------------
(***************************************************************************)
(* What a cluster promises its clients: one log of requests, decided once  *)
(* and never rewritten, which every replica executes from the start, in    *)
(* order and without a gap.                                                *)
(***************************************************************************)
EXTENDS Integers, Sequences

CONSTANTS Replicas,  \* the replicas that execute the log
          Requests   \* what may be executed

VARIABLES log,       \* the requests executed by some replica, in order
          applied    \* how many entries of the log each replica has executed

vars == <<log, applied>>

Init == /\ log = <<>>
        /\ applied = [r \in Replicas |-> 0]

\* Replica r, which has executed the whole log, decides the next entry.
Decide(r, v) == /\ applied[r] = Len(log)
                /\ log' = Append(log, v)
                /\ applied' = [applied EXCEPT ![r] = @ + 1]

\* Replica r executes an entry that is already decided.
Follow(r) == /\ applied[r] < Len(log)
             /\ applied' = [applied EXCEPT ![r] = @ + 1]
             /\ UNCHANGED log

Next == \E r \in Replicas : Follow(r) \/ \E v \in Requests : Decide(r, v)

Spec == Init /\ [][Next]_vars
=============================================================================
