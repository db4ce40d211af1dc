---------------------------- MODULE MCViewChange ----------------------------
(* Instances of ViewChange for TLC. *)
EXTENDS ViewChange

\* Bounds of the run on a lost prepare: replica 2 gets the first prepare only with
\* the log of the next view, two ops are prepared at most, no view is asked for
\* again, only replica 2 wants to leave its view, and one replica stops at most.
MissedPrepare ==
  /\ log_view[2] > 0 \/ journal[2][BootOps + 1] = NoHeader
  /\ Cardinality(Received("prepare")) <= 2
  /\ Received("get_view") = {}
  /\ \A m \in Received("exit_view") : m.from = 2
  /\ Cardinality({r \in Replicas : ~Live(r)}) <= 1
=============================================================================
