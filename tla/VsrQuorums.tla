----------------------------- MODULE VsrQuorums -----------------------------
(***************************************************************************)
(* Quorum sizes of a cluster of n replicas, and the way replica.rs tests   *)
(* whether the replicas that answered form a quorum.                       *)
(*                                                                         *)
(* Replicas are numbered from 0, as in the code, and a set of answers is   *)
(* kept as a bit mask with bit i for replica i.                            *)
(***************************************************************************)
EXTENDS Integers, FiniteSets
LOCAL INSTANCE FiniteSetsExt

\* constants::QUORUM_REPLICATION_MAX
QUORUM_REPLICATION_MAX == 3

DivCeil(a, b) == (a + b - 1) \div b

MinOf(a, b) == IF a <= b THEN a ELSE b
MaxOf(a, b) == IF a >= b THEN a ELSE b

ReplicationQuorum(n) ==
  IF n = 2 THEN 2 ELSE MinOf(DivCeil(n, 2), QUORUM_REPLICATION_MAX)

ViewChangeQuorum(n) == IF n = 2 THEN 2 ELSE n - ReplicationQuorum(n) + 1

NackQuorum(n) == n - ReplicationQuorum(n) + 1

\* The bit mask of a set of replicas.
MaskOf(S) == SumSet({2^i : i \in S})

\* replica.rs compares the mask, as a number, with (1 << quorum) - 1.
MaskReaches(S, quorum) == MaskOf(S) >= 2^quorum - 1

PrimaryOfView(view, n) == view % n
=============================================================================
