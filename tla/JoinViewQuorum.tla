--------------------------- MODULE JoinViewQuorum ---------------------------
(***************************************************************************)
(* How the primary of a new view decides which ops survive, from the join  *)
(* views J it has collected (jv_quorum.rs).                                *)
(*                                                                         *)
(* A join view lists the headers of its sender's log from op down to tail, *)
(* the first op of the list that the sender knows to be committed, with    *)
(* the ops whose prepare it has on disk (present) and the ops it vouches   *)
(* never to have written (nacks).                                          *)
(***************************************************************************)
EXTENDS VsrQuorums
INSTANCE FiniteSetsExt

CONSTANTS N,        \* replica_count
          NoHeader  \* an empty journal slot

\* Prepare::root, the header of op 0.
Root == [view |-> 0, parent |-> 0, commit |-> 0]

\* The header of op o in the slots of a journal or of a join view.
HeaderAt(slots, o) == IF o = 0 THEN Root ELSE slots[o]

Lists(j, o) == o \in j.tail .. j.op

\* log_view_max and jvs_canonical: the join views of the latest log.
Canonical(J) == {j \in J : \A k \in J : k.log_view <= j.log_view}

\* commit_max: no op up to here may be truncated.
HeadMin(J) == Max(UNION {{j.tail, j.commit_min, HeaderAt(j.headers, j.op).commit} : j \in J})

\* op_max_canonical
HeadMax(J) == Max({j.op : j \in Canonical(J)})

CanonicalHeaders(J, o) ==
  {HeaderAt(j.headers, o) : j \in {k \in Canonical(J) : Lists(k, o)}}

\* A join view nacks an op it does not list, one it says so of, or one of which
\* it has another header than the latest log.
Nacks(J, o) == {j \in J : ~Lists(j, o) \/ o \in j.nacks
                            \/ HeaderAt(j.headers, o) \notin CanonicalHeaders(J, o)}

Copies(J, o) == {j \in J : Lists(j, o) /\ o \in j.present
                             /\ HeaderAt(j.headers, o) \in CanonicalHeaders(J, o)}

Nacked(J, o) == Cardinality(Nacks(J, o)) >= NackQuorum(N)

\* The first op that is truncated, or that may not be decided yet.
Stops(J)     == {o \in HeadMin(J) .. HeadMax(J) : Nacked(J, o) \/ Copies(J, o) = {}}
FirstStop(J) == Min(Stops(J))

\* quorum_headers: AwaitingQuorum, AwaitingRepair or CompleteInvalid.
Awaits(J) ==
  \/ Cardinality(J) < ViewChangeQuorum(N)
  \/ Stops(J) # {} /\ ~Nacked(J, FirstStop(J))

\* quorum_headers, CompleteValid: the head of the new log.
OpHead(J) == IF Stops(J) = {} THEN HeadMax(J) ELSE FirstStop(J) - 1

\* verify: two join views of one log_view list different headers for one op.
Conflicts(J) ==
  \E j, k \in J : /\ j.log_view = k.log_view
                  /\ \E o \in MaxOf(j.tail, k.tail) .. MinOf(j.op, k.op) :
                       HeaderAt(j.headers, o) # HeaderAt(k.headers, o)

\* headers_for_view: the headers that survive are not a chain.
Broken(J) ==
  \E o \in HeadMin(J) + 1 .. OpHead(J) :
     \E h \in CanonicalHeaders(J, o), g \in CanonicalHeaders(J, o - 1) : h.parent # g.view

\* The headers the new primary installs: those of the latest log that survive,
\* and the committed ones of older logs.
SurvivingHeaders(J, o) ==
       (IF o \in HeadMin(J) .. OpHead(J) THEN CanonicalHeaders(J, o) ELSE {})
  \cup {HeaderAt(j.headers, o) : j \in {k \in J \ Canonical(J) : Lists(k, o) /\ o <= k.commit_min}}
=============================================================================
