----------------------------- MODULE ViewChange -----------------------------
(***************************************************************************)
(* View changes of a cluster (replica.rs, jv_quorum.rs): a backup that     *)
(* misses the heartbeats asks to exit the view, a quorum that asked moves  *)
(* to the next one, its primary chooses a log from the logs of a quorum    *)
(* and announces it, and the others install it.                            *)
(*                                                                         *)
(* Normal operation is that of module NormalOperation, now for whichever   *)
(* replica is primary.  A log is shorter than a pipeline, so that no       *)
(* request waits and no head is a pipeline ahead of the commits, the state *)
(* machine does not ask for pulses, no superblock is mounted, and the      *)
(* repair of the journal sends its requests but no peer answers them.      *)
(*                                                                         *)
(* What is sent stays in network: it may arrive at any time, more than     *)
(* once, or never.  A failed assertion adds the replica to panicked.       *)
(***************************************************************************)
EXTENDS JoinViewQuorum

CONSTANTS
  BootOps,  \* the ops every replica has executed when the model starts
  MaxOp,    \* bound: the ops of a log, at most PIPELINE_PREPARE_QUEUE_MAX
  MaxView,  \* bound: the last view
  NoJoin    \* an empty slot of join_view_from_all_replicas

Replicas == 0 .. N - 1
Ops      == 1 .. MaxOp
Views    == 0 .. MaxView

\* A prepare header.  Its op is its index in the journal; the primary of a view
\* prepares an op once, so that the view is all a checksum has to tell apart.
Header == [view : Views, parent : Views, commit : 0 .. MaxOp]

Slot == Header \cup {NoHeader}

JoinView == [type : {"join_view"}, from : Replicas, view : Views, log_view : Views,
             op : 0 .. MaxOp, tail : 0 .. MaxOp, headers : [Ops -> Slot],
             commit_min : 0 .. MaxOp, nacks : SUBSET (0 .. MaxOp), present : SUBSET Ops]

Message ==
       [type : {"prepare"}, op : Ops, header : Header]
  \cup [type : {"prepare_ok"}, from : Replicas, view : Views, op : Ops, header : Header]
  \cup [type : {"commit"}, view : Views, commit : 0 .. MaxOp, header : Slot]
  \cup [type : {"exit_view"}, from : Replicas, view : Views]
  \cup [type : {"get_view"}, view : Views]
  \cup [type : {"view"}, view : Views, op : 0 .. MaxOp, commit_max : 0 .. MaxOp,
        headers : [Ops -> Slot]]
  \cup JoinView

ASSUME ClusterAssumption == N \in Nat /\ N >= 2
ASSUME BoundAssumption   == MaxOp \in Nat /\ BootOps \in 0 .. MaxOp /\ MaxView \in Nat
ASSUME SentinelAssumption ==
  /\ NoHeader \notin [view : 0 .. MaxView, parent : 0 .. MaxView, commit : 0 .. MaxOp]
  /\ NoJoin \notin Message

VARIABLES
  status,       \* status: "normal" or "view_change"
  view,         \* view
  log_view,     \* log_view: the view of the log
  op,           \* op: the head of the log
  journal,      \* journal: the header in each slot
  dirty,        \* journal.dirty: the ops whose prepare is not written
  commit_min,   \* commit_min: the last op executed
  commit_max,   \* commit_max: the last op known to be committed
  committing,   \* commit_prepare is Some(commit_min + 1)
  prepares,     \* journal.prepare_checksums: the header of the prepare written
  acks,         \* ok_from_all_replicas of each op in the pipeline
  exit_views,   \* exit_view_from_all_replicas
  exit_window,  \* exit_view_window_timeout.active
  commit_timer, \* commit_message_timeout.active
  join_tail,    \* the op of the last of join_view_headers
  joins,        \* join_view_from_all_replicas
  panicked,     \* the assertion a replica failed
  network       \* the messages sent

viewVars   == <<status, view, log_view>>
logVars    == <<op, journal, dirty, commit_max>>
commitVars == <<commit_min, committing, prepares>>
exitVars   == <<exit_views, exit_window>>
joinVars   == <<join_tail, joins>>
vars == <<viewVars, logVars, commitVars, acks, exitVars, commit_timer, joinVars,
          panicked, network>>

NoPanic   == "none"
PanicKind ==
  {NoPanic, "hash_chain", "jumped_head", "commit_checksum", "quorum_count",
   "commit_missing", "commit_as_primary", "join_view_headers", "join_view_status",
   "join_view_conflict", "op_head_range", "broken_chain", "nacked_commit", "new_primary",
   "view_commit", "truncated_commit", "replaced_commit", "get_view_status", "repair_head",
   "exit_window", "commit_timer"}

Live(r) == panicked[r] = NoPanic

Panic(r, why) ==
  /\ panicked' = [panicked EXCEPT ![r] = why]
  /\ UNCHANGED <<viewVars, logVars, commitVars, acks, exitVars, commit_timer,
                 joinVars, network>>

Send(messages) == network' = network \cup messages

-----------------------------------------------------------------------------
(* Helpers *)

PrimaryOf(v) == PrimaryOfView(v, N)

\* is_primary: whatever the status is.
IsPrimary(r) == PrimaryOf(view[r]) = r
Normal(r)    == status[r] = "normal"

\* The slots low .. high hold a chain of headers (valid_hash_chain_between).
Chain(slots, low, high) ==
  /\ \A o \in MaxOf(low, 1) .. high : slots[o] # NoHeader
  /\ \A o \in MaxOf(low, 1) + 1 .. high : slots[o].parent = slots[o - 1].view

\* journal_repair_timeout is active after the first view change.
Repairing(r) == log_view[r] > 0

\* has_prepare: a slot is clean once its op is executed (commit_op).
Clean(r, o, h) == o \notin dirty[r] /\ journal[r][o] = h

\* commit_start_journal: the next op is committed and journaled, and either the
\* chain up to the head is whole or both are of the head's view.
JournalReady(slots, head, cmin, cmax, normal) ==
  /\ cmin < cmax /\ cmin < head
  /\ slots[cmin + 1] # NoHeader /\ slots[head] # NoHeader
  /\ \/ head >= cmax /\ Chain(slots, cmin, head)
     \/ normal /\ slots[cmin + 1].view = slots[head].view

\* commit_journal at the end of a handler.
CommitJournal(r, slots, head, cmax) ==
  committing' = [committing EXCEPT ![r] =
                   @ \/ JournalReady(slots, head, commit_min[r], cmax, TRUE)]

\* commit_start_pipeline: the head of the pipeline has ok_quorum_received ...
PipelineReady(r, oks, next) ==
  next <= op[r] /\ MaskReaches(oks[next], ReplicationQuorum(N))

\* ... and then as many acknowledgements as a quorum.
QuorumCounted(S) == Cardinality(S) >= ReplicationQuorum(N)

PrepareOk(r, v, o, h) ==
  [type |-> "prepare_ok", from |-> r, view |-> v, op |-> o, header |-> h]

\* What repair() asks for when the head is behind the commits.
RepairRequest(r, head, cmax) ==
  IF Repairing(r) /\ head < cmax THEN {[type |-> "get_view", view |-> view[r]]} ELSE {}

-----------------------------------------------------------------------------
(* Normal operation *)

\* (mutations of the next definition: the status, or the room, is not looked at)
PreparesInAnyStatus(r) == IsPrimary(r) /\ op[r] < MaxOp
PreparesWhenFull(r)    == Normal(r) /\ IsPrimary(r)

\* primary_pipeline_prepare: a primary in Normal status prepares, if there is room.
MayPrepare(r) == Normal(r) /\ IsPrimary(r) /\ op[r] < MaxOp

\* on_request: the primary prepares the request and counts itself.
OnRequest(r) ==
  LET o == op[r] + 1
      h == [view |-> view[r], parent |-> HeaderAt(journal[r], op[r]).view, commit |-> commit_max[r]]
  IN  /\ MayPrepare(r)
      /\ op' = [op EXCEPT ![r] = o]
      /\ journal' = [journal EXCEPT ![r][o] = h]
      /\ dirty' = [dirty EXCEPT ![r] = @ \cup {o}]
      /\ acks' = [acks EXCEPT ![r][o] = {r}]
      /\ Send({[type |-> "prepare", op |-> o, header |-> h]})
      /\ UNCHANGED <<viewVars, commit_max, commitVars, exitVars, commit_timer,
                     joinVars, panicked>>

\* (a mutation of the next definition: a prepare of an older view will do)
FollowsOfAnyView(r, m) == m.header.view <= view[r] /\ m.op = op[r] + 1

Follows(r, m) == m.header.view = view[r] /\ m.op = op[r] + 1

\* Accepted: the prepare of this view that follows the head.
OnPrepareAccepted(r, m) ==
  LET slots == [journal[r] EXCEPT ![m.op] = m.header]
      cmax  == MaxOf(commit_max[r], m.header.commit)
  IN  /\ Normal(r) /\ ~IsPrimary(r)
      /\ Follows(r, m)
      /\ IF /\ m.op > 1 /\ journal[r][m.op - 1] # NoHeader
            /\ journal[r][m.op - 1].view # m.header.parent
         THEN Panic(r, "hash_chain")
         ELSE /\ op' = [op EXCEPT ![r] = m.op]
              /\ journal' = [journal EXCEPT ![r] = slots]
              /\ dirty' = [dirty EXCEPT ![r] = @ \cup {m.op}]
              /\ commit_max' = [commit_max EXCEPT ![r] = cmax]
              /\ CommitJournal(r, slots, m.op, cmax)
              /\ Send({PrepareOk(r, view[r], m.op, m.header)} \cup RepairRequest(r, m.op, cmax))
              /\ UNCHANGED <<viewVars, commit_min, prepares, acks, exitVars, commit_timer,
                             joinVars, panicked>>

\* FutureOp: the head jumps to the op before the prepare, which is not journaled.
OnPrepareFuture(r, m) ==
  /\ Normal(r) /\ ~IsPrimary(r)
  /\ m.header.view = view[r] /\ m.op > op[r] + 1
  /\ IF journal[r][m.op - 1] # NoHeader
     THEN Panic(r, "jumped_head")
     ELSE /\ op' = [op EXCEPT ![r] = m.op - 1]
          /\ commit_max' = [commit_max EXCEPT ![r] = MaxOf(@, m.header.commit)]
          /\ UNCHANGED <<viewVars, journal, dirty, commitVars, acks, exitVars, commit_timer,
                         joinVars, panicked, network>>

\* repair_header: a slot behind the head takes the header if the head is of its
\* view, or if it connects to the head; the head itself is never replaced.
Connects(r, o, h) == /\ Chain(journal[r], o + 1, op[r])
                     /\ o < op[r] => journal[r][o + 1].parent = h.view

RepairsHeader(r, o, h) ==
  /\ o < op[r] \/ journal[r][o] = h
  /\ \/ journal[r][op[r]] # NoHeader /\ journal[r][op[r]].view = h.view
     \/ Connects(r, o, h)

\* on_repair: a prepare of an older view, or one that is not new.
OnRepair(r, m) ==
  LET slots == [journal[r] EXCEPT ![m.op] = m.header]
      fills == ~Clean(r, m.op, m.header) /\ RepairsHeader(r, m.op, m.header)
  IN  /\ Normal(r)
      /\ m.header.view <= view[r] /\ m.op <= op[r]
      /\ IF Repairing(r) /\ fills /\ slots[op[r]] = NoHeader THEN Panic(r, "repair_head")
         ELSE /\ journal' = [journal EXCEPT ![r] = IF fills THEN slots ELSE @]
              /\ dirty' = [dirty EXCEPT ![r] = IF fills THEN @ \cup {m.op} ELSE @]
              /\ IF fills /\ ~IsPrimary(r)
                 THEN CommitJournal(r, slots, op[r], commit_max[r])
                 ELSE UNCHANGED committing
              /\ Send(IF Clean(r, m.op, m.header)
                      THEN {PrepareOk(r, view[r], m.op, m.header)}
                      ELSE IF fills THEN RepairRequest(r, op[r], commit_max[r]) ELSE {})
              /\ UNCHANGED <<viewVars, op, commit_max, commit_min, prepares, acks, exitVars,
                             commit_timer, joinVars, panicked>>

\* on_prepare_ok: counted once, for an op in the pipeline and its own header; the
\* commit pipeline is entered unless it is parked.
OnPrepareOk(r, m) ==
  LET oks   == [acks[r] EXCEPT ![m.op] = @ \cup {m.from}]
      next  == commit_min[r] + 1
      enter == ~committing[r] /\ PipelineReady(r, oks, next)
  IN  /\ Normal(r) /\ IsPrimary(r)
      /\ m.view = view[r]
      /\ m.op \in next .. op[r] /\ m.header = journal[r][m.op] /\ m.from \notin acks[r][m.op]
      /\ IF enter /\ ~QuorumCounted(oks[next]) THEN Panic(r, "quorum_count")
         ELSE /\ acks' = [acks EXCEPT ![r] = oks]
              /\ committing' = [committing EXCEPT ![r] = @ \/ enter]
              /\ UNCHANGED <<viewVars, logVars, commit_min, prepares, exitVars, commit_timer,
                             joinVars, panicked, network>>

\* send_commit, by the fault detector, which also restarts commit_message_timeout,
\* or by that timeout, which expects a Normal primary.
SendCommit(r) ==
  /\ Normal(r) /\ IsPrimary(r)
  /\ commit_timer' = [commit_timer EXCEPT ![r] = TRUE]
  /\ Send({[type |-> "commit", view |-> view[r], commit |-> commit_max[r],
            header |-> IF commit_max[r] = 0 THEN NoHeader ELSE journal[r][commit_max[r]]]})
  /\ UNCHANGED <<viewVars, logVars, commitVars, acks, exitVars, joinVars, panicked>>

OnCommitTimeoutAbroad(r) ==
  /\ commit_timer[r]
  /\ ~(Normal(r) /\ IsPrimary(r))
  /\ Panic(r, "commit_timer")

\* on_commit; a fresh heartbeat takes back the replica's own wish to exit the view.
OnCommit(r, m) ==
  LET cmax == MaxOf(commit_max[r], m.commit)
  IN  /\ Normal(r) /\ ~IsPrimary(r)
      /\ m.view = view[r]
      /\ IF /\ m.commit > 0 /\ journal[r][m.commit] # NoHeader
            /\ journal[r][m.commit] # m.header
            /\ Chain(journal[r], m.commit, op[r])
         THEN Panic(r, "commit_checksum")
         ELSE /\ commit_max' = [commit_max EXCEPT ![r] = cmax]
              /\ CommitJournal(r, journal[r], op[r], cmax)
              /\ \E fresh \in BOOLEAN :
                   exit_views' = [exit_views EXCEPT ![r] = IF fresh THEN @ \ {r} ELSE @]
              /\ UNCHANGED <<viewVars, op, journal, dirty, commit_min, prepares, acks,
                             exit_window,
                             commit_timer, joinVars, panicked, network>>

\* The commit pipeline executes the op it holds, perhaps long after it took it,
\* and looks for the next one: in prepare_queue on a Normal primary, else in the
\* journal, where it expects not to be the primary.
CommitExecute(r) ==
  LET this    == commit_min[r] + 1
      cmax    == MaxOf(commit_max[r], this)
      primary == Normal(r) /\ IsPrimary(r)
      ready   == IF primary THEN PipelineReady(r, acks[r], this + 1)
                 ELSE JournalReady(journal[r], op[r], this, cmax, Normal(r))
      why     == IF journal[r][this] = NoHeader THEN "commit_missing"
                 ELSE IF primary /\ ready /\ ~QuorumCounted(acks[r][this + 1]) THEN "quorum_count"
                 ELSE IF ~primary /\ IsPrimary(r) THEN "commit_as_primary" ELSE NoPanic
  IN  /\ committing[r]
      /\ IF why # NoPanic THEN Panic(r, why)
         ELSE /\ commit_min' = [commit_min EXCEPT ![r] = this]
              /\ commit_max' = [commit_max EXCEPT ![r] = cmax]
              /\ committing' = [committing EXCEPT ![r] = ready]
              /\ dirty' = [dirty EXCEPT ![r] = @ \ {this}]
              /\ prepares' = [prepares EXCEPT ![r][this] = journal[r][this]]
              /\ UNCHANGED <<viewVars, op, journal, acks, exitVars, commit_timer,
                             joinVars, panicked, network>>

-----------------------------------------------------------------------------
(* Leaving a view *)

\* update_join_view_headers: the tail of the list of headers a replica joins with,
\* built when it leaves Normal status; an op of the list that is missing stops it.
JoinTail(r)     == IF Normal(r) THEN MinOf(op[r], commit_max[r]) ELSE join_tail[r]
CannotJoin(r)   == \E o \in JoinTail(r) .. op[r] : o > 0 /\ journal[r][o] = NoHeader

\* send_join_view: nothing is known to be on disk before the op is executed.
JoinViewOf(r, v) ==
  LET listed == JoinTail(r) .. op[r]
  IN  [type |-> "join_view", from |-> r, view |-> v, log_view |-> log_view[r],
       op |-> op[r], tail |-> JoinTail(r),
       headers |-> [o \in Ops |-> IF o \in listed THEN journal[r][o] ELSE NoHeader],
       commit_min |-> commit_min[r],
       nacks |-> {o \in listed : o = 0 \/ o \in dirty[r]},
       present |-> {o \in listed \ {0} : prepares[r][o] = journal[r][o]}]

\* transition_to_view_change_status.  Neither exit_view_window_timeout, nor
\* commit_message_timeout, nor a commit under way is stopped.
Transition(r, v) ==
  IF CannotJoin(r) THEN Panic(r, "join_view_headers")
  ELSE /\ status' = [status EXCEPT ![r] = "view_change"]
       /\ view' = [view EXCEPT ![r] = v]
       /\ exit_views' = [exit_views EXCEPT ![r] = {}]
       /\ acks' = [acks EXCEPT ![r] = [o \in Ops |-> {}]]
       /\ join_tail' = [join_tail EXCEPT ![r] = JoinTail(r)]
       /\ joins' = [joins EXCEPT ![r] =
                      [q \in Replicas |-> IF q = r /\ PrimaryOf(v) = r
                                         THEN JoinViewOf(r, v) ELSE NoJoin]]
       /\ Send({JoinViewOf(r, v)})
       /\ UNCHANGED <<log_view, logVars, commitVars, exit_window, commit_timer, panicked>>

\* send_exit_view: by a backup whose fault detector is red, by a replica whose
\* view change takes long, and by one that has asked before.
SendExitView(r) ==
  /\ view[r] < MaxView
  /\ \/ Normal(r) /\ ~IsPrimary(r)
     \/ ~Normal(r)
     \/ r \in exit_views[r]
  /\ exit_views' = [exit_views EXCEPT ![r] = @ \cup {r}]
  /\ exit_window' = [exit_window EXCEPT ![r] = TRUE]
  /\ Send({[type |-> "exit_view", from |-> r, view |-> view[r]]})
  /\ UNCHANGED <<viewVars, logVars, commitVars, acks, commit_timer, joinVars, panicked>>

\* on_exit_view; the quorum is tested on the mask, as for prepare_ok.
OnExitView(r, m) ==
  LET exits == exit_views[r] \cup {m.from}
  IN  /\ view[r] < MaxView
      /\ m.from # r /\ m.view >= view[r]
      /\ IF MaskReaches(exits, ViewChangeQuorum(N)) THEN Transition(r, view[r] + 1)
         ELSE /\ exit_views' = [exit_views EXCEPT ![r] = exits]
              /\ UNCHANGED <<viewVars, logVars, commitVars, acks, exit_window,
                             commit_timer, joinVars, panicked, network>>

\* on_exit_view_window_timeout: keeps the replica's own wish only.
OnExitWindowTimeout(r) ==
  /\ exit_window[r]
  /\ IF exit_views[r] = {} THEN Panic(r, "exit_window")
     ELSE /\ exit_views' = [exit_views EXCEPT ![r] = @ \cap {r}]
          /\ exit_window' = [exit_window EXCEPT ![r] = FALSE]
          /\ UNCHANGED <<viewVars, logVars, commitVars, acks, commit_timer, joinVars,
                         panicked, network>>

-----------------------------------------------------------------------------
(* Choosing the log of the new view *)

\* primary_receive_join_view: of two join views, the one that committed more.
Newer(kept, j) == IF kept # NoJoin /\ kept.commit_min >= j.commit_min THEN kept ELSE j

\* on_join_view_message_timeout, which looks at no quorum.
OnJoinViewTimeout(r) ==
  LET j == JoinViewOf(r, view[r])
  IN  /\ ~Normal(r)
      /\ Send({j})
      /\ joins' = [joins EXCEPT ![r][r] = IF PrimaryOf(view[r]) = r THEN Newer(@, j) ELSE @]
      /\ UNCHANGED <<viewVars, logVars, commitVars, acks, exitVars, commit_timer,
                     join_tail, panicked>>

\* What stays dirty or becomes so in the new log.
DirtyIn(r, slots, head) == {o \in 1 .. head : o \in dirty[r] \/ slots[o] # journal[r][o]}

\* The assertions on the way from the join views to the new log, in their order.
JoinFailure(J) ==
  IF Conflicts(J) THEN "join_view_conflict"
  ELSE IF Awaits(J) THEN NoPanic
  ELSE IF HeadMin(J) > HeadMax(J) THEN "op_head_range"
  ELSE IF OpHead(J) < HeadMin(J) THEN "nacked_commit"
  ELSE IF Broken(J) THEN "broken_chain" ELSE NoPanic

\* The log of the new view on replica r, its primary.
ChosenSlots(r, J) ==
  [o \in Ops |-> IF o > OpHead(J) THEN NoHeader
                 ELSE IF SurvivingHeaders(J, o) = {} THEN journal[r][o]
                 ELSE CHOOSE h \in SurvivingHeaders(J, o) : TRUE]

\* set_op_and_commit_max, replace_header and primary_start_view_as_the_new_primary,
\* which wants every op of the log committed and written.  An op is written when it
\* is executed, so that none is left in the pipeline.
StartFailure(r, J) ==
  LET head  == OpHead(J)
      slots == ChosenSlots(r, J)
      cmax  == MaxOf(commit_max[r], HeadMin(J))
  IN  IF head < op[r] /\ head < cmax THEN "truncated_commit"
      ELSE IF head < cmax THEN "new_primary"
      ELSE IF \E o \in 1 .. commit_min[r] : \E h \in SurvivingHeaders(J, o) :
                 journal[r][o] \notin {NoHeader, h} THEN "replaced_commit"
      ELSE IF head = 0 \/ ~Chain(slots, 1, head) \/ DirtyIn(r, slots, head) # {}
              \/ commit_min[r] # cmax THEN "new_primary" ELSE NoPanic

ViewOf(v, head, slots, cmax) ==
  [type |-> "view", view |-> v, op |-> head, commit_max |-> cmax, headers |-> slots]

\* on_join_view; on a quorum of join views the new primary takes the log they
\* decide, announces it and starts the view.
OnJoinView(r, m) ==
  LET kept == [joins[r] EXCEPT ![m.from] = Newer(@, m)]
      J    == {kept[q] : q \in Replicas} \ {NoJoin}
  IN  /\ m.from # r /\ m.view >= view[r]
      /\ ~(Normal(r) /\ m.view = view[r])
      /\ PrimaryOf(view[r]) = r
      /\ IF Normal(r) \/ m.view > view[r] THEN Panic(r, "join_view_status")
         ELSE IF JoinFailure(J) # NoPanic THEN Panic(r, JoinFailure(J))
         ELSE IF Awaits(J)
         THEN /\ joins' = [joins EXCEPT ![r] = kept]
              /\ UNCHANGED <<viewVars, logVars, commitVars, acks, exitVars, commit_timer,
                             join_tail, panicked, network>>
         ELSE IF StartFailure(r, J) # NoPanic THEN Panic(r, StartFailure(r, J))
         ELSE /\ status' = [status EXCEPT ![r] = "normal"]
              /\ log_view' = [log_view EXCEPT ![r] = view[r]]
              /\ op' = [op EXCEPT ![r] = OpHead(J)]
              /\ journal' = [journal EXCEPT ![r] = ChosenSlots(r, J)]
              /\ dirty' = [dirty EXCEPT ![r] = {}]
              /\ commit_max' = [commit_max EXCEPT ![r] = MaxOf(@, HeadMin(J))]
              /\ acks' = [acks EXCEPT ![r] = [o \in Ops |-> {}]]
              /\ exit_views' = [exit_views EXCEPT ![r] = {}]
              /\ exit_window' = [exit_window EXCEPT ![r] = FALSE]
              /\ commit_timer' = [commit_timer EXCEPT ![r] = TRUE]
              /\ join_tail' = [join_tail EXCEPT ![r] = 0]
              /\ joins' = [joins EXCEPT ![r] = [q \in Replicas |-> NoJoin]]
              /\ Send({ViewOf(view[r], OpHead(J), ChosenSlots(r, J),
                               MaxOf(commit_max[r], HeadMin(J)))})
              /\ UNCHANGED <<view, commitVars, panicked>>

-----------------------------------------------------------------------------
(* Installing the log of the new view *)

\* on_get_view_message_timeout, of a replica that waits for another's view.
OnGetViewTimeout(r) ==
  /\ ~Normal(r) /\ ~IsPrimary(r)
  /\ Send({[type |-> "get_view", view |-> view[r]]})
  /\ UNCHANGED <<viewVars, logVars, commitVars, acks, exitVars, commit_timer,
                 joinVars, panicked>>

\* on_get_view: sent to the primary of the view asked for.
OnGetView(r, m) ==
  /\ PrimaryOf(m.view) = r
  /\ IF ~Normal(r) \/ m.view # view[r] THEN Panic(r, "get_view_status")
     ELSE /\ Send({ViewOf(view[r], op[r], journal[r], commit_max[r])})
          /\ UNCHANGED <<viewVars, logVars, commitVars, acks, exitVars, commit_timer,
                         joinVars, panicked>>

\* (a mutation of the next definition: committed headers are replaced in silence)
TrustingView(r, m) ==
  IF m.op < op[r] /\ m.op < m.commit_max THEN "truncated_commit"
  ELSE IF m.op = 0 THEN "repair_head" ELSE NoPanic

\* The assertions of on_view and of the repair() at its end.
ViewFailure(r, m) ==
  IF \E o \in 1 .. m.op : m.headers[o].commit > m.commit_max THEN "view_commit"
  ELSE IF m.op < op[r] /\ m.op < MaxOf(commit_max[r], m.commit_max) THEN "truncated_commit"
  ELSE IF \E o \in 1 .. commit_min[r] : journal[r][o] \notin {NoHeader, m.headers[o]}
       THEN "replaced_commit"
  ELSE IF m.op = 0 THEN "repair_head" ELSE NoPanic

\* (a mutation of the next definition: only an older view is stale)
StaleByView(r, m) == m.view < log_view[r]

\* A view the replica has joined, announced before the head it has now.
IsStale(r, m) == m.view = log_view[r] /\ m.op < op[r]

\* on_view: the log of the view replaces the replica's, which joins the view if it
\* has not, answers for the ops not committed, repairs and commits.
OnView(r, m) ==
  LET jumps == view[r] < m.view
      joins_view == jumps \/ ~Normal(r)
      cmax  == MaxOf(commit_max[r], m.commit_max)
      oks   == {PrepareOk(r, m.view, o, m.headers[o]) : o \in cmax + 1 .. m.op}
  IN  /\ m.view >= view[r] /\ PrimaryOf(m.view) # r
      /\ ~IsStale(r, m)
      /\ IF jumps /\ CannotJoin(r) THEN Panic(r, "join_view_headers")
         ELSE IF ViewFailure(r, m) # NoPanic THEN Panic(r, ViewFailure(r, m))
         ELSE /\ op' = [op EXCEPT ![r] = m.op]
              /\ journal' = [journal EXCEPT ![r] = m.headers]
              /\ dirty' = [dirty EXCEPT ![r] = DirtyIn(r, m.headers, m.op)]
              /\ commit_max' = [commit_max EXCEPT ![r] = cmax]
              /\ CommitJournal(r, m.headers, m.op, cmax)
              /\ Send((IF jumps THEN {JoinViewOf(r, m.view)} ELSE {})
                      \cup (IF joins_view THEN oks ELSE {})
                      \cup (IF m.op < cmax /\ m.view > 0
                            THEN {[type |-> "get_view", view |-> m.view]} ELSE {}))
              /\ IF joins_view
                 THEN /\ status' = [status EXCEPT ![r] = "normal"]
                      /\ view' = [view EXCEPT ![r] = m.view]
                      /\ log_view' = [log_view EXCEPT ![r] = m.view]
                      /\ acks' = [acks EXCEPT ![r] = [o \in Ops |-> {}]]
                      /\ exit_views' = [exit_views EXCEPT ![r] = {}]
                      /\ exit_window' = [exit_window EXCEPT ![r] = FALSE]
                      /\ commit_timer' = [commit_timer EXCEPT ![r] = FALSE]
                      /\ join_tail' = [join_tail EXCEPT ![r] = 0]
                      /\ joins' = [joins EXCEPT ![r] = [q \in Replicas |-> NoJoin]]
                 ELSE UNCHANGED <<viewVars, acks, exitVars, commit_timer, joinVars>>
              /\ UNCHANGED <<commit_min, prepares, panicked>>

\* on_journal_repair_timeout, once a view change has started the timer.
OnRepairTimeout(r) ==
  /\ Normal(r) /\ Repairing(r)
  /\ IF op[r] = 0 \/ journal[r][op[r]] = NoHeader THEN Panic(r, "repair_head")
     ELSE /\ IF IsPrimary(r) THEN UNCHANGED committing
             ELSE CommitJournal(r, journal[r], op[r], commit_max[r])
          /\ Send(RepairRequest(r, op[r], commit_max[r]))
          /\ UNCHANGED <<viewVars, logVars, commit_min, prepares, acks, exitVars,
                         commit_timer, joinVars, panicked>>

-----------------------------------------------------------------------------
Booted == [o \in Ops |-> IF o > BootOps THEN NoHeader
                         ELSE [view |-> 0, parent |-> 0, commit |-> o - 1]]

Init ==
  /\ status = [r \in Replicas |-> "normal"]
  /\ view = [r \in Replicas |-> 0]
  /\ log_view = [r \in Replicas |-> 0]
  /\ op = [r \in Replicas |-> BootOps]
  /\ journal = [r \in Replicas |-> Booted]
  /\ dirty = [r \in Replicas |-> {}]
  /\ commit_min = [r \in Replicas |-> BootOps]
  /\ commit_max = [r \in Replicas |-> BootOps]
  /\ committing = [r \in Replicas |-> FALSE]
  /\ prepares = [r \in Replicas |-> Booted]
  /\ acks = [r \in Replicas |-> [o \in Ops |-> {}]]
  /\ exit_views = [r \in Replicas |-> {}]
  /\ exit_window = [r \in Replicas |-> FALSE]
  /\ commit_timer = [r \in Replicas |-> FALSE]
  /\ join_tail = [r \in Replicas |-> 0]
  /\ joins = [r \in Replicas |-> [q \in Replicas |-> NoJoin]]
  /\ panicked = [r \in Replicas |-> NoPanic]
  /\ network = {}

Received(type) == {m \in network : m.type = type}

\* A replica that failed an assertion takes no more steps.
Next ==
  \E r \in Replicas :
    /\ Live(r)
    /\ \/ OnRequest(r)
       \/ SendCommit(r)
       \/ OnCommitTimeoutAbroad(r)
       \/ CommitExecute(r)
       \/ SendExitView(r)
       \/ OnExitWindowTimeout(r)
       \/ OnJoinViewTimeout(r)
       \/ OnGetViewTimeout(r)
       \/ OnRepairTimeout(r)
       \/ \E m \in Received("prepare") :
            OnPrepareAccepted(r, m) \/ OnPrepareFuture(r, m) \/ OnRepair(r, m)
       \/ \E m \in Received("prepare_ok") : OnPrepareOk(r, m)
       \/ \E m \in Received("commit") : OnCommit(r, m)
       \/ \E m \in Received("exit_view") : OnExitView(r, m)
       \/ \E m \in Received("join_view") : OnJoinView(r, m)
       \/ \E m \in Received("get_view") : OnGetView(r, m)
       \/ \E m \in Received("view") : OnView(r, m)

Spec == Init /\ [][Next]_vars

-----------------------------------------------------------------------------
(* Properties *)

TypeOK ==
  /\ status \in [Replicas -> {"normal", "view_change"}]
  /\ view \in [Replicas -> Views]
  /\ log_view \in [Replicas -> Views]
  /\ op \in [Replicas -> 0 .. MaxOp]
  /\ journal \in [Replicas -> [Ops -> Slot]]
  /\ dirty \in [Replicas -> SUBSET Ops]
  /\ commit_min \in [Replicas -> 0 .. MaxOp]
  /\ commit_max \in [Replicas -> 0 .. MaxOp]
  /\ committing \in [Replicas -> BOOLEAN]
  /\ prepares \in [Replicas -> [Ops -> Slot]]
  /\ acks \in [Replicas -> [Ops -> SUBSET Replicas]]
  /\ exit_views \in [Replicas -> SUBSET Replicas]
  /\ exit_window \in [Replicas -> BOOLEAN]
  /\ commit_timer \in [Replicas -> BOOLEAN]
  /\ join_tail \in [Replicas -> 0 .. MaxOp]
  /\ \A r, q \in Replicas : joins[r][q] # NoJoin => joins[r][q] \in network
  /\ panicked \in [Replicas -> PanicKind]
  /\ \A m \in network : m \in Message

\* A prepare_ok is a promise: as long as the log of the replica that sent it is of
\* the view it answered in, whether it is in that view or leaving it, the log holds
\* the prepare (send_prepare_ok, on_view, transition_to_view_change_status).
AcknowledgedIsKept ==
  \A m \in Received("prepare_ok") :
     log_view[m.from] = m.view => journal[m.from][m.op] = m.header

\* No repair, no view and no join view takes an op that a replica has executed out
\* of its log or changes its header (repair_header, replace_header).
ExecutedIsKept ==
  \A r \in Replicas : \A o \in 1 .. commit_min[r] : journal[r][o] = prepares[r][o]

\* Two logs of one view have no op with different headers, whatever their replicas
\* held in the views before (on_view_set_journal, on_prepare, repair_header).
LogsOfAViewMatch ==
  \A r, q \in Replicas : log_view[r] = log_view[q] =>
     \A o \in Ops : NoHeader \in {journal[r][o], journal[q][o]} \/ journal[r][o] = journal[q][o]

\* The assertions that compare a header with one that came from elsewhere never
\* fail: they guard against a fork of the log inside a view (on_prepare, on_commit,
\* jv_quorum::verify, quorum_headers, headers_for_view, on_view_set_journal).
HeadersNeverConflict ==
  \A r \in Replicas :
     panicked[r] \notin {"hash_chain", "jumped_head", "commit_checksum", "join_view_conflict",
                        "broken_chain", "view_commit"}

\* An op is prepared once in a view, so that a view and an op name a prepare: also
\* when the primary of the view truncated its log (primary_pipeline_prepare).
PreparedOnce ==
  [][\A r \in Replicas : Live(r) /\ OnRequest(r) =>
       \A m \in Received("prepare") : <<m.op, m.header.view>> # <<op[r] + 1, view[r]>>]_vars

\* replica.rs:1204 of set_op_and_commit_max: "Uncommitted ops may not survive a view
\* change, but committed ops are never truncated".  What a replica has executed, and
\* still stands by in its view, is in the log of every later view.
CommittedIsNeverTruncated ==
  \A r, q \in Replicas :
     Normal(r) /\ Normal(q) /\ view[r] < view[q] =>
       \A o \in 1 .. commit_min[r] : o <= op[q] /\ journal[q][o] = prepares[r][o]
=============================================================================
