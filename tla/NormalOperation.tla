-------------------------- MODULE NormalOperation --------------------------
(***************************************************************************)
(* One view of a cluster in Normal status (replica.rs): the primary turns  *)
(* requests into prepares, the backups journal and acknowledge them, the   *)
(* commit pipeline executes them in order, and the heartbeats tell the     *)
(* backups how far they may execute.                                       *)
(*                                                                         *)
(* The replicas start like the ones of the repository's cluster tests:     *)
(* Normal, with an empty journal and journal_repair_timeout inactive, so   *)
(* that repair() returns at once.  View changes are in another module.     *)
(*                                                                         *)
(* A failed assertion ends the process of the replica: it is added to      *)
(* panicked and takes no further step; what the handler had done by then   *)
(* is lost with it, since send_queue is drained by the owner afterwards.   *)
(***************************************************************************)
EXTENDS VsrQuorums, Sequences

CONSTANTS
  N,            \* replica_count
  Primary,      \* primary_index_for_view(view)
  Requests,     \* the client requests, each with a body
  Bodyless,     \* the requests whose body is empty
  Pulse,        \* the state machine's pulse, prepared by the primary itself
  Root,         \* the parent of the first prepare
  NoHeader,     \* an empty journal slot
  PipelineMax,  \* PIPELINE_PREPARE_QUEUE_MAX
  MaxOp,        \* bound: the number of ops that are prepared
  MaxQueue,     \* bound: the number of requests that wait in request_queue
  MaxLost,      \* bound: the number of messages the network loses
  Duplication   \* whether a delivered message may be delivered again

Replicas == 0 .. N - 1
Backups  == Replicas \ {Primary}
Ops      == 1 .. MaxOp
Entries  == Requests \cup {Pulse}

\* A prepare header.  Its op is its index in the journal; its checksum is the
\* header itself; parent is all that the parent's checksum tells apart.
Header == [request : Entries, parent : Entries \cup {Root}, commit : 0 .. MaxOp]

\* body is FALSE for a prepare that is sent as a header only.
Message ==
       [type : {"prepare"}, to : Backups, op : Ops, header : Header, body : BOOLEAN]
  \cup [type : {"prepare_ok"}, from : Backups, op : Ops, header : Header]
  \cup [type : {"commit"}, to : Backups, commit : 0 .. MaxOp,
        header : Header \cup {NoHeader}]

ASSUME ClusterAssumption == N \in Nat \ {0} /\ Primary \in 0 .. N - 1
ASSUME EntryAssumption ==
  /\ Bodyless \subseteq Requests
  /\ Pulse \notin Requests
  /\ Root \notin Requests \cup {Pulse}
  /\ NoHeader \notin [request : Requests \cup {Pulse},
                      parent : Requests \cup {Pulse, Root}, commit : 0 .. MaxOp]
ASSUME BoundAssumption ==
  /\ PipelineMax \in Nat \ {0}
  /\ MaxOp \in Nat /\ MaxQueue \in Nat /\ MaxLost \in Nat
  /\ Duplication \in BOOLEAN

VARIABLES
  op,              \* op: the head of each replica's log
  journal,         \* journal: the header in each slot of each replica's log
  commit_min,      \* commit_min: the last op each replica has executed
  commit_max,      \* commit_max: the last op each replica knows is committed
  committing,      \* commit_prepare is Some(commit_min + 1)
  request_queue,   \* pipeline_queue.request_queue of the primary
  acks,            \* ok_from_all_replicas, kept after the op leaves the pipeline
  prepare_timer,   \* prepare_timeout.active of the primary
  abdicate_timer,  \* primary_abdicate_timeout.active of the primary
  abdicating,      \* primary_abdicating
  panicked,        \* the replicas that failed an assertion, and which
  network,         \* the messages in flight
  lost             \* how many messages the network has lost

logVars     == <<op, journal, commit_max>>
primaryVars == <<request_queue, acks, prepare_timer, abdicate_timer, abdicating>>
commitVars  == <<commit_min, committing>>
vars == <<logVars, commitVars, primaryVars, panicked, network, lost>>

NoPanic   == "none"
PanicKind == {NoPanic, "hash_chain", "commit_checksum", "jumped_head", "quorum_count",
              "pipeline_full", "abdicate_timer"}

Live(r) == panicked[r] = NoPanic

Panic(r, why) == /\ panicked' = [panicked EXCEPT ![r] = why]
                 /\ UNCHANGED <<logVars, commitVars, primaryVars, network, lost>>

-----------------------------------------------------------------------------
(* Helpers *)

Quorum == ReplicationQuorum(N)

\* What on_prepare_ok takes for a replication quorum.
OkQuorum(S) == MaskReaches(S, Quorum)

\* The ops of prepare_queue: it is filled at the head of the log and emptied
\* by the commits.
Pipeline    == commit_min[Primary] + 1 .. op[Primary]
\* (a mutation: one prepare too many fits)
OffByOneLen == op[Primary] - commit_min[Primary] - 1

PipelineLen == op[Primary] - commit_min[Primary]

\* The first prepare that has no quorum (primary_pipeline_pending) exists.
Pending(o) == /\ o \in Pipeline
              /\ ~OkQuorum(acks[o])
              /\ \A p \in Pipeline : p < o => OkQuorum(acks[p])

\* has_prepare: the slot is clean.  In a single view a slot is dirty from the
\* time it is journaled until its op is executed (commit_op).
Clean(r, o, h) == o <= commit_min[r] /\ journal[r][o] = h

Delivered(m, sent) ==
  network' = (IF Duplication THEN network ELSE network \ {m}) \cup sent

PrepareOk(r, o, h) == [type |-> "prepare_ok", from |-> r, op |-> o, header |-> h]

\* (mutations of the next definition: a gap is executed, an op is executed before
\* it is committed, the last committed op is not executed)
ReadyOverGap(slots, head, cmin, cmax) ==
  cmin < cmax /\ cmin < head /\ slots[head] # NoHeader

ReadyUncommitted(slots, head, cmin, cmax) ==
  cmin < head /\ slots[cmin + 1] # NoHeader /\ slots[head] # NoHeader

ReadyLate(slots, head, cmin, cmax) ==
  cmin + 1 < cmax /\ cmin < head /\ slots[cmin + 1] # NoHeader /\ slots[head] # NoHeader

\* commit_start_journal: the next op is committed and journaled, and so is the
\* head, whose view is the only one here.
JournalReady(slots, head, cmin, cmax) ==
  /\ cmin < cmax /\ cmin < head
  /\ slots[cmin + 1] # NoHeader
  /\ slots[head] # NoHeader

\* (a mutation: the last prepare of the pipeline is left behind)
NeverLast(oks, next, head) == next < head /\ OkQuorum(oks[next])

\* commit_start_pipeline: the head of the pipeline has ok_quorum_received.
PipelineReady(oks, next, head) == next <= head /\ OkQuorum(oks[next])

\* ... which then asserts that the acknowledgements are as many as a quorum.
QuorumCounted(S) == Cardinality(S) >= Quorum

-----------------------------------------------------------------------------
(* The primary *)

\* (a mutation of the next definition: the parent is the last executed prepare
\* instead of the head)
ParentIsExecuted(s, commit) ==
  [i \in 1 .. Len(s) |->
     [request |-> s[i],
      parent  |-> IF i > 1 THEN s[i - 1]
                  ELSE IF commit_min[Primary] = 0 THEN Root
                  ELSE journal[Primary][commit_min[Primary]].request,
      commit  |-> commit]]

\* The headers of the requests in s when they are prepared one after another.
HeadersOf(s, commit) ==
  [i \in 1 .. Len(s) |->
     [request |-> s[i],
      parent  |-> IF i > 1 THEN s[i - 1]
                  ELSE IF op[Primary] = 0 THEN Root
                  ELSE journal[Primary][op[Primary]].request,
      commit  |-> commit]]

\* (a mutation: the slot of the pipeline keeps the acknowledgements it had)
AcksNotReset(s) == [o \in Ops |-> IF o \in op[Primary] + 1 .. op[Primary] + Len(s)
                                  THEN {Primary} \cup (IF o = 1 THEN {} ELSE acks[o - 1])
                                  ELSE acks[o]]

\* acks once the requests in s are prepared: the primary counts itself.
AcksWith(s) == [o \in Ops |-> IF o \in op[Primary] + 1 .. op[Primary] + Len(s)
                              THEN {Primary} ELSE acks[o]]

\* (a mutation: the primary sends the prepare to itself too)
CopiesToAll(s, commit) ==
  {[type |-> "prepare", to |-> r, op |-> op[Primary] + i,
    header |-> HeadersOf(s, commit)[i], body |-> TRUE] :
      r \in Replicas, i \in 1 .. Len(s)}

PrepareCopies(s, commit) ==
  {[type |-> "prepare", to |-> r, op |-> op[Primary] + i,
    header |-> HeadersOf(s, commit)[i], body |-> TRUE] :
      r \in Backups, i \in 1 .. Len(s)}

\* primary_pipeline_prepare for each request of s; len is the length of the
\* pipeline before.  The timers start when the pipeline stops being empty.
Prepare(s, commit, len) ==
  /\ op[Primary] + Len(s) <= MaxOp
  /\ op' = [op EXCEPT ![Primary] = @ + Len(s)]
  /\ journal' = [journal EXCEPT ![Primary] =
                   [o \in Ops |-> IF o \in op[Primary] + 1 .. op[Primary] + Len(s)
                                  THEN HeadersOf(s, commit)[o - op[Primary]]
                                  ELSE @[o]]]
  /\ acks' = AcksWith(s)
  /\ network' = network \cup PrepareCopies(s, commit)
  /\ prepare_timer'  = (prepare_timer  \/ (len = 0 /\ s # <<>>))
  /\ abdicate_timer' = (abdicate_timer \/ (len = 0 /\ s # <<>>))

\* on_request: prepared at once unless the pipeline is full.
OnRequest(v) ==
  /\ Live(Primary)
  /\ PipelineLen < PipelineMax
  /\ Prepare(<<v>>, commit_max[Primary], PipelineLen)
  /\ UNCHANGED <<commit_max, commitVars, request_queue, abdicating, panicked, lost>>

OnRequestQueued(v) ==
  /\ Live(Primary)
  /\ PipelineLen >= PipelineMax
  /\ Len(request_queue) < MaxQueue
  /\ request_queue' = Append(request_queue, v)
  /\ UNCHANGED <<logVars, commitVars, acks, prepare_timer, abdicate_timer,
                 abdicating, panicked, network, lost>>

\* on_prepare_ok_message, when the acknowledgement is new: it is counted, the
\* timers stop if a quorum is reached and nothing else is in the pipeline, and
\* the commit pipeline is entered unless it is parked.
CountsAck(m) == m.op \in Pipeline /\ m.header = journal[Primary][m.op]
                                  /\ m.from \notin acks[m.op]

OnPrepareOk(m) ==
  LET oks  == [acks EXCEPT ![m.op] = @ \cup {m.from}]
      next == commit_min[Primary] + 1
      enter == ~committing[Primary] /\ PipelineReady(oks, next, op[Primary])
      drained == OkQuorum(oks[m.op]) /\ PipelineLen <= 1
  IN  /\ m.type = "prepare_ok" /\ Live(Primary) /\ CountsAck(m)
      /\ IF enter /\ ~QuorumCounted(oks[next])
         THEN Panic(Primary, "quorum_count")
         ELSE /\ acks' = oks
              /\ prepare_timer'  = (prepare_timer  /\ ~drained)
              /\ abdicate_timer' = (abdicate_timer /\ ~drained)
              /\ committing' = [committing EXCEPT ![Primary] = @ \/ enter]
              /\ Delivered(m, {})
              /\ UNCHANGED <<logVars, commit_min, request_queue, abdicating,
                             panicked, lost>>

\* UnknownOp, ChecksumMismatch and DuplicateAck change nothing.
OnPrepareOkIgnored(m) ==
  /\ m.type = "prepare_ok" /\ Live(Primary) /\ ~CountsAck(m)
  /\ Delivered(m, {})
  /\ UNCHANGED <<logVars, commitVars, primaryVars, panicked, lost>>

\* commit_execute on the primary, which commit_stall or commit_reply_setup may
\* have parked: the op leaves the pipeline, a queued request takes its place
\* and the state machine may ask for a pulse; then the loop of commit_dispatch
\* looks at the next op.  pulse_enabled asserts that the pipeline is not full.
CommitExecutePrimary(wantsPulse) ==
  LET this   == commit_min[Primary] + 1
      popped == IF request_queue = <<>> THEN <<>>
                ELSE <<request_queue[Len(request_queue)]>>
      len    == PipelineLen - 1
      pulse  == /\ wantsPulse
                /\ \A o \in this + 1 .. op[Primary] : journal[Primary][o].request # Pulse
      s      == popped \o (IF pulse THEN <<Pulse>> ELSE <<>>)
      ready  == PipelineReady(AcksWith(s), this + 1, op[Primary] + Len(s))
  IN  /\ Live(Primary) /\ committing[Primary]
      /\ IF len + Len(popped) >= PipelineMax THEN Panic(Primary, "pipeline_full")
         ELSE /\ op[Primary] + Len(s) <= MaxOp
              /\ IF ready /\ ~QuorumCounted(AcksWith(s)[this + 1])
                 THEN Panic(Primary, "quorum_count")
                 ELSE /\ Prepare(s, this, len)
                      /\ commit_min' = [commit_min EXCEPT ![Primary] = this]
                      /\ commit_max' = [commit_max EXCEPT ![Primary] = MaxOf(@, this)]
                      /\ committing' = [committing EXCEPT ![Primary] = ready]
                      /\ request_queue' =
                           SubSeq(request_queue, 1, Len(request_queue) - Len(popped))
                      /\ UNCHANGED <<abdicating, panicked, lost>>

\* on_prepare_timeout: the first prepare without a quorum is sent again, its
\* header only, to the backups that have not acknowledged it.
OnPrepareTimeout ==
  /\ Live(Primary) /\ prepare_timer
  /\ \/ /\ \A o \in Pipeline : OkQuorum(acks[o])
        /\ prepare_timer' = FALSE
        /\ abdicate_timer' = FALSE
        /\ UNCHANGED network
     \/ \E o \in Ops :
          /\ Pending(o)
          /\ network' = network \cup
               {[type |-> "prepare", to |-> r, op |-> o,
                 header |-> journal[Primary][o], body |-> FALSE] : r \in Replicas \ acks[o]}
          /\ UNCHANGED <<prepare_timer, abdicate_timer>>
  /\ UNCHANGED <<logVars, commitVars, request_queue, acks, abdicating, panicked, lost>>

\* send_commit, from commit_message_timeout or from the fault detector.
SendCommit ==
  /\ Live(Primary)
  /\ IF abdicating
     THEN /\ ~abdicate_timer
          /\ Panic(Primary, "abdicate_timer")
     ELSE /\ network' = network \cup
               {[type |-> "commit", to |-> r, commit |-> commit_max[Primary],
                 header |-> IF commit_max[Primary] = 0 THEN NoHeader
                            ELSE journal[Primary][commit_max[Primary]]] : r \in Backups}
          /\ UNCHANGED <<logVars, commitVars, primaryVars, panicked, lost>>

\* on_primary_abdicate_timeout
OnAbdicateTimeout ==
  /\ Live(Primary) /\ abdicate_timer
  /\ N > 1
  /\ abdicating' = TRUE
  /\ UNCHANGED <<logVars, commitVars, request_queue, acks, prepare_timer,
                 abdicate_timer, panicked, network, lost>>

-----------------------------------------------------------------------------
(* The backups *)

\* on_prepare_message drops a prepare whose body is not the one its header has.
BodyValid(m) == m.body \/ m.header.request \in Bodyless \cup {Pulse}

\* commit_journal, at the end of a handler.
CommitJournal(r, slots, head, cmax) ==
  committing' = [committing EXCEPT ![r] =
                   @ \/ JournalReady(slots, head, commit_min[r], cmax)]

OnPrepareInvalid(m) ==
  /\ m.type = "prepare" /\ Live(m.to) /\ ~BodyValid(m)
  /\ Delivered(m, {})
  /\ UNCHANGED <<logVars, commitVars, primaryVars, panicked, lost>>

\* Accepted: the prepare is the next one.
OnPrepareAccepted(m) ==
  LET r     == m.to
      slots == [journal[r] EXCEPT ![m.op] = m.header]
      cmax  == MaxOf(commit_max[r], m.header.commit)
      before == IF m.op = 1 THEN NoHeader ELSE journal[r][m.op - 1]
  IN  /\ m.type = "prepare" /\ Live(r) /\ BodyValid(m)
      /\ m.op = op[r] + 1
      /\ IF before # NoHeader /\ before.request # m.header.parent
         THEN Panic(r, "hash_chain")
         ELSE /\ op' = [op EXCEPT ![r] = m.op]
              /\ journal' = [journal EXCEPT ![r] = slots]
              /\ commit_max' = [commit_max EXCEPT ![r] = cmax]
              /\ CommitJournal(r, slots, m.op, cmax)
              /\ Delivered(m, {PrepareOk(r, m.op, m.header)})
              /\ UNCHANGED <<commit_min, primaryVars, panicked, lost>>

\* Stale, and the prepare is clean: it is acknowledged again (on_repair).
OnPrepareClean(m) ==
  /\ m.type = "prepare" /\ Live(m.to) /\ BodyValid(m)
  /\ m.op <= op[m.to]
  /\ Clean(m.to, m.op, m.header)
  /\ Delivered(m, {PrepareOk(m.to, m.op, m.header)})
  /\ UNCHANGED <<logVars, commitVars, primaryVars, panicked, lost>>

\* Stale: a slot behind the head is filled, or a dirty one written again,
\* without an acknowledgement (on_repair, repair_header).  The head itself is
\* never replaced, and nothing is filled while the head is missing.
OnPrepareStale(m) ==
  LET r     == m.to
      slots == [journal[r] EXCEPT ![m.op] = m.header]
      fills == /\ journal[r][op[r]] # NoHeader
               /\ m.op < op[r] \/ journal[r][m.op] = m.header
  IN  /\ m.type = "prepare" /\ Live(r) /\ BodyValid(m)
      /\ m.op <= op[r]
      /\ ~Clean(r, m.op, m.header)
      /\ IF fills
         THEN /\ journal' = [journal EXCEPT ![r] = slots]
              /\ CommitJournal(r, slots, op[r], commit_max[r])
         ELSE UNCHANGED <<journal, committing>>
      /\ Delivered(m, {})
      /\ UNCHANGED <<op, commit_max, commit_min, primaryVars, panicked, lost>>

\* FutureOp: the head jumps to the op before the prepare, which is not journaled.
OnPrepareFuture(m) ==
  LET r == m.to
  IN  /\ m.type = "prepare" /\ Live(r) /\ BodyValid(m)
      /\ m.op > op[r] + 1
      /\ IF journal[r][m.op - 1] # NoHeader
         THEN Panic(r, "jumped_head")
         ELSE /\ op' = [op EXCEPT ![r] = m.op - 1]
              /\ commit_max' = [commit_max EXCEPT ![r] = MaxOf(@, m.header.commit)]
              /\ Delivered(m, {})
              /\ UNCHANGED <<journal, commitVars, primaryVars, panicked, lost>>

\* valid_hash_chain_between(low, op)
ChainBetween(r, low) ==
  /\ \A o \in low .. op[r] : journal[r][o] # NoHeader
  /\ \A o \in low + 1 .. op[r] : journal[r][o].parent = journal[r][o - 1].request

\* on_commit, with the heartbeat and the check of the committed header.
OnCommit(m) ==
  LET r     == m.to
      cmax  == MaxOf(commit_max[r], m.commit)
      entry == IF m.commit = 0 THEN NoHeader ELSE journal[r][m.commit]
  IN  /\ m.type = "commit" /\ Live(r)
      /\ IF entry # NoHeader /\ entry # m.header /\ ChainBetween(r, m.commit)
         THEN Panic(r, "commit_checksum")
         ELSE /\ commit_max' = [commit_max EXCEPT ![r] = cmax]
              /\ CommitJournal(r, journal[r], op[r], cmax)
              /\ Delivered(m, {})
              /\ UNCHANGED <<op, journal, commit_min, primaryVars, panicked, lost>>

\* commit_execute on a backup, and the next turn of the loop.
CommitExecuteBackup(r) ==
  LET this == commit_min[r] + 1
      cmax == MaxOf(commit_max[r], this)
  IN  /\ r # Primary /\ Live(r) /\ committing[r]
      /\ commit_min' = [commit_min EXCEPT ![r] = this]
      /\ commit_max' = [commit_max EXCEPT ![r] = cmax]
      /\ committing' = [committing EXCEPT ![r] = JournalReady(journal[r], op[r], this, cmax)]
      /\ UNCHANGED <<op, journal, primaryVars, panicked, network, lost>>

-----------------------------------------------------------------------------
(* The system *)

\* The network loses a message.
Lose(m) == /\ lost < MaxLost
           /\ lost' = lost + 1
           /\ network' = network \ {m}
           /\ UNCHANGED <<logVars, commitVars, primaryVars, panicked>>

Init ==
  /\ op         = [r \in Replicas |-> 0]
  /\ journal    = [r \in Replicas |-> [o \in Ops |-> NoHeader]]
  /\ commit_min = [r \in Replicas |-> 0]
  /\ commit_max = [r \in Replicas |-> 0]
  /\ committing = [r \in Replicas |-> FALSE]
  /\ request_queue = <<>>
  /\ acks = [o \in Ops |-> {}]
  /\ prepare_timer = FALSE /\ abdicate_timer = FALSE /\ abdicating = FALSE
  /\ panicked = [r \in Replicas |-> NoPanic]
  /\ network = {}
  /\ lost = 0

PrimaryNext ==
  \/ \E v \in Requests : OnRequest(v) \/ OnRequestQueued(v)
  \/ \E m \in network : OnPrepareOk(m) \/ OnPrepareOkIgnored(m)
  \/ \E wantsPulse \in BOOLEAN : CommitExecutePrimary(wantsPulse)
  \/ OnPrepareTimeout \/ SendCommit \/ OnAbdicateTimeout

BackupNext ==
  \/ \E m \in network : \/ OnPrepareInvalid(m) \/ OnPrepareAccepted(m)
                        \/ OnPrepareClean(m) \/ OnPrepareStale(m)
                        \/ OnPrepareFuture(m) \/ OnCommit(m)
  \/ \E r \in Backups : CommitExecuteBackup(r)

Next == PrimaryNext \/ BackupNext \/ \E m \in network : Lose(m)

Spec == Init /\ [][Next]_vars

\* What the owner's loop guarantees: a parked commit is resumed, by the stall
\* timeout or by the reply that is written, the primary's fault detector sends
\* a heartbeat at the latest after a second, and what arrives is handled.
Heartbeat(r) == \E m \in network : m.type = "commit" /\ m.to = r /\ OnCommit(m)

CommitFairness ==
  /\ WF_vars(\E wantsPulse \in BOOLEAN : CommitExecutePrimary(wantsPulse))
  /\ WF_vars(SendCommit)
  /\ \A r \in Backups : WF_vars(CommitExecuteBackup(r)) /\ WF_vars(Heartbeat(r))

CommitSpec == Spec /\ CommitFairness

-----------------------------------------------------------------------------
(* Properties *)

TypeOK ==
  /\ op         \in [Replicas -> 0 .. MaxOp]
  /\ journal    \in [Replicas -> [Ops -> Header \cup {NoHeader}]]
  /\ commit_min \in [Replicas -> 0 .. MaxOp]
  /\ commit_max \in [Replicas -> 0 .. MaxOp]
  /\ committing \in [Replicas -> BOOLEAN]
  /\ request_queue \in Seq(Requests)
  /\ acks \in [Ops -> SUBSET Replicas]
  /\ prepare_timer \in BOOLEAN /\ abdicate_timer \in BOOLEAN /\ abdicating \in BOOLEAN
  /\ panicked \in [Replicas -> PanicKind]
  /\ network \subseteq Message
  /\ lost \in 0 .. MaxLost

\* Two replicas have executed the same prepares, each of them a prefix of the
\* longer one without a gap, whatever was lost, repeated, reordered or skipped.
Agreement ==
  \A r, s \in Replicas : \A o \in Ops :
    o <= commit_min[r] /\ o <= commit_min[s]
      => journal[r][o] # NoHeader /\ journal[r][o] = journal[s][o]

\* What any replica has executed is in the journals of a replication quorum,
\* so that it outlives the primary.
ExecutedIsReplicated ==
  \A r \in Replicas : \A o \in Ops : o <= commit_min[r] =>
    \E Q \in SUBSET Replicas :
      /\ Cardinality(Q) >= Quorum
      /\ \A s \in Q : journal[s][o] = journal[r][o] /\ journal[s][o] # NoHeader

\* No replica believes in a commit that the primary has not executed.
CommitFollowsPrimary ==
  \A r \in Replicas : commit_min[r] <= commit_max[r] /\ commit_max[r] <= commit_min[Primary]

\* op_repair_max asserts that no head is more than a pipeline ahead of the
\* commits its replica knows of; the queue and the pulses make that delicate.
HeadWithinPipeline == \A r \in Replicas : op[r] <= commit_max[r] + PipelineMax

\* The assertions on the hash chain, on the committed checksum and on the head
\* that jumped never fail: only the primary can stop.
BackupsNeverPanic == \A r \in Backups : Live(r)

\* No step takes back an executed op or changes its header.
ExecutedIsStable ==
  [][\A r \in Replicas :
       /\ commit_min'[r] >= commit_min[r]
       /\ \A o \in Ops : o <= commit_min[r] => journal'[r][o] = journal[r][o]]_vars

\* The cluster implements one log of requests: the primary decides each entry
\* by executing it, and the backups follow.
executed_log == [o \in 1 .. commit_min[Primary] |-> journal[Primary][o].request]

Committed == INSTANCE CommittedLog
               WITH Requests <- Entries, log <- executed_log, applied <- commit_min

ImplementsCommittedLog == Committed!Spec

\* An op is executed by the primary once it and all before it have their
\* quorums, in whatever order these came and wherever the pipeline was parked.
QuorumLeadsToExecution ==
  \A o \in Ops :
    o <= op[Primary] /\ (\A p \in 1 .. o : OkQuorum(acks[p]))
      ~> commit_min[Primary] >= o \/ ~Live(Primary)

\* A backup that has the whole log up to its head executes what the primary
\* has executed, as long as the heartbeats come and its head stays journaled.
Complete(r, o) == o <= op[r] /\ \A p \in 1 .. op[r] : journal[r][p] # NoHeader

HeadMissing(r) == op[r] > 0 /\ journal[r][op[r]] = NoHeader

BackupCatchesUp ==
  \A r \in Backups : \A o \in Ops :
    o <= commit_min[Primary] /\ Complete(r, o)
      ~> \/ commit_min[r] >= o
         \/ ~Live(Primary) \/ abdicating \/ HeadMissing(r)

-----------------------------------------------------------------------------
(* The inductive invariant *)

\* The primary's log has no hole, its headers are chained, and each was
\* prepared at most a pipeline ahead of the commit it carries.
PrimaryLog ==
  \A o \in Ops : o <= op[Primary] =>
    /\ journal[Primary][o] # NoHeader
    /\ journal[Primary][o].commit <= commit_min[Primary]
    /\ o <= journal[Primary][o].commit + PipelineMax
    /\ o > 1 => journal[Primary][o].parent = journal[Primary][o - 1].request

\* The other journals hold a part of the primary's log.
BackupLogs ==
  \A r \in Replicas :
    /\ op[r] <= op[Primary]
    /\ \A o \in Ops : journal[r][o] # NoHeader =>
         o <= op[r] /\ journal[r][o] = journal[Primary][o]

\* What is in flight was true of its sender, and still is.
Messages ==
  \A m \in network :
    /\ m.type = "prepare" => m.op <= op[Primary] /\ m.header = journal[Primary][m.op]
    /\ m.type = "prepare_ok" => journal[m.from][m.op] # NoHeader
    /\ m.type = "commit" =>
         /\ m.commit <= commit_min[Primary]
         /\ m.commit > 0 => m.header = journal[Primary][m.commit]

\* A replica is counted for the ops in its journal only, the primary for all.
AcksAreJournaled ==
  \A o \in Ops : /\ \A r \in acks[o] : journal[r][o] # NoHeader
                 /\ o <= op[Primary] => Primary \in acks[o]

\* The executed ops are journaled and acknowledged by a quorum.
Commits ==
  /\ commit_min[Primary] = commit_max[Primary]
  /\ \A r \in Replicas :
       /\ commit_min[r] <= op[r]
       /\ \A o \in Ops : o <= commit_min[r] => journal[r][o] # NoHeader
  /\ \A o \in Ops : o <= commit_min[Primary] => QuorumCounted(acks[o])

\* ... and so is the op in the commit pipeline.
Committing ==
  /\ \A r \in Replicas : committing[r] =>
       /\ commit_min[r] < op[r]
       /\ journal[r][commit_min[r] + 1] # NoHeader
       /\ r # Primary => commit_min[r] < commit_max[r]
  /\ committing[Primary] => QuorumCounted(acks[commit_min[Primary] + 1])

Inductive ==
  /\ TypeOK
  /\ PrimaryLog /\ BackupLogs /\ Messages /\ AcksAreJournaled
  /\ Commits /\ Committing
  /\ CommitFollowsPrimary /\ HeadWithinPipeline /\ BackupsNeverPanic

=============================================================================
