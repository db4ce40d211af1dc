--------------------------- MODULE ClientReplies ----------------------------
(***************************************************************************)
(* The replies to clients on disk (client_replies.rs), with the session    *)
(* table whose entries they belong to and the commit pipeline that waits   *)
(* for room to write them (commit_reply_setup, client_table_entry_create,  *)
(* client_table_entry_update, on_request_repeat_reply, on_get_reply,       *)
(* on_reply and poll_client_replies of replica.rs).                        *)
(*                                                                         *)
(* A slot has at most one write in the storage; the next one for it waits  *)
(* in a queue, where a newer reply takes its place.  The storage performs  *)
(* an I/O when it is asked to, and reports the completions later, in that  *)
(* order, as many of them to a poll as there are.  A reply is named by the *)
(* op it answers; one without a body is kept in the session table alone.   *)
(***************************************************************************)
EXTENDS Integers, SequencesExt

CONSTANTS Clients,               \* ids; a client registers once
          ClientsMax,            \* CLIENTS_MAX, entries of the table and slots on disk
          ReadsMax, WritesMax,   \* CLIENT_REPLIES_IOPS_READ_MAX and _WRITE_MAX
          CheckpointOps,         \* ops between two checkpoints
          None,                  \* no entry, no operation, nothing on disk
          Corrupt,               \* a reply on disk that fails its checksum
          MaxOp, MaxFaults       \* bounds

ASSUME RepliesAssumption ==
  /\ ClientsMax \in Nat \ {0} /\ CheckpointOps \in Nat \ {0}
  /\ ReadsMax \in Nat \ {0} /\ WritesMax \in 1 .. ClientsMax
  /\ MaxOp \in Nat /\ MaxFaults \in Nat

Slots == 0 .. ClientsMax - 1

Replies == [client : Clients, op : Nat, body : BOOLEAN]

\* The operations of the two pools: a Read, which is not answered when nobody
\* wants it any more, and a Write.
Reads == [slot : Slots, reply : Replies, wanted : BOOLEAN]

Writes == [slot : Slots, reply : Replies, trigger : {"commit", "repair"}]

ASSUME NoneAssumption ==
  None \notin Replies \cup Reads \cup Writes \cup {"commit", "checkpoint"}

VARIABLES sessions,    \* the latest reply of the client in each slot
          registered,  \* the clients that have had a session
          op,          \* commit_min
          commit,      \* what the commit pipeline is parked with: see Idle
          replies,     \* the ClientReplies in memory
          disk,        \* the replies on disk
          io,          \* the completions the storage has still to report
          faults

vars == <<sessions, registered, op, commit, replies, disk, io, faults>>

Idle       == [stage |-> "idle"]
Setup(r)   == [stage |-> "reply_setup", reply |-> r]
Superblock == [stage |-> "superblock"]

NewReplies ==
  [reads |-> [i \in 1 .. ReadsMax |-> None], reads_in_flight |-> <<>>,
   writes |-> [i \in 1 .. WritesMax |-> None], writes_in_flight |-> <<>>,
   write_queue |-> <<>>, writing |-> {}, faulty |-> {},
   ready_waiting |-> FALSE, checkpoint_waiting |-> FALSE, panic |-> None]

Init ==
  /\ sessions = [s \in Slots |-> None] /\ registered = {}
  /\ op = 0 /\ commit = Idle /\ replies = NewReplies
  /\ disk = [s \in Slots |-> None] /\ io = <<>> /\ faults = 0

-----------------------------------------------------------------------------
(* A state of the component and its storage, [m, disk, io]                  *)

State == [m |-> replies, disk |-> disk, io |-> io]

Become(x) == replies' = x.m /\ disk' = x.disk /\ io' = x.io

\* The first assertion that fails stops the process.
Panic(x) ==
  /\ replies' = [replies EXCEPT !.panic = x.m.panic]
  /\ UNCHANGED <<sessions, registered, op, commit, disk, io>>

Check(x, name, holds) ==
  IF holds \/ x.m.panic # None THEN x ELSE [x EXCEPT !.m.panic = name]

ReadySync(m) == Len(m.writes_in_flight) < WritesMax

Free(ops) == Min({i \in DOMAIN ops : ops[i] = None})

ReplyDurable(m, s) == s \notin m.faulty \cup m.writing

\* write_in_flight_latest: of the writes of a client the newest one.
InFlight(m, c) ==
  {m.writes[i] : i \in {j \in Range(m.writes_in_flight) :
                          m.writes[j] # None /\ m.writes[j].reply.client = c}}

Latest(m, r) == {w \in InFlight(m, r.client) : \A v \in InFlight(m, r.client) :
                                                  v.reply.op <= w.reply.op}

\* (a mutation: the slots are not looked at)
StartsAll(m) == Len(m.write_queue)

\* How many of the queue may start: those before the first whose slot is being
\* written.  No two in the queue are for one slot.
Startable(m) ==
  Max({n \in 0 .. Len(m.write_queue) :
         \A k \in 1 .. n : m.writes[m.write_queue[k]].slot \notin m.writing})

\* write_reply_next
WriteReplyNext(x) ==
  LET n     == Startable(x.m)
      first == {x.m.writes[x.m.write_queue[k]] : k \in 1 .. n}
      done  == {w.slot : w \in first}
  IN [m    |-> [x.m EXCEPT !.write_queue = SubSeq(@, n + 1, Len(@)), !.writing = @ \cup done],
      disk |-> [s \in Slots |-> IF s \in done THEN (CHOOSE w \in first : w.slot = s).reply
                                ELSE x.disk[s]],
      io   |-> x.io \o [k \in 1 .. n |-> [type |-> "write"]]]

\* Reads that wait for the reply that is written are answered with it.
ResolveReads(m, r) ==
  [m EXCEPT !.reads = [i \in DOMAIN @ |->
     IF @[i] # None /\ @[i].reply = r THEN [@[i] EXCEPT !.wanted = FALSE] ELSE @[i]]]

Put(seq, old, new) == [k \in DOMAIN seq |-> IF seq[k] = old THEN new ELSE seq[k]]

\* The write i is queued, in the place of the one that waits for the same slot:
\* the new write is already in writes_in_flight when it takes the place there.
Enqueue(m, i, w) ==
  LET queued == {j \in Range(m.write_queue) : m.writes[j].slot = w.slot}
      n      == [m EXCEPT !.writes[i] = w, !.writes_in_flight = Append(@, i)]
  IN IF queued = {} THEN [n EXCEPT !.write_queue = Append(@, i)]
     ELSE LET old == CHOOSE j \in queued : TRUE
          IN [n EXCEPT !.writes[old] = None, !.write_queue = Put(@, old, i),
                       !.writes_in_flight = Put(@, old, i)]

WriteReply(x, s, r, trigger) ==
  LET fits == IF trigger = "commit" THEN ~x.m.checkpoint_waiting ELSE s \in x.m.faulty
      y    == Check(Check(x, "no write is free", ReadySync(x.m)), trigger, fits)
      m    == [ResolveReads(y.m, r) EXCEPT !.faulty = @ \ {s}]
  IN IF y.m.panic # None THEN y
     ELSE WriteReplyNext([y EXCEPT !.m = Enqueue(m, Free(m.writes),
                                   [slot |-> s, reply |-> r, trigger |-> trigger])])

-----------------------------------------------------------------------------
(* The commit pipeline                                                      *)

Occupied == {s \in Slots : sessions[s] # None}

SlotOf(c) == {s \in Occupied : sessions[s].client = c}

\* client_table_entry_create puts a client in the first free slot, or in that
\* of the one with the oldest reply.
NewSlot == IF Occupied # Slots THEN Min(Slots \ Occupied)
           ELSE CHOOSE s \in Slots : \A e \in Slots : sessions[s].op <= sessions[e].op

\* The entry of a reply: none when its session was evicted.
EntryOf(r) == IF r.client \notin registered THEN {NewSlot} ELSE SlotOf(r.client)

\* What op + 1 may be: a register, or a request of a client that has, or had, a
\* session.
NextReplies ==
  [client : Clients \ registered, op : {op + 1}, body : {TRUE}]
  \cup [client : registered, op : {op + 1}, body : BOOLEAN]

\* client_table_entry_update and the end of client_table_entry_create
Recorded(x, s, r) == IF r.body THEN WriteReply(x, s, r, "commit")
                     ELSE [x EXCEPT !.m.faulty = @ \ {s}]

AtCheckpoint == (op + 1) % CheckpointOps = 0

\* commit_checkpoint_data
Checkpointed(x) ==
  IF AtCheckpoint
  THEN [Check(x, "checkpoint", ~x.m.checkpoint_waiting) EXCEPT !.m.checkpoint_waiting = TRUE]
  ELSE x

\* commit_execute on x, and the stages up to the next op; at a checkpoint the
\* pipeline parks again until the superblock is written.
Execute(x, r) ==
  LET entry == EntryOf(r)
      y == IF entry = {} THEN x ELSE Recorded(x, CHOOSE s \in entry : TRUE, r)
  IN \E z \in {Checkpointed(y)} :
       IF z.m.panic # None THEN Panic(z)
       ELSE /\ op' = op + 1
            /\ registered' = registered \cup {r.client}
            /\ sessions' = [s \in Slots |-> IF s \in entry THEN r ELSE sessions[s]]
            /\ commit' = IF AtCheckpoint THEN Superblock ELSE Idle
            /\ Become(z)

Running == replies.panic = None

\* (a mutation: a commit that waits does not ask to be woken)
ParksSilently(r) ==
  /\ ~ReadySync(replies)
  /\ commit' = Setup(r)
  /\ UNCHANGED <<sessions, registered, op, replies, disk, io>>

\* commit_reply_setup when there is no room
Parks(r) ==
  /\ ~ReadySync(replies)
  /\ commit' = Setup(r) /\ replies' = [replies EXCEPT !.ready_waiting = TRUE]
  /\ UNCHANGED <<sessions, registered, op, disk, io>>

Commit ==
  /\ Running /\ commit = Idle /\ op < MaxOp
  /\ \E r \in NextReplies : Parks(r) \/ (ReadySync(replies) /\ Execute(State, r))
  /\ UNCHANGED faults

SuperblockDone ==
  /\ Running /\ commit = Superblock
  /\ commit' = Idle
  /\ UNCHANGED <<sessions, registered, op, replies, disk, io, faults>>

-----------------------------------------------------------------------------
(* Reads and repairs                                                        *)

\* on_request_repeat_reply and on_get_reply, when the reply is not one that is
\* answered from the table or from a write in flight.
ReadReply(s) ==
  LET r     == sessions[s]
      found == IF s \in replies.writing THEN Latest(replies, r) ELSE {}
      x     == Check(State, "another write in flight",
                      (\A w \in found : w.reply = r) \/ s \in replies.faulty)
  IN /\ Running /\ s \in Occupied /\ r.body
     /\ \A w \in found : w.reply # r
     /\ IF x.m.panic # None THEN Become(x)
        ELSE /\ None \in Range(replies.reads)
             /\ LET i == Free(replies.reads)
                    m == [x.m EXCEPT !.reads[i] = [slot |-> s, reply |-> r, wanted |-> TRUE],
                                     !.reads_in_flight = Append(@, i)]
                IN Become([x EXCEPT !.m = m,
                                    !.io = Append(@, [type |-> "read", found |-> disk[s]])])
     /\ UNCHANGED <<sessions, registered, op, commit, faults>>

\* on_reply: another replica has sent the reply of a faulty slot.
OnReply(s) ==
  /\ Running /\ s \in Occupied /\ sessions[s].body
  /\ s \in replies.faulty /\ ReadySync(replies)
  /\ Become(WriteReply(State, s, sessions[s], "repair"))
  /\ UNCHANGED <<sessions, registered, op, commit, faults>>

-----------------------------------------------------------------------------
(* poll_client_replies: the completions there are, then the notifications   *)

ReadDone(x) ==
  LET i    == Head(x.m.reads_in_flight)
      read == x.m.reads[i]
      lost == read.wanted /\ Head(x.io).found # read.reply
      m    == [x.m EXCEPT !.reads[i] = None, !.reads_in_flight = Tail(@),
                          !.faulty = IF lost THEN @ \cup {read.slot} ELSE @]
  IN [x EXCEPT !.m = m, !.io = Tail(@)]

\* (a mutation: the queue is not looked at)
StartsNone(x) ==
  LET i == Head(x.m.writes_in_flight)
      w == x.m.writes[i]
  IN [x EXCEPT !.m.writes[i] = None, !.m.writes_in_flight = Tail(@),
               !.m.writing = @ \ {w.slot}, !.io = Tail(@)]

WriteDone(x) ==
  LET i == Head(x.m.writes_in_flight)
      w == x.m.writes[i]
      y == Check(Check(x, "in-flight write is not live", w # None),
                  "slot is not being written", w # None => w.slot \in x.m.writing)
      m == [y.m EXCEPT !.writes[i] = None, !.writes_in_flight = Tail(@),
                       !.writing = @ \ {w.slot}]
  IN IF y.m.panic # None THEN y
     ELSE WriteReplyNext([y EXCEPT !.m = m, !.io = Tail(@)])

CommitWrites(m) ==
  {i \in Range(m.writes_in_flight) : m.writes[i] # None /\ m.writes[i].trigger = "commit"}

Notified(m) == m.ready_waiting /\ ReadySync(m)

\* The next completion
Completed(x) ==
  IF x.io = <<>> \/ x.m.panic # None THEN x
  ELSE IF Head(x.io).type = "read" THEN ReadDone(x) ELSE WriteDone(x)

Drained(x, n) ==
  LET d[k \in 0 .. n] == IF k = 0 THEN x ELSE Completed(d[k - 1])
  IN d[n]

Poll ==
  /\ Running
  /\ \E n \in 0 .. Len(replies.reads_in_flight) + Len(replies.writes_in_flight) :
     \E x \in {Drained(State, n)} :
     \E y \in {[x EXCEPT !.m.ready_waiting = @ /\ ~Notified(x.m),
                         !.m.checkpoint_waiting = @ /\ CommitWrites(x.m) # {}]} :
       IF x.m.panic # None THEN Panic(x)
       ELSE IF Notified(x.m) THEN Execute(y, commit.reply)
       ELSE Become(y) /\ UNCHANGED <<sessions, registered, op, commit>>
  /\ UNCHANGED faults

\* A latent sector error
Decay(s) ==
  /\ faults < MaxFaults /\ disk[s] \notin {None, Corrupt}
  /\ disk' = [disk EXCEPT ![s] = Corrupt]
  /\ faults' = faults + 1
  /\ UNCHANGED <<sessions, registered, op, commit, replies, io>>

Next ==
  \/ Commit \/ SuperblockDone \/ Poll
  \/ \E s \in Slots : ReadReply(s) \/ OnReply(s) \/ Decay(s)

\* The storage reports every completion, and the owner polls.
Spec == Init /\ [][Next]_vars /\ WF_vars(Poll)

-----------------------------------------------------------------------------
(* Properties *)

\* DurableIsWritten: a slot for which reply_durable answers yes holds the reply
\* of its session, though writes were queued, replaced and repaired, and the
\* slot had another client before (or the sector has decayed since).
DurableIsWritten ==
  \A s \in Occupied : sessions[s].body /\ ReplyDurable(replies, s) =>
    disk[s] \in {sessions[s], Corrupt}

\* AssertionsHold: with as many write operations as the code has, no completion
\* meets an operation that is not live or a slot that is not being written, no
\* write finds none free, and no read meets the write of another reply.  What can
\* fail are the assertions that a checkpoint is over when the next reply comes.
AssertionsHold == replies.panic \in {None, "commit", "checkpoint"}

\* ParkedCommitResumes: a commit that waits for room to write its reply goes on,
\* whatever the repairs and the reads of others take.
ParkedCommitResumes ==
  commit.stage = "reply_setup" ~> (commit.stage # "reply_setup" \/ ~Running)
=============================================================================
