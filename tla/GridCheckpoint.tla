--------------------------- MODULE GridCheckpoint ---------------------------
(***************************************************************************)
(* The grid's free set through beats of compaction, checkpoints and        *)
(* restarts (grid.rs, forest.rs, tree.rs, manifest_log.rs and the commit   *)
(* stages of replica.rs).                                                  *)
(*                                                                         *)
(* In a beat the trees compact one after the other: each reserves blocks,  *)
(* acquires, writes and releases some, and forfeits.  The manifest log     *)
(* keeps a reservation of its own all the while and writes its blocks at   *)
(* the checkpoint.  The checkpoint then encodes the free set into blocks   *)
(* it acquires for that, and the superblock refers to them.  What was      *)
(* released before a checkpoint is freed when the checkpoint is durable on *)
(* a quorum of replicas.  A restart opens the free set of the superblock   *)
(* and repeats the beats since.                                            *)
(***************************************************************************)
EXTENDS FreeSet, Sequences, Functions

CONSTANTS TreeCount,           \* compactions of a beat
          ManifestBlocks,      \* blocks_count of the manifest log
          BeatsPerCheckpoint,
          ReplicaCommits,      \* the replica runs the commit stage that frees blocks;
                               \* if not, the forest's own checkpoint does
          MaxBeats, MaxReserve, MaxCrashes  \* bounds

ASSUME GridAssumption ==
  /\ TreeCount \in Nat \ {0} /\ BeatsPerCheckpoint \in Nat \ {0} /\ ManifestBlocks \in Nat
  /\ MaxBeats \in Nat /\ MaxReserve \in Nat

\* A reservation, what a job of a beat does, and the job that runs.
Reservation == [base : Nat, end : Nat]
Plan == [reserve : Nat, acquire : Nat, release : SUBSET Addresses]
Job == [plan : Plan, from : Reservation, taken : Seq(Addresses), dropped : SUBSET Addresses]

ASSUME NoneAssumption == None \notin Job

VARIABLES beat,         \* beats completed since the data file was formatted
          stage,        \* of the commit pipeline and of the forest's checkpoint
          log,          \* what the jobs of this beat do: the plans of those that started
          job,          \* the one that runs
          manifest,     \* the reservation of the manifest log
          content,      \* the block at each address
          superblock,   \* the durable checkpoint
          previous,     \* the one before, until the checkpoint is durable on a quorum
          update,       \* the checkpoint the superblock is being updated to
          trace,        \* the beats as they were first executed
          crashes

working == <<log, job>>
durable == <<superblock, previous, update>>
vars == <<free_set, beat, stage, working, manifest, content, durable, trace, crashes>>

-----------------------------------------------------------------------------

Needs(c) == {Address(b) : b \in c.acquired \ c.released} \cup c.trailers

FreshCheckpoint ==
  [beat |-> 0, acquired |-> {}, released |-> {}, trailers |-> {}, blocks |-> <<>>]

Init ==
  /\ FreeSetInit
  /\ beat = 0 /\ stage = "open" /\ log = <<>> /\ job = None /\ manifest = None
  /\ content = [a \in Addresses |-> <<>>]
  /\ superblock = FreshCheckpoint /\ previous = FreshCheckpoint /\ update = FreshCheckpoint
  /\ trace = <<>> /\ crashes = 0

-----------------------------------------------------------------------------
(* A beat of compaction *)

\* init_blocks when the forest is open, reserve_grid_blocks after a checkpoint
ManifestReserves ==
  /\ stage \in {"open", "encoded"}
  /\ \E end \in 1 .. BlockCount :
       LET r == [base |-> reserved, end |-> end] IN
       Reserve(ManifestBlocks, r) /\ manifest' = r
  /\ stage' = IF stage = "open" THEN "durable" ELSE "superblock"
  /\ UNCHANGED <<beat, working, content, durable, trace, crashes>>

Panics == {"free panics", "verify_index panics"}

\* mark_checkpoint_durable, where free and verify_index may find an assert false.
\* From here on the checkpoint before is of no use to any replica.
BecomeDurable(next) ==
  /\ MarkCheckpointDurable
  /\ previous' = FreshCheckpoint
  /\ stage' = IF ~MayFree THEN "free panics"
              ELSE IF ~IndexIsExact' THEN "verify_index panics" ELSE next

\* commit_checkpoint_durable, at a fixed op after the checkpoint
CheckpointDurableStage ==
  /\ stage = "durable" /\ beat < MaxBeats
  /\ IF ReplicaCommits /\ ~checkpoint_durable /\ (superblock.beat = 0 \/ beat > superblock.beat)
     THEN BecomeDurable("compact")
     ELSE stage' = "compact" /\ UNCHANGED <<free_set, previous>>
  /\ UNCHANGED <<beat, working, manifest, content, superblock, update, trace, crashes>>

\* A tree, or the manifest log at the end; in a beat that is executed again it
\* does what it did.
Live == {Address(b) : b \in blocks_acquired \ (blocks_released \cup prior)}

Plans(limit) ==
  LET next == Len(log) + 1 IN
  IF beat < Len(trace) THEN {trace[beat + 1].log[next]}
  ELSE {[reserve |-> n, acquire |-> k, release |-> D] :
          n \in 1 .. limit, k \in 0 .. limit, D \in {{}} \cup {{a} : a \in Live}}

Start(plan, r) ==
  /\ log' = Append(log, plan)
  /\ job' = [plan |-> plan, from |-> r, taken |-> <<>>, dropped |-> {}]

\* reconcile_free_set_reservation, before a tree reserves
Reconcile ==
  /\ stage = "compact" /\ job = None /\ forfeiting
  /\ \E end \in 1 .. BlockCount :
       LET r == [base |-> 0, end |-> end] IN Renew(ManifestBlocks, r) /\ manifest' = r
  /\ UNCHANGED <<beat, stage, working, content, durable, trace, crashes>>

\* compact_levels of the next tree
StartTree ==
  /\ stage = "compact" /\ job = None /\ Len(log) < TreeCount
  /\ \E p \in Plans(MaxReserve), end \in 1 .. BlockCount :
       LET r == [base |-> reserved, end |-> end] IN
       p.acquire <= p.reserve /\ Reserve(p.reserve, r) /\ Start(p, r)
  /\ UNCHANGED <<beat, stage, manifest, content, durable, trace, crashes>>

AcquireBlock ==
  /\ job # None /\ Len(job.taken) < job.plan.acquire
  /\ \E b \in Blocks :
       /\ Acquire(job.from, b)
       /\ job' = [job EXCEPT !.taken = Append(@, Address(b))]
       /\ content' = [content EXCEPT ![Address(b)] = <<beat, Len(log), Len(job.taken)>>]
  /\ UNCHANGED <<beat, stage, log, manifest, durable, trace, crashes>>

ReleaseBlock ==
  /\ job # None
  /\ \E a \in job.plan.release \ job.dropped :
       Release(a) /\ job' = [job EXCEPT !.dropped = @ \cup {a}]
  /\ UNCHANGED <<beat, stage, log, manifest, content, durable, trace, crashes>>

IsDone == Len(job.taken) = job.plan.acquire /\ job.dropped = job.plan.release

FinishTree ==
  /\ stage = "compact" /\ job # None /\ IsDone
  /\ Forfeit
  /\ job' = None
  /\ UNCHANGED <<beat, stage, log, manifest, content, durable, trace, crashes>>

After == <<blocks_acquired, blocks_released, prior>>

\* The end of Forest::compact.
CompleteBeat ==
  /\ stage = "compact" /\ job = None /\ Len(log) = TreeCount
  /\ \E end \in 1 .. BlockCount :
       LET r == [base |-> 0, end |-> end] IN Renew(ManifestBlocks, r) /\ manifest' = r
  /\ beat' = beat + 1 /\ log' = <<>>
  /\ trace' = IF beat < Len(trace) THEN trace
              ELSE Append(trace, [log |-> log, after |-> After])
  /\ stage' = IF beat' % BeatsPerCheckpoint = 0 THEN "checkpoint" ELSE "durable"
  /\ UNCHANGED <<job, content, durable, crashes>>

-----------------------------------------------------------------------------
(* The checkpoint *)

\* flush_pending_appends: the manifest log writes as many blocks as it wants.
ManifestAppends ==
  /\ stage = "checkpoint" /\ job = None /\ log = <<>>
  /\ \E k \in 0 .. ManifestBlocks :
       Start([reserve |-> ManifestBlocks, acquire |-> k, release |-> {}], manifest)
  /\ UNCHANGED <<free_set, beat, stage, manifest, content, durable, trace, crashes>>

\* Forest::poll: the reservation is forfeited ...
FlushDone ==
  /\ stage = "checkpoint" /\ job # None /\ IsDone
  /\ Forfeit
  /\ manifest' = None /\ stage' = "free"
  /\ log' = <<>> /\ job' = None
  /\ UNCHANGED <<beat, content, durable, trace, crashes>>

\* ... the free set is marked durable, unless the replica did that ...
ForestDurable ==
  /\ stage = "free"
  /\ IF checkpoint_durable
     THEN stage' = "encode" /\ UNCHANGED <<free_set, previous>>
     ELSE BecomeDurable("encode")
  /\ UNCHANGED <<beat, working, manifest, content, superblock, update, trace, crashes>>

FirstFree(acquired) == IF acquired = {} THEN {} ELSE {FindUnset(acquired, 0, BlockLimit)}

\* ... and Grid::checkpoint encodes it.  The blocks that hold the acquired and
\* the released bit sets are not part of what they encode; an empty set needs none.
Encode ==
  /\ stage = "encode"
  /\ LET first  == FirstFree(blocks_acquired)
         second == IF blocks_released = {} THEN {} ELSE FirstFree(blocks_acquired \cup first)
         T      == first \cup second
         c      == [beat |-> beat, acquired |-> blocks_acquired, released |-> blocks_released,
                    trailers |-> {Address(b) : b \in T}, blocks |-> <<>>]
     IN /\ None \notin T
        /\ blocks_acquired' = blocks_acquired \cup T
        /\ index' = index \cup {s \in {ShardOf(b) : b \in T} : Full(blocks_acquired', s)}
        /\ content' = [a \in Addresses |->
                         IF Block(a) \in first THEN <<beat, 0, 1>>
                         ELSE IF Block(a) \in second THEN <<beat, 0, 2>> ELSE content[a]]
        /\ update' = [c EXCEPT !.blocks = [a \in Needs(c) |-> content'[a]]]
  /\ stage' = "encoded"
  /\ UNCHANGED <<checkpoint_durable, blocks_released, prior, reserving, beat, working, manifest,
                 superblock, previous, trace, crashes>>

\* drive_superblock, when the superblock is written
CheckpointDone ==
  /\ stage = "superblock"
  /\ superblock' = update /\ previous' = superblock
  /\ MarkCheckpointNotDurable(update.trailers)
  /\ stage' = "durable"
  /\ UNCHANGED <<beat, working, manifest, content, update, trace, crashes>>

\* A crash, and Grid::open: an update of the superblock took place or did not.
Restart ==
  /\ crashes < MaxCrashes /\ stage \notin Panics
  /\ \/ UNCHANGED <<superblock, previous>>
     \/ stage = "superblock" /\ superblock' = update /\ previous' = superblock
  /\ OpenFreeSet(superblock'.acquired, superblock'.released, superblock'.trailers)
  /\ beat' = superblock'.beat /\ stage' = "open"
  /\ log' = <<>> /\ job' = None /\ manifest' = None
  /\ crashes' = crashes + 1
  /\ UNCHANGED <<content, update, trace>>

Next ==
  \/ ManifestReserves \/ CheckpointDurableStage \/ Reconcile \/ StartTree \/ AcquireBlock
  \/ ReleaseBlock \/ FinishTree \/ CompleteBeat \/ ManifestAppends \/ FlushDone
  \/ ForestDurable \/ Encode \/ CheckpointDone \/ Restart

Spec == Init /\ [][Next]_vars

-----------------------------------------------------------------------------
(* Properties *)

\* TypeOK: the type invariant of the free set, the jobs and the checkpoints.
TypeOK ==
  /\ FreeSetTypeOK
  /\ beat \in 0 .. MaxBeats /\ superblock.beat <= beat
  /\ stage \in {"open", "durable", "compact", "checkpoint", "free", "encode", "encoded",
                "superblock"} \cup Panics
  /\ stage \in {"encode", "encoded", "superblock"} => checkpoint_durable /\ prior = {}
  /\ Len(log) <= TreeCount

Intact(c) == \A a \in Needs(c) : content[a] = c.blocks[a]

\* CheckpointIsIntact: no block that the durable checkpoint refers to is
\* overwritten: a restart finds them all.
CheckpointIsIntact == Intact(superblock)

\* PreviousIsIntact: until the checkpoint is durable on a quorum, the blocks of
\* the one before stay too, for the replicas that still have to get there.
PreviousIsIntact == Intact(previous)

\* FirstOfItsReservation: the manifest log and the tree that runs never share a
\* block, and each finds as many free blocks as it reserved, the first one first.
FirstOfItsReservation ==
  job # None =>
    LET r    == job.from
        own  == BlocksOf(Range(job.taken))
        free == (r.base .. r.end - 1) \ (blocks_acquired \ own)
    IN /\ Cardinality(free) = job.plan.reserve
       /\ \A b \in own : b \in free /\ \A c \in free \ own : b < c

\* StorageIsDeterministic: a replica that restarts from its checkpoint and
\* executes the beats again ends each with the free set of one that did not.
StorageIsDeterministic ==
  stage = "compact" /\ job = None /\ Len(log) = TreeCount /\ beat < Len(trace) =>
    After = trace[beat + 1].after

\* FreesUnreserved: no block is freed, and the free set not encoded, while blocks
\* are reserved, as free and encode_chunks assert.
FreesUnreserved ==
  /\ stage # "free panics"
  /\ stage = "encode" => reservations = 0 /\ reserved = 0
=============================================================================
