------------------------ MODULE GridCheckpointProofs ------------------------
(***************************************************************************)
(* Proofs about the grid, for every number of blocks, shards, trees and    *)
(* beats: no block of the durable checkpoint is ever overwritten, nor one  *)
(* of the checkpoint before until the new one is durable on a quorum; and  *)
(* a replica that executes beats again ends each with the free set that it *)
(* ended with at first.                                                    *)
(*                                                                         *)
(* The first inductive invariant, IndInv, says where the blocks of the two *)
(* checkpoints are: acquired all the while, and not among those the next   *)
(* mark_checkpoint_durable frees.  A block is only written when it is      *)
(* acquired, and acquire returns a block that was not.                     *)
(*                                                                         *)
(* The second, Replay, says how the blocks came about.  A job takes the    *)
(* first free blocks of a reservation that ends with the n-th free block,  *)
(* so it makes one free set of another (Done is functional, DoneOnce).     *)
(* The free set in a beat is what the jobs of the beat's log make of the   *)
(* one before it (Run), and so is each that the trace has since the        *)
(* checkpoint; two runs of the same log end alike, by induction on the     *)
(* first job after which they differ (RunOnce).  What the index skips must *)
(* not matter: it may lack full shards, as after a restart, but has no     *)
(* shard with a free block (IndexSound).                                   *)
(***************************************************************************)
EXTENDS GridCheckpoint, Extremes, FiniteSetTheorems, TLAPS

-----------------------------------------------------------------------------
(* The inductive invariant *)

BeatTrace == [log : Seq(Plan), after : (SUBSET Blocks) \X (SUBSET Blocks) \X (SUBSET Blocks)]

\* The blocks a checkpoint refers to.
NeededBlocks(c) == (c.acquired \ c.released) \cup BlocksOf(c.trailers)

WellFormed(c) ==
  /\ c.beat \in Nat
  /\ c.acquired \subseteq Blocks
  /\ c.released \subseteq c.acquired
  /\ c.trailers \subseteq Addresses
  /\ BlocksOf(c.trailers) \cap c.acquired = {}

Shapes ==
  /\ content = [a \in Addresses |-> content[a]]
  /\ log \in Seq(Plan)
  /\ trace \in Seq(BeatTrace)
  /\ \A k \in 1 .. Len(trace) : Len(trace[k].log) = TreeCount
  /\ job # None => job \in Job /\ stage \in {"compact", "checkpoint"}
  /\ WellFormed(superblock) /\ WellFormed(previous) /\ WellFormed(update)

Stages ==
  /\ stage = "compact" => beat < MaxBeats
  /\ stage = "checkpoint" => reservations = 1 /\ manifest \in Reservation
  /\ stage \in {"free", "encode", "encoded"} => reservations = 0 /\ reserved = 0
  /\ checkpoint_durable => prior = {} /\ previous = FreshCheckpoint

\* Between encoding and the next durable superblock nothing is acquired or released.
Encoded ==
  stage \in {"encoded", "superblock"} =>
    /\ blocks_acquired = update.acquired \cup BlocksOf(update.trailers)
    /\ blocks_released = update.released
    /\ update.beat = beat
    /\ Intact(update)

Kept ==
  /\ NeededBlocks(superblock) \subseteq blocks_acquired
  /\ NeededBlocks(previous) \subseteq superblock.acquired \cup BlocksOf(superblock.trailers)
  /\ ~checkpoint_durable =>
       /\ NeededBlocks(superblock) \cap blocks_released = {}
       /\ NeededBlocks(previous) \subseteq blocks_acquired

IndInv ==
  /\ TypeOK /\ Shapes /\ Stages /\ Encoded /\ Kept
  /\ CheckpointIsIntact /\ PreviousIsIntact

-----------------------------------------------------------------------------
(* The operators of the free set *)

\* find_bit returns an unset bit of the range it was asked for.
LEMMA FindUnsetIsUnset ==
  ASSUME NEW set, NEW lo \in Nat, NEW hi \in Int, FindUnset(set, lo, hi) # None
  PROVE  FindUnset(set, lo, hi) \in (lo .. hi - 1) \ set
<1> DEFINE unset == (lo .. hi - 1) \ set
<1>1. unset # {} /\ unset \subseteq Nat
  BY DEF FindUnset
<1>2. \E b \in unset : \A c \in unset : b <= c
  BY <1>1, LeastElement
<1>3. FindUnset(set, lo, hi) = CHOOSE b \in unset : \A c \in unset : b <= c
  BY <1>1 DEF FindUnset
<1> QED BY <1>2, <1>3

\* Each block is in a shard of the index.
LEMMA ShardIsInIndex ==
  ASSUME NEW b \in Blocks
  PROVE  ShardOf(b) \in Shards
<1> DEFINE q == b \div ShardBits
           n == BlockCount \div ShardBits
<1>1. /\ ShardBits \in Nat \ {0} /\ BlockCount \in Nat
      /\ BlockCount % ShardBits = 0 /\ b \in 0 .. BlockCount - 1
  BY FreeSetAssumption DEF Blocks
<1>2. /\ q \in Int /\ n \in Int /\ b = ShardBits * q + (b % ShardBits)
      /\ BlockCount = ShardBits * n /\ b % ShardBits \in 0 .. ShardBits - 1
  BY <1>1
<1>3. ShardBits * q < ShardBits * n
  BY <1>1, <1>2
<1>4. q >= 0
  BY <1>1, <1>2
<1>5. q < n
  BY <1>1, <1>2, <1>3
<1> QED BY <1>2, <1>4, <1>5 DEF Shards, ShardOf

\* acquire returns a block that was free.
LEMMA AcquiredWasFree ==
  ASSUME NEW r \in Reservation, NEW b \in Blocks, b = NextBlock(r), b # None
  PROVE  b \notin blocks_acquired
<1> DEFINE shard == FindUnset(index, ShardOf(r.base), ShardOf(r.end - 1) + 1)
           start == IF shard * ShardBits > r.base THEN shard * ShardBits ELSE r.base
<1>1. r.base \in Nat /\ r.end \in Nat /\ ShardBits \in Nat \ {0}
  BY FreeSetAssumption DEF Reservation
<1>2. b = FindUnset(blocks_acquired, start, r.end) /\ shard # None
  BY DEF NextBlock
<1>3. ShardOf(r.base) \in Nat /\ ShardOf(r.end - 1) + 1 \in Int
  BY <1>1 DEF ShardOf
<1>4. shard \in Nat
  BY <1>2, <1>3, FindUnsetIsUnset
<1>5. start \in Nat
  BY <1>1, <1>4
<1> HIDE DEF start
<1> QED BY <1>1, <1>2, <1>5, FindUnsetIsUnset

\* An address and its block stand for each other.
LEMMA BlocksOfAddresses ==
  ASSUME NEW A, A \subseteq Addresses
  PROVE  /\ BlocksOf(A) \subseteq Blocks
         /\ \A a \in Addresses : a \in A <=> Block(a) \in BlocksOf(A)
BY FreeSetAssumption DEF BlocksOf, Block, Blocks, Addresses

\* Nor is anything lost the other way round.
LEMMA AddressesOfBlocks ==
  ASSUME NEW B, B \subseteq Blocks
  PROVE  /\ {Address(b) : b \in B} \subseteq Addresses
         /\ BlocksOf({Address(b) : b \in B}) = B
<1>1. \A b \in B : Address(b) \in Addresses /\ Block(Address(b)) = b
  BY FreeSetAssumption DEF Block, Address, Blocks, Addresses
<1> QED BY <1>1 DEF BlocksOf

\* What a checkpoint needs is at the addresses of its blocks.
LEMMA NeedsAreBlocks ==
  ASSUME NEW c, WellFormed(c)
  PROVE  Needs(c) \subseteq Addresses /\ \A a \in Needs(c) : Block(a) \in NeededBlocks(c)
<1>1. c.acquired \subseteq Blocks /\ c.trailers \subseteq Addresses
  BY DEF WellFormed
<1>2. ASSUME NEW a \in Needs(c)
      PROVE  a \in Addresses /\ Block(a) \in NeededBlocks(c)
  <2>1. CASE a \in c.trailers
    BY <1>1, <2>1 DEF NeededBlocks, BlocksOf
  <2>2. CASE a \in {Address(b) : b \in c.acquired \ c.released}
    BY <1>1, <2>2, FreeSetAssumption DEF NeededBlocks, Address, Block, Addresses, Blocks
  <2> QED BY <1>2, <2>1, <2>2 DEF Needs
<1> QED BY <1>2

-----------------------------------------------------------------------------
(* The parts of the invariant that a step leaves alone *)

\* A checkpoint that needs no block is well formed and intact, whatever is there.
LEMMA FreshIsIntact == WellFormed(FreshCheckpoint) /\ Needs(FreshCheckpoint) = {}
                       /\ NeededBlocks(FreshCheckpoint) = {}
BY DEF WellFormed, FreshCheckpoint, Needs, NeededBlocks, BlocksOf

\* What was not written holds what it held.
LEMMA StillIntact ==
  ASSUME IndInv, UNCHANGED <<content, superblock, previous>>
  PROVE  CheckpointIsIntact' /\ PreviousIsIntact'
BY DEF IndInv, CheckpointIsIntact, PreviousIsIntact, Intact

LEMMA StillIntactWithoutPrevious ==
  ASSUME IndInv, UNCHANGED <<content, superblock>>, previous' = FreshCheckpoint
  PROVE  CheckpointIsIntact' /\ PreviousIsIntact'
BY FreshIsIntact DEF IndInv, CheckpointIsIntact, PreviousIsIntact, Intact

\* The blocks that a checkpoint became durable without are none it needs.
LEMMA BecomeDurableKeeps ==
  ASSUME IndInv, NEW next, BecomeDurable(next), UNCHANGED <<superblock, update, beat>>
  PROVE  /\ FreeSetTypeOK' /\ Kept'
         /\ checkpoint_durable' /\ prior' = {} /\ previous' = FreshCheckpoint
         /\ UNCHANGED <<reserved, reservations, forfeiting>>
         /\ stage' \in {next} \cup Panics
<1>1. /\ checkpoint_durable' = TRUE /\ ~checkpoint_durable
      /\ blocks_acquired' = blocks_acquired \ blocks_released
      /\ index' = index \ {ShardOf(b) : b \in blocks_released}
      /\ blocks_released' = prior /\ prior' = {}
      /\ UNCHANGED <<reserved, reservations, forfeiting>>
      /\ previous' = FreshCheckpoint
  BY DEF BecomeDurable, MarkCheckpointDurable, reserving
<1>2. FreeSetTypeOK'
  BY <1>1 DEF IndInv, TypeOK, FreeSetTypeOK
<1>3. Kept'
  BY <1>1, FreshIsIntact DEF IndInv, Kept
<1>4. stage' \in {next} \cup Panics
  BY DEF BecomeDurable, Panics
<1> QED BY <1>1, <1>2, <1>3, <1>4

-----------------------------------------------------------------------------
(* One lemma per action *)

LEMMA InitEstablishes == Init => IndInv
<1> SUFFICES ASSUME Init PROVE IndInv
  OBVIOUS
<1>1. TypeOK
  <2>1. FreeSetTypeOK
    <3>1. checkpoint_durable \in BOOLEAN /\ forfeiting \in BOOLEAN
      BY DEF Init, FreeSetInit
    <3> QED BY <3>1, FreeSetAssumption DEF Init, FreeSetInit, FreeSetTypeOK
  <2>2. Len(log) <= TreeCount /\ beat \in 0 .. MaxBeats /\ superblock.beat = 0
    BY GridAssumption DEF Init, FreshCheckpoint
  <2> QED BY <2>1, <2>2 DEF Init, TypeOK, Panics
<1>2. Shapes
  BY FreshIsIntact DEF Init, Shapes
<1>3. Stages /\ Encoded /\ Kept
  BY FreshIsIntact DEF Init, FreeSetInit, Stages, Encoded, Kept
<1>4. CheckpointIsIntact /\ PreviousIsIntact
  BY FreshIsIntact DEF Init, CheckpointIsIntact, PreviousIsIntact, Intact
<1> QED BY <1>1, <1>2, <1>3, <1>4 DEF IndInv

LEMMA ManifestReservesKeeps ==
  ASSUME IndInv, ManifestReserves
  PROVE  IndInv'
<1>1. PICK end \in 1 .. BlockCount :
        LET r == [base |-> reserved, end |-> end] IN
        Reserve(ManifestBlocks, r) /\ manifest' = r
  BY DEF ManifestReserves
<1>2. /\ reserved' = end /\ reservations' = reservations + 1
      /\ UNCHANGED <<checkpoint_durable, index, blocks_acquired, blocks_released, prior, forfeiting>>
      /\ UNCHANGED <<beat, log, job, content, superblock, previous, update, trace>>
      /\ stage \in {"open", "encoded"}
      /\ stage' = IF stage = "open" THEN "durable" ELSE "superblock"
  BY <1>1 DEF ManifestReserves, Reserve, blocks, working, durable
<1>3. TypeOK'
  <2>1. FreeSetTypeOK'
    <3>1. forfeiting' \in BOOLEAN
      BY <1>2 DEF IndInv, TypeOK, FreeSetTypeOK
    <3> QED BY <1>2, <3>1, FreeSetAssumption DEF IndInv, TypeOK, FreeSetTypeOK
  <2> QED BY <1>2, <2>1 DEF IndInv, TypeOK, Panics
<1>4. Shapes'
  BY <1>2 DEF IndInv, Shapes, WellFormed
<1>5. Stages' /\ Encoded' /\ Kept'
  BY <1>2 DEF IndInv, Stages, Encoded, Kept, Intact
<1> QED BY <1>2, <1>3, <1>4, <1>5, StillIntact DEF IndInv

LEMMA CheckpointDurableStageKeeps ==
  ASSUME IndInv, CheckpointDurableStage
  PROVE  IndInv'
<1>1. /\ stage = "durable" /\ beat < MaxBeats
      /\ UNCHANGED <<beat, log, job, manifest, content, superblock, update, trace>>
  BY DEF CheckpointDurableStage, working
<1>2. CASE BecomeDurable("compact")
  <2>1. /\ FreeSetTypeOK' /\ Kept' /\ checkpoint_durable' /\ prior' = {}
        /\ previous' = FreshCheckpoint /\ stage' \in {"compact"} \cup Panics
    BY <1>1, <1>2, BecomeDurableKeeps
  <2>2. TypeOK'
    BY <1>1, <2>1 DEF IndInv, TypeOK, Panics
  <2>3. Shapes'
    BY <1>1, <2>1, FreshIsIntact DEF IndInv, Shapes, WellFormed
  <2>4. Stages' /\ Encoded'
    BY <1>1, <2>1 DEF IndInv, Stages, Encoded, Panics
  <2> QED BY <1>1, <2>1, <2>2, <2>3, <2>4, StillIntactWithoutPrevious DEF IndInv
<1>3. CASE stage' = "compact" /\ UNCHANGED <<free_set, previous>>
  <2>1. UNCHANGED <<checkpoint_durable, index, blocks_acquired, blocks_released, prior,
                    reserved, reservations, forfeiting>>
    BY <1>3 DEF free_set, blocks, reserving
  <2>2. TypeOK'
    BY <1>1, <1>3, <2>1 DEF IndInv, TypeOK, FreeSetTypeOK, Panics
  <2>3. Shapes'
    BY <1>1, <1>3 DEF IndInv, Shapes, WellFormed
  <2>4. Stages' /\ Encoded' /\ Kept'
    BY <1>1, <1>3, <2>1 DEF IndInv, Stages, Encoded, Kept, Intact
  <2> QED BY <1>1, <1>3, <2>2, <2>3, <2>4, StillIntact DEF IndInv
<1> QED BY <1>2, <1>3 DEF CheckpointDurableStage

LEMMA ReconcileKeeps ==
  ASSUME IndInv, Reconcile
  PROVE  IndInv'
<1>1. PICK end \in 1 .. BlockCount :
        LET r == [base |-> 0, end |-> end] IN Renew(ManifestBlocks, r) /\ manifest' = r
  BY DEF Reconcile
<1>2. /\ reserved' = end /\ forfeiting' = FALSE /\ stage = "compact"
      /\ UNCHANGED <<checkpoint_durable, index, blocks_acquired, blocks_released, prior, reservations>>
      /\ UNCHANGED <<beat, stage, log, job, content, superblock, previous, update, trace>>
  BY <1>1 DEF Reconcile, Renew, blocks, working, durable
<1>3. TypeOK'
  <2>1. FreeSetTypeOK'
    <3>1. forfeiting' \in BOOLEAN
      BY <1>2 DEF IndInv, TypeOK, FreeSetTypeOK
    <3> QED BY <1>2, <3>1, FreeSetAssumption DEF IndInv, TypeOK, FreeSetTypeOK
  <2> QED BY <1>2, <2>1 DEF IndInv, TypeOK, Panics
<1>4. Shapes'
  BY <1>2 DEF IndInv, Shapes, WellFormed
<1>5. Stages' /\ Encoded' /\ Kept'
  BY <1>2 DEF IndInv, Stages, Encoded, Kept, Intact
<1> QED BY <1>2, <1>3, <1>4, <1>5, StillIntact DEF IndInv

\* A plan is one of this beat's first execution, or a new one.
LEMMA PlansArePlans ==
  ASSUME IndInv, Len(log) < TreeCount, NEW p \in Plans(MaxReserve)
  PROVE  p \in Plan
<1>1. CASE beat < Len(trace)
  <2>1. p = trace[beat + 1].log[Len(log) + 1]
    BY <1>1 DEF Plans
  <2>2. beat + 1 \in 1 .. Len(trace) /\ Len(log) + 1 \in 1 .. TreeCount
    BY <1>1, GridAssumption DEF IndInv, TypeOK, Shapes
  <2>3. trace[beat + 1].log \in Seq(Plan) /\ Len(trace[beat + 1].log) = TreeCount
    <3>1. /\ trace \in Seq(BeatTrace)
          /\ \A k \in 1 .. Len(trace) : Len(trace[k].log) = TreeCount
      BY DEF IndInv, Shapes
    <3>2. trace[beat + 1] \in BeatTrace
      BY <2>2, <3>1
    <3> QED BY <2>2, <3>1, <3>2 DEF BeatTrace
  <2> QED BY <2>1, <2>2, <2>3
<1>2. CASE ~ (beat < Len(trace))
  <2>1. PICK n \in 1 .. MaxReserve, k \in 0 .. MaxReserve, D \in {{}} \cup {{a} : a \in Live} :
          p = [reserve |-> n, acquire |-> k, release |-> D]
    BY <1>2 DEF Plans
  <2>2. Live \subseteq Addresses
    BY AddressesOfBlocks DEF Live, IndInv, TypeOK, FreeSetTypeOK
  <2> QED BY <2>1, <2>2, GridAssumption DEF Plan
<1> QED BY <1>1, <1>2

LEMMA StartTreeKeeps ==
  ASSUME IndInv, StartTree
  PROVE  IndInv'
<1>1. PICK p \in Plans(MaxReserve), end \in 1 .. BlockCount :
        LET r == [base |-> reserved, end |-> end] IN
        p.acquire <= p.reserve /\ Reserve(p.reserve, r) /\ Start(p, r)
  BY DEF StartTree
<1>2. /\ reserved' = end /\ reservations' = reservations + 1
      /\ UNCHANGED <<checkpoint_durable, index, blocks_acquired, blocks_released, prior, forfeiting>>
      /\ UNCHANGED <<beat, stage, manifest, content, superblock, previous, update, trace>>
      /\ stage = "compact" /\ Len(log) < TreeCount
      /\ log' = Append(log, p)
      /\ job' = [plan |-> p, from |-> [base |-> reserved, end |-> end], taken |-> <<>>, dropped |-> {}]
  BY <1>1 DEF StartTree, Reserve, Start, blocks, durable
<1>3. p \in Plan
  BY <1>2, PlansArePlans
<1>4. /\ log' \in Seq(Plan) /\ Len(log') <= TreeCount
      /\ job' \in Job
  BY SMTT(60), <1>2, <1>3, GridAssumption, FreeSetAssumption DEF Job, IndInv, TypeOK, FreeSetTypeOK, Shapes, Reservation
<1>5. TypeOK'
  BY <1>2, <1>4, FreeSetAssumption DEF IndInv, TypeOK, FreeSetTypeOK, Panics
<1>6. Shapes'
  BY <1>2, <1>4 DEF IndInv, Shapes, WellFormed
<1>7. Stages' /\ Encoded' /\ Kept'
  BY <1>2 DEF IndInv, Stages, Encoded, Kept, Intact
<1> QED BY <1>2, <1>5, <1>6, <1>7, StillIntact DEF IndInv

\* A block that is acquired held nothing that a checkpoint refers to.
LEMMA AcquireBlockKeeps ==
  ASSUME IndInv, AcquireBlock
  PROVE  IndInv'
<1>1. PICK b \in Blocks :
        /\ Acquire(job.from, b)
        /\ job' = [job EXCEPT !.taken = Append(@, Address(b))]
        /\ content' = [content EXCEPT ![Address(b)] = <<beat, Len(log), Len(job.taken)>>]
  BY DEF AcquireBlock
<1>2. /\ blocks_acquired' = blocks_acquired \cup {b}
      /\ index' \subseteq index \cup {ShardOf(b)}
      /\ b = NextBlock(job.from) /\ b # None
      /\ UNCHANGED <<checkpoint_durable, blocks_released, prior, reserved, reservations, forfeiting>>
      /\ UNCHANGED <<beat, stage, log, manifest, superblock, previous, update, trace>>
      /\ job # None
  BY <1>1 DEF AcquireBlock, Acquire, reserving, durable
<1>3. /\ job \in Job
      /\ job.from \in Reservation /\ stage \in {"compact", "checkpoint"}
  BY <1>2 DEF IndInv, Shapes, Job
<1>4. b \notin blocks_acquired
  BY <1>2, <1>3, AcquiredWasFree
<1>5. ShardOf(b) \in Shards /\ Address(b) \in Addresses
  BY ShardIsInIndex, FreeSetAssumption DEF Address, Addresses, Blocks
<1>6. TypeOK'
  <2>1. FreeSetTypeOK'
    BY <1>2, <1>4, <1>5 DEF IndInv, TypeOK, FreeSetTypeOK
  <2> QED BY <1>2, <2>1 DEF IndInv, TypeOK, Panics
<1>7. Shapes'
  <2>1. content' = [a \in Addresses |-> content'[a]]
    BY <1>1, <1>5 DEF IndInv, Shapes
  <2>2. job' \in Job
    <3>1. Append(job.taken, Address(b)) \in Seq(Addresses)
      BY <1>3, <1>5 DEF Job
    <3> QED BY <1>1, <1>3, <3>1 DEF Job
  <2> QED BY <1>2, <1>3, <2>1, <2>2 DEF IndInv, Shapes, WellFormed
<1>8. Stages' /\ Encoded' /\ Kept'
  BY <1>2, <1>3 DEF IndInv, Stages, Encoded, Kept
<1>9. ASSUME NEW c, WellFormed(c), NeededBlocks(c) \subseteq blocks_acquired, Intact(c)
      PROVE  \A a \in Needs(c) : content'[a] = c.blocks[a]
  <2>1. ASSUME NEW a \in Needs(c)
        PROVE  content'[a] = content[a]
    <3>1. a \in Addresses /\ Block(a) # b
      BY <1>4, <1>9, NeedsAreBlocks
    <3>2. a # Address(b)
      BY <3>1, FreeSetAssumption DEF Address, Block, Blocks, Addresses
    <3> QED BY <1>1, <3>1, <3>2 DEF IndInv, Shapes
  <2> QED BY <1>9, <2>1 DEF Intact
<1>10. CheckpointIsIntact'
  BY <1>2, <1>9 DEF IndInv, Shapes, Kept, CheckpointIsIntact, Intact
<1>11. PreviousIsIntact'
  <2>1. CASE checkpoint_durable
    BY <1>2, <2>1, FreshIsIntact DEF IndInv, Stages, PreviousIsIntact, Intact
  <2>2. CASE ~checkpoint_durable
    BY <1>2, <1>9, <2>2 DEF IndInv, Shapes, Kept, PreviousIsIntact, Intact
  <2> QED BY <2>1, <2>2
<1> QED BY <1>6, <1>7, <1>8, <1>10, <1>11 DEF IndInv

LEMMA ReleaseBlockKeeps ==
  ASSUME IndInv, ReleaseBlock
  PROVE  IndInv'
<1>1. PICK a \in job.plan.release \ job.dropped :
        Release(a) /\ job' = [job EXCEPT !.dropped = @ \cup {a}]
  BY DEF ReleaseBlock
<1>2. /\ UNCHANGED <<checkpoint_durable, index, blocks_acquired, reserved, reservations, forfeiting>>
      /\ UNCHANGED <<beat, stage, log, manifest, content, superblock, previous, update, trace>>
      /\ job # None
      /\ Block(a) \in blocks_acquired \ (blocks_released \cup prior)
      /\ checkpoint_durable => blocks_released' = blocks_released \cup {Block(a)} /\ prior' = prior
      /\ ~checkpoint_durable => prior' = prior \cup {Block(a)} /\ blocks_released' = blocks_released
  BY <1>1 DEF ReleaseBlock, Release, reserving, durable
<1>3. /\ job \in Job
      /\ stage \in {"compact", "checkpoint"} /\ a \in Addresses
  BY <1>1, <1>2 DEF IndInv, Shapes, Job, Plan
<1>4. TypeOK'
  <2>1. FreeSetTypeOK'
    BY <1>2 DEF IndInv, TypeOK, FreeSetTypeOK
  <2> QED BY <1>2, <1>3, <2>1 DEF IndInv, TypeOK, Panics
<1>5. Shapes'
  <2>1. job' \in Job
    BY <1>1, <1>3 DEF Job
  <2> QED BY <1>2, <1>3, <2>1 DEF IndInv, Shapes, WellFormed
<1>6. Stages' /\ Encoded' /\ Kept'
  BY <1>2, <1>3 DEF IndInv, Stages, Encoded, Kept
<1> QED BY <1>2, <1>4, <1>5, <1>6, StillIntact DEF IndInv

LEMMA FinishTreeKeeps ==
  ASSUME IndInv, FinishTree
  PROVE  IndInv'
<1>1. /\ stage = "compact" /\ job' = None
      /\ UNCHANGED <<beat, stage, log, manifest, content, superblock, previous, update, trace>>
      /\ UNCHANGED <<checkpoint_durable, index, blocks_acquired, blocks_released, prior>>
      /\ reservations > 0 /\ reservations' = reservations - 1
      /\ reserved' = IF reservations = 1 THEN 0 ELSE reserved
      /\ forfeiting' = (reservations > 1)
  BY DEF FinishTree, Forfeit, blocks, durable
<1>2. TypeOK'
  <2>1. FreeSetTypeOK'
    <3>1. forfeiting' \in BOOLEAN /\ reservations' \in Nat /\ reserved' \in 0 .. BlockCount
      BY <1>1, FreeSetAssumption DEF IndInv, TypeOK, FreeSetTypeOK
    <3> QED BY <1>1, <3>1 DEF IndInv, TypeOK, FreeSetTypeOK
  <2> QED BY <1>1, <2>1 DEF IndInv, TypeOK, Panics
<1>3. Shapes'
  BY <1>1 DEF IndInv, Shapes, WellFormed
<1>4. Stages' /\ Encoded' /\ Kept'
  BY <1>1 DEF IndInv, Stages, Encoded, Kept
<1> QED BY <1>1, <1>2, <1>3, <1>4, StillIntact DEF IndInv

LEMMA CompleteBeatKeeps ==
  ASSUME IndInv, CompleteBeat
  PROVE  IndInv'
<1>1. PICK end \in 1 .. BlockCount :
        LET r == [base |-> 0, end |-> end] IN Renew(ManifestBlocks, r) /\ manifest' = r
  BY DEF CompleteBeat
<1>2. /\ reserved' = end /\ forfeiting' = FALSE /\ reservations = 1
      /\ manifest' = [base |-> 0, end |-> end]
      /\ UNCHANGED <<checkpoint_durable, index, blocks_acquired, blocks_released, prior, reservations>>
      /\ UNCHANGED <<job, content, superblock, previous, update>>
      /\ stage = "compact" /\ job = None /\ Len(log) = TreeCount
      /\ beat' = beat + 1 /\ log' = <<>>
      /\ stage' \in {"checkpoint", "durable"}
      /\ trace' = IF beat < Len(trace) THEN trace
                  ELSE Append(trace, [log |-> log, after |-> After])
  BY <1>1 DEF CompleteBeat, Renew, blocks, durable
<1>3. TypeOK'
  <2>1. FreeSetTypeOK'
    <3>1. forfeiting' \in BOOLEAN
      BY <1>2
    <3> QED BY <1>2, <3>1, FreeSetAssumption DEF IndInv, TypeOK, FreeSetTypeOK
  <2>2. beat' \in 0 .. MaxBeats /\ superblock'.beat <= beat' /\ Len(log') <= TreeCount
    BY <1>2, GridAssumption DEF IndInv, TypeOK, Shapes, Stages, WellFormed
  <2> QED BY <1>2, <2>1, <2>2 DEF IndInv, TypeOK, Panics
<1>4. Shapes'
  <2>1. log \in Seq(Plan) /\ After \in (SUBSET Blocks) \X (SUBSET Blocks) \X (SUBSET Blocks)
    BY DEF IndInv, Shapes, TypeOK, FreeSetTypeOK, After
  <2>2. /\ trace' \in Seq(BeatTrace)
        /\ \A k \in 1 .. Len(trace') : Len(trace'[k].log) = TreeCount
    <3> DEFINE e == [log |-> log, after |-> After]
    <3>1. e \in BeatTrace /\ Len(e.log) = TreeCount
      BY <1>2, <2>1 DEF BeatTrace
    <3>2. /\ trace \in Seq(BeatTrace)
          /\ \A k \in 1 .. Len(trace) : Len(trace[k].log) = TreeCount
      BY DEF IndInv, Shapes
    <3>3. trace' = trace \/ trace' = Append(trace, e)
      BY <1>2
    <3> HIDE DEF e
    <3> QED BY SMTT(60), <3>1, <3>2, <3>3
  <2>3. log' \in Seq(Plan)
    BY <1>2
  <2> QED BY <1>2, <2>2, <2>3 DEF IndInv, Shapes, WellFormed
<1>5. Stages' /\ Encoded' /\ Kept'
  <2>1. manifest' \in Reservation
    BY <1>2 DEF Reservation
  <2> QED BY <1>2, <2>1 DEF IndInv, Stages, Encoded, Kept
<1> QED BY <1>2, <1>3, <1>4, <1>5, StillIntact DEF IndInv

LEMMA ManifestAppendsKeeps ==
  ASSUME IndInv, ManifestAppends
  PROVE  IndInv'
<1>1. PICK k \in 0 .. ManifestBlocks :
        Start([reserve |-> ManifestBlocks, acquire |-> k, release |-> {}], manifest)
  BY DEF ManifestAppends
<1> DEFINE p == [reserve |-> ManifestBlocks, acquire |-> k, release |-> {}]
<1>2. /\ stage = "checkpoint" /\ log' = <<p>>
      /\ job' = [plan |-> p, from |-> manifest, taken |-> <<>>, dropped |-> {}]
      /\ UNCHANGED <<checkpoint_durable, index, blocks_acquired, blocks_released, prior,
                     reserved, reservations, forfeiting>>
      /\ UNCHANGED <<beat, stage, manifest, content, superblock, previous, update, trace>>
  <2>1. log' = Append(<<>>, p)
    BY <1>1 DEF ManifestAppends, Start
  <2>2. log' = <<p>>
    BY <2>1
  <2> QED BY <1>1, <2>2 DEF ManifestAppends, Start, free_set, blocks, reserving, durable
<1>3. p \in Plan /\ manifest \in Reservation
  BY <1>2, GridAssumption DEF Plan, IndInv, Stages
<1>4. log' \in Seq(Plan) /\ Len(log') <= TreeCount /\ job' \in Job
  BY <1>2, <1>3, GridAssumption DEF Job
<1>5. TypeOK'
  BY <1>2, <1>4 DEF IndInv, TypeOK, FreeSetTypeOK, Panics
<1>6. Shapes'
  BY <1>2, <1>4 DEF IndInv, Shapes, WellFormed
<1>7. Stages' /\ Encoded' /\ Kept'
  BY <1>2 DEF IndInv, Stages, Encoded, Kept
<1> QED BY <1>2, <1>5, <1>6, <1>7, StillIntact DEF IndInv

LEMMA FlushDoneKeeps ==
  ASSUME IndInv, FlushDone
  PROVE  IndInv'
<1>1. /\ stage = "checkpoint" /\ stage' = "free" /\ job' = None /\ log' = <<>> /\ manifest' = None
      /\ UNCHANGED <<beat, content, superblock, previous, update, trace>>
      /\ UNCHANGED <<checkpoint_durable, index, blocks_acquired, blocks_released, prior>>
      /\ reservations = 1 /\ reservations' = 0 /\ reserved' = 0 /\ forfeiting' \in BOOLEAN
  <2>1. /\ reservations = 1 /\ reservations' = reservations - 1
        /\ reserved' = IF reservations = 1 THEN 0 ELSE reserved
        /\ forfeiting' = (reservations > 1)
    BY DEF FlushDone, Forfeit, IndInv, Stages
  <2>2. reservations' = 0 /\ reserved' = 0 /\ forfeiting' \in BOOLEAN
    BY <2>1
  <2> QED BY <2>1, <2>2 DEF FlushDone, Forfeit, blocks, durable
<1>2. TypeOK'
  <2>1. FreeSetTypeOK'
    BY <1>1, FreeSetAssumption DEF IndInv, TypeOK, FreeSetTypeOK
  <2> QED BY <1>1, <2>1, GridAssumption DEF IndInv, TypeOK, Panics
<1>3. Shapes'
  BY <1>1 DEF IndInv, Shapes, WellFormed
<1>4. Stages' /\ Encoded' /\ Kept'
  BY <1>1 DEF IndInv, Stages, Encoded, Kept
<1> QED BY <1>1, <1>2, <1>3, <1>4, StillIntact DEF IndInv

LEMMA ForestDurableKeeps ==
  ASSUME IndInv, ForestDurable
  PROVE  IndInv'
<1>1. /\ stage = "free" /\ reservations = 0 /\ reserved = 0
      /\ UNCHANGED <<beat, log, job, manifest, content, superblock, update, trace>>
  BY DEF ForestDurable, working, IndInv, Stages
<1>2. CASE checkpoint_durable
  <2>1. /\ stage' = "encode" /\ previous' = previous
        /\ UNCHANGED <<checkpoint_durable, index, blocks_acquired, blocks_released, prior,
                       reserved, reservations, forfeiting>>
    BY <1>2 DEF ForestDurable, free_set, blocks, reserving
  <2>2. TypeOK'
    BY <1>1, <1>2, <2>1 DEF IndInv, TypeOK, FreeSetTypeOK, Stages, Panics
  <2>3. Shapes'
    BY <1>1, <2>1 DEF IndInv, Shapes, WellFormed
  <2>4. Stages' /\ Encoded' /\ Kept'
    BY <1>1, <2>1 DEF IndInv, Stages, Encoded, Kept
  <2> QED BY <1>1, <2>1, <2>2, <2>3, <2>4, StillIntact DEF IndInv
<1>3. CASE ~checkpoint_durable
  <2>1. BecomeDurable("encode")
    BY <1>3 DEF ForestDurable
  <2>2. /\ FreeSetTypeOK' /\ Kept' /\ checkpoint_durable' /\ prior' = {}
        /\ previous' = FreshCheckpoint /\ stage' \in {"encode"} \cup Panics
        /\ UNCHANGED <<reserved, reservations, forfeiting>>
    BY <1>1, <2>1, BecomeDurableKeeps
  <2>3. TypeOK'
    BY <1>1, <2>2 DEF IndInv, TypeOK, Panics
  <2>4. Shapes'
    BY <1>1, <2>2, FreshIsIntact DEF IndInv, Shapes, WellFormed
  <2>5. Stages' /\ Encoded'
    BY <1>1, <2>2 DEF IndInv, Stages, Encoded, Panics
  <2> QED BY <1>1, <2>2, <2>3, <2>4, <2>5, StillIntactWithoutPrevious DEF IndInv
<1> QED BY <1>2, <1>3

\* The encoded free set takes blocks that were free, and the checkpoint that the
\* superblock is updated to is intact: the next superblock is well formed.
LEMMA FirstFreeIsFree ==
  ASSUME NEW acquired, None \notin FirstFree(acquired)
  PROVE  FirstFree(acquired) \subseteq Blocks \ acquired
<1>1. BlockLimit \in Int /\ BlockLimit <= BlockCount /\ 0 \in Nat
  BY FreeSetAssumption
<1>2. CASE acquired = {}
  BY <1>2 DEF FirstFree
<1>3. CASE acquired # {}
  <2>1. FindUnset(acquired, 0, BlockLimit) # None
    BY <1>3 DEF FirstFree
  <2>2. FindUnset(acquired, 0, BlockLimit) \in (0 .. BlockLimit - 1) \ acquired
    BY <1>1, <2>1, FindUnsetIsUnset
  <2>3. 0 .. BlockLimit - 1 \subseteq Blocks
    BY FreeSetAssumption DEF Blocks
  <2> QED BY <1>3, <2>2, <2>3 DEF FirstFree
<1> QED BY <1>2, <1>3

LEMMA EncodeKeeps ==
  ASSUME IndInv, Encode
  PROVE  IndInv'
<1> DEFINE first  == FirstFree(blocks_acquired)
           second == IF blocks_released = {} THEN {} ELSE FirstFree(blocks_acquired \cup first)
           T      == first \cup second
           c      == [beat |-> beat, acquired |-> blocks_acquired, released |-> blocks_released,
                      trailers |-> {Address(b) : b \in T}, blocks |-> <<>>]
<1>1. /\ stage = "encode" /\ stage' = "encoded" /\ checkpoint_durable /\ prior = {}
      /\ reservations = 0 /\ reserved = 0 /\ previous = FreshCheckpoint
      /\ None \notin T
      /\ UNCHANGED <<checkpoint_durable, blocks_released, prior, reserved, reservations, forfeiting>>
      /\ UNCHANGED <<beat, log, job, manifest, superblock, previous, trace>>
  BY DEF Encode, reserving, working, IndInv, TypeOK, Stages
<1>2. /\ blocks_acquired' = blocks_acquired \cup T
      /\ index' \subseteq index \cup {ShardOf(b) : b \in T}
      /\ content' = [a \in Addresses |->
                       IF Block(a) \in first THEN <<beat, 0, 1>>
                       ELSE IF Block(a) \in second THEN <<beat, 0, 2>> ELSE content[a]]
      /\ update' = [c EXCEPT !.blocks = [a \in Needs(c) |-> content'[a]]]
  BY DEF Encode
<1>3. T \subseteq Blocks \ blocks_acquired
  <2>1. first \subseteq Blocks \ blocks_acquired
    BY <1>1, FirstFreeIsFree
  <2>2. second = {} \/ second \subseteq Blocks \ (blocks_acquired \cup first)
    BY <1>1, FirstFreeIsFree
  <2> QED BY <2>1, <2>2
<1>4. /\ update'.beat = beat /\ update'.acquired = blocks_acquired
      /\ update'.released = blocks_released /\ update'.trailers = {Address(b) : b \in T}
      /\ update'.blocks = [a \in Needs(c) |-> content'[a]]
  BY <1>2
<1>5. /\ {Address(b) : b \in T} \subseteq Addresses /\ BlocksOf({Address(b) : b \in T}) = T
      /\ \A b \in T : ShardOf(b) \in Shards
  <2>1. T \subseteq Blocks
    BY <1>3
  <2> HIDE DEF T
  <2> QED BY <2>1, AddressesOfBlocks, ShardIsInIndex
<1> HIDE DEF T
<1>6. WellFormed(update') /\ Intact(update)'
  <2>1. WellFormed(update')
    <3>1. beat \in Nat /\ blocks_acquired \subseteq Blocks /\ blocks_released \subseteq blocks_acquired
      BY GridAssumption DEF IndInv, TypeOK, FreeSetTypeOK
    <3>2. update'.trailers \subseteq Addresses /\ BlocksOf(update'.trailers) \cap blocks_acquired = {}
      BY <1>3, <1>4, <1>5
    <3> QED BY <1>4, <3>1, <3>2 DEF WellFormed
  <2>2. Needs(update') = Needs(c)
    BY <1>4 DEF Needs
  <2> QED BY <1>4, <2>1, <2>2 DEF Intact
<1>7. TypeOK'
  <2>1. FreeSetTypeOK'
    BY <1>1, <1>2, <1>3, <1>5 DEF IndInv, TypeOK, FreeSetTypeOK
  <2> QED BY <1>1, <2>1 DEF IndInv, TypeOK, Panics
<1>8. Shapes'
  <2>1. content' = [a \in Addresses |-> content'[a]]
    BY <1>2
  <2>2. job' = None
    BY <1>1 DEF IndInv, Shapes
  <2> QED BY <1>1, <1>6, <2>1, <2>2 DEF IndInv, Shapes, WellFormed
<1>9. Stages' /\ Encoded' /\ Kept'
  <2>1. Stages'
    BY <1>1 DEF IndInv, Stages
  <2>2. Encoded'
    BY <1>1, <1>2, <1>4, <1>5, <1>6 DEF Encoded
  <2>3. Kept'
    BY <1>1, <1>2 DEF IndInv, Kept
  <2> QED BY <2>1, <2>2, <2>3
<1>10. CheckpointIsIntact'
  <2>1. ASSUME NEW a \in Needs(superblock)
        PROVE  content'[a] = content[a]
    <3>1. a \in Addresses /\ Block(a) \in blocks_acquired
      BY NeedsAreBlocks DEF IndInv, Shapes, Kept
    <3>2. Block(a) \notin first /\ Block(a) \notin second
      BY <1>3, <3>1 DEF T
    <3> QED BY <1>2, <3>1, <3>2
  <2> QED BY <1>1, <2>1 DEF IndInv, CheckpointIsIntact, Intact
<1>11. PreviousIsIntact'
  BY <1>1, FreshIsIntact DEF PreviousIsIntact, Intact
<1> QED BY <1>6, <1>7, <1>8, <1>9, <1>10, <1>11 DEF IndInv

\* The checkpoint that was written last takes the place of the one before.
LEMMA SuperblockWritten ==
  ASSUME IndInv, stage = "superblock", superblock' = update, previous' = superblock,
         UNCHANGED <<content, update>>
  PROVE  /\ WellFormed(superblock') /\ WellFormed(previous')
         /\ CheckpointIsIntact' /\ PreviousIsIntact'
         /\ NeededBlocks(previous') \subseteq superblock'.acquired \cup BlocksOf(superblock'.trailers)
         /\ blocks_acquired = superblock'.acquired \cup BlocksOf(superblock'.trailers)
         /\ blocks_released = superblock'.released
         /\ superblock'.beat = beat
<1>1. WellFormed(superblock') /\ WellFormed(previous')
  BY DEF IndInv, Shapes
<1>2. CheckpointIsIntact' /\ PreviousIsIntact'
  BY DEF IndInv, Encoded, CheckpointIsIntact, PreviousIsIntact, Intact
<1> QED BY <1>1, <1>2 DEF IndInv, Encoded, Kept

LEMMA CheckpointDoneKeeps ==
  ASSUME IndInv, CheckpointDone
  PROVE  IndInv'
<1>1. /\ stage = "superblock" /\ stage' = "durable"
      /\ superblock' = update /\ previous' = superblock
      /\ UNCHANGED <<beat, log, job, manifest, content, update, trace>>
      /\ checkpoint_durable' = FALSE /\ prior' = BlocksOf(update.trailers)
      /\ UNCHANGED <<index, blocks_acquired, blocks_released, reserved, reservations, forfeiting>>
  BY DEF CheckpointDone, MarkCheckpointNotDurable, working, reserving
<1>2. /\ WellFormed(superblock') /\ WellFormed(previous')
      /\ CheckpointIsIntact' /\ PreviousIsIntact'
      /\ NeededBlocks(previous') \subseteq superblock'.acquired \cup BlocksOf(superblock'.trailers)
      /\ blocks_acquired = superblock'.acquired \cup BlocksOf(superblock'.trailers)
      /\ blocks_released = superblock'.released
      /\ superblock'.beat = beat
  BY <1>1, SuperblockWritten
<1>3. TypeOK'
  <2>1. FreeSetTypeOK'
    <3>1. checkpoint_durable' \in BOOLEAN
      BY <1>1
    <3>2. prior' \subseteq blocks_acquired' \ blocks_released'
      BY <1>1, <1>2 DEF WellFormed
    <3> QED BY <1>1, <3>1, <3>2 DEF IndInv, TypeOK, FreeSetTypeOK
  <2>2. superblock'.beat <= beat'
    BY <1>1, <1>2 DEF IndInv, TypeOK
  <2> QED BY <1>1, <2>1, <2>2 DEF IndInv, TypeOK, Panics
<1>4. Shapes'
  <2>1. job' = None
    BY <1>1 DEF IndInv, Shapes
  <2> QED BY <1>1, <1>2, <2>1 DEF IndInv, Shapes, WellFormed
<1>5. Stages' /\ Encoded'
  BY <1>1 DEF IndInv, Stages, Encoded
<1>6. Kept'
  BY <1>1, <1>2 DEF Kept, NeededBlocks, WellFormed
<1> QED BY <1>2, <1>3, <1>4, <1>5, <1>6 DEF IndInv

LEMMA RestartKeeps ==
  ASSUME IndInv, Restart
  PROVE  IndInv'
<1> DEFINE c == superblock'
<1>1. /\ checkpoint_durable' = FALSE
      /\ blocks_acquired' = c.acquired \cup BlocksOf(c.trailers)
      /\ blocks_released' = c.released /\ prior' = BlocksOf(c.trailers)
      /\ index' \subseteq {ShardOf(b) : b \in BlocksOf(c.trailers)}
      /\ reserved' = 0 /\ reservations' = 0 /\ forfeiting' = FALSE
      /\ beat' = c.beat /\ stage' = "open" /\ log' = <<>> /\ job' = None
      /\ UNCHANGED <<content, update, trace>>
  BY DEF Restart, OpenFreeSet
<1>2. /\ WellFormed(c) /\ WellFormed(previous') /\ c.beat <= beat
      /\ CheckpointIsIntact' /\ PreviousIsIntact'
      /\ NeededBlocks(previous') \subseteq c.acquired \cup BlocksOf(c.trailers)
  <2>1. CASE UNCHANGED <<superblock, previous>>
    BY <1>1, <2>1, StillIntact DEF IndInv, TypeOK, Shapes, Kept
  <2>2. CASE stage = "superblock" /\ superblock' = update /\ previous' = superblock
    BY <1>1, <2>2, SuperblockWritten DEF IndInv, TypeOK
  <2> QED BY <2>1, <2>2 DEF Restart
<1> HIDE DEF c
<1>3. TypeOK'
  <2>1. FreeSetTypeOK'
    <3>1. checkpoint_durable' \in BOOLEAN /\ forfeiting' \in BOOLEAN
      BY <1>1
    <3>2. /\ c.acquired \subseteq Blocks /\ c.released \subseteq c.acquired
          /\ BlocksOf(c.trailers) \subseteq Blocks /\ BlocksOf(c.trailers) \cap c.acquired = {}
      BY <1>2, BlocksOfAddresses DEF WellFormed
    <3>3. index' \subseteq Shards
      BY <1>1, <3>2, ShardIsInIndex
    <3> QED BY <1>1, <3>1, <3>2, <3>3, FreeSetAssumption DEF FreeSetTypeOK
  <2>2. beat' \in 0 .. MaxBeats /\ superblock'.beat <= beat'
    <3>1. beat \in 0 .. MaxBeats /\ c.beat \in Nat /\ c.beat <= beat /\ MaxBeats \in Nat
      BY <1>2, GridAssumption DEF IndInv, TypeOK, WellFormed
    <3>2. c.beat \in 0 .. MaxBeats
      BY <3>1
    <3> QED BY <1>1, <3>1, <3>2 DEF c
  <2> QED BY <1>1, <2>1, <2>2, GridAssumption DEF TypeOK, Panics
<1>4. Shapes'
  BY <1>1, <1>2 DEF c, IndInv, Shapes, WellFormed
<1>5. Stages' /\ Encoded'
  BY <1>1 DEF Stages, Encoded
<1>6. Kept'
  BY <1>1, <1>2 DEF c, Kept, NeededBlocks, WellFormed
<1> QED BY <1>2, <1>3, <1>4, <1>5, <1>6 DEF IndInv

-----------------------------------------------------------------------------
(* The invariant, and what follows from it *)

\* IndInv is inductive.
LEMMA StepKeeps == IndInv /\ [Next]_vars => IndInv'
<1> SUFFICES ASSUME IndInv, [Next]_vars PROVE IndInv'
  OBVIOUS
<1>1. CASE UNCHANGED vars
  <2>1. /\ UNCHANGED <<checkpoint_durable, index, blocks_acquired, blocks_released, prior,
                       reserved, reservations, forfeiting>>
        /\ UNCHANGED <<beat, stage, log, job, manifest, content, superblock, previous, update, trace>>
    BY <1>1 DEF vars, free_set, blocks, reserving, working, durable
  <2>2. TypeOK' /\ Shapes'
    BY <2>1 DEF IndInv, TypeOK, FreeSetTypeOK, Panics, Shapes, WellFormed
  <2>3. Stages' /\ Encoded' /\ Kept'
    BY <2>1 DEF IndInv, Stages, Encoded, Kept, Intact
  <2> QED BY <2>1, <2>2, <2>3, StillIntact DEF IndInv
<1>2. CASE ManifestReserves
  BY <1>2, ManifestReservesKeeps
<1>3. CASE CheckpointDurableStage
  BY <1>3, CheckpointDurableStageKeeps
<1>4. CASE Reconcile
  BY <1>4, ReconcileKeeps
<1>5. CASE StartTree
  BY <1>5, StartTreeKeeps
<1>6. CASE AcquireBlock
  BY <1>6, AcquireBlockKeeps
<1>7. CASE ReleaseBlock
  BY <1>7, ReleaseBlockKeeps
<1>8. CASE FinishTree
  BY <1>8, FinishTreeKeeps
<1>9. CASE CompleteBeat
  BY <1>9, CompleteBeatKeeps
<1>10. CASE ManifestAppends
  BY <1>10, ManifestAppendsKeeps
<1>11. CASE FlushDone
  BY <1>11, FlushDoneKeeps
<1>12. CASE ForestDurable
  BY <1>12, ForestDurableKeeps
<1>13. CASE Encode
  BY <1>13, EncodeKeeps
<1>14. CASE CheckpointDone
  BY <1>14, CheckpointDoneKeeps
<1>15. CASE Restart
  BY <1>15, RestartKeeps
<1> QED
  BY <1>1, <1>2, <1>3, <1>4, <1>5, <1>6, <1>7, <1>8, <1>9, <1>10, <1>11, <1>12, <1>13, <1>14, <1>15
  DEF Next

\* The invariant holds in every state, whatever the size of the grid, the work of
\* a beat and the number of crashes.
THEOREM GridInvariant == Spec => []IndInv
<1>1. Init => IndInv
  BY InitEstablishes
<1>2. IndInv /\ [Next]_vars => IndInv'
  BY StepKeeps
<1> QED BY <1>1, <1>2, PTL DEF Spec

\* The free set's bit sets, its reservations and the stages of the commit
\* pipeline keep their types.
THEOREM GridTypeCorrect == Spec => []TypeOK
<1>1. IndInv => TypeOK
  BY DEF IndInv
<1> QED BY <1>1, GridInvariant, PTL

\* No block of the durable checkpoint is overwritten before the next one
\* replaces it: Grid::open finds them all after a crash.
THEOREM DurableCheckpointIsKept == Spec => []CheckpointIsIntact
<1>1. IndInv => CheckpointIsIntact
  BY DEF IndInv
<1> QED BY <1>1, GridInvariant, PTL

\* Nor is a block of the checkpoint before, until mark_checkpoint_durable.
THEOREM PreviousCheckpointIsKept == Spec => []PreviousIsIntact
<1>1. IndInv => PreviousIsIntact
  BY DEF IndInv
<1> QED BY <1>1, GridInvariant, PTL

\* Where the forest's checkpoint is what frees the blocks, free and encode_chunks
\* never find a reservation: the flush of the manifest log forfeited the last one.
THEOREM ForestFreesUnreserved == ~ReplicaCommits => (Spec => []FreesUnreserved)
<1> SUFFICES ASSUME ~ReplicaCommits PROVE Spec => []FreesUnreserved
  OBVIOUS
<1>1. Init => FreesUnreserved
  BY DEF Init, FreesUnreserved
<1>2. IndInv /\ FreesUnreserved /\ [Next]_vars => stage' # "free panics"
  <2> SUFFICES ASSUME IndInv, FreesUnreserved, [Next]_vars PROVE stage' # "free panics"
    OBVIOUS
  <2>1. CASE ForestDurable
    <3>1. stage = "free" /\ MayFree
      BY <2>1 DEF ForestDurable, IndInv, Stages, MayFree
    <3>2. stage' \in {"encode", "verify_index panics"}
      BY <2>1, <3>1 DEF ForestDurable, BecomeDurable
    <3> QED BY <3>2
  <2>2. CASE UNCHANGED vars
    BY <2>2 DEF vars, FreesUnreserved
  <2>3. CASE Next /\ ~ForestDurable
    BY <2>3 DEF Next, FreesUnreserved, ManifestReserves, CheckpointDurableStage, Reconcile, StartTree,
       AcquireBlock, ReleaseBlock, FinishTree, CompleteBeat, ManifestAppends, FlushDone, Encode,
       CheckpointDone, Restart
  <2> QED BY <2>1, <2>2, <2>3
<1>3. IndInv' /\ stage' # "free panics" => FreesUnreserved'
  BY DEF IndInv, Stages, FreesUnreserved
<1> QED BY <1>1, <1>2, <1>3, GridInvariant, PTL DEF Spec

-----------------------------------------------------------------------------
(* Reservations                                                             *)

\* Only full shards are in the index.
IndexSound == \A s \in index : Full(blocks_acquired, s)

\* The blocks that a job has taken.
Own(j) == BlocksOf(Range(j.taken))

Free(A, r) == (r.base .. r.end - 1) \ A

\* A reservation of n of the blocks that are not in A.
IsEnd(A, base, n, e) ==
  e \in Nat /\ base < e /\ e - 1 \notin A /\ Cardinality((base .. e - 1) \ A) = n

\* The first of the free blocks of a reservation.
First(A, r, S) == S \subseteq Free(A, r) /\ \A b \in S, c \in Free(A, r) \ S : b < c

\* find_bit returns the first unset bit.
LEMMA FindUnsetIsLeast ==
  ASSUME NEW set, NEW lo \in Nat, NEW hi \in Int, FindUnset(set, lo, hi) # None,
         NEW c \in (lo .. hi - 1) \ set
  PROVE  FindUnset(set, lo, hi) <= c
<1> DEFINE unset == (lo .. hi - 1) \ set
<1>1. unset # {} /\ unset \subseteq Nat /\ c \in unset
  BY DEF FindUnset
<1>2. \E b \in unset : \A d \in unset : b <= d
  BY <1>1, LeastElement
<1>3. FindUnset(set, lo, hi) = CHOOSE b \in unset : \A d \in unset : b <= d
  BY <1>1 DEF FindUnset
<1> HIDE DEF unset
<1> QED BY <1>1, <1>2, <1>3

\* Where a block is among the shards.
LEMMA ShardOfBlock ==
  ASSUME NEW b \in Nat
  PROVE  /\ ShardOf(b) \in Nat /\ b \in BitsOf(ShardOf(b))
         /\ \A c \in Nat : c <= b => ShardOf(c) <= ShardOf(b)
         /\ \A s \in Nat : b < s * ShardBits => ShardOf(b) < s
<1> DEFINE q == b \div ShardBits
<1>1. ShardBits \in Nat \ {0}
  BY FreeSetAssumption
<1>2. /\ q \in Int /\ b = ShardBits * q + (b % ShardBits)
      /\ b % ShardBits \in 0 .. ShardBits - 1
  BY <1>1
<1>3. q >= 0
  BY <1>1, <1>2
<1>4. ShardBits * q = q * ShardBits /\ (q + 1) * ShardBits = q * ShardBits + ShardBits
  <2> HIDE DEF q
  <2> QED BY <1>1, <1>2
<1>5. q * ShardBits <= b /\ b <= (q + 1) * ShardBits - 1
  <2> HIDE DEF q
  <2> QED BY <1>1, <1>2, <1>4
<1>6. ASSUME NEW c \in Nat, c <= b
      PROVE  c \div ShardBits <= q
  <2> DEFINE p == c \div ShardBits
  <2>1. p \in Int /\ c = ShardBits * p + (c % ShardBits) /\ c % ShardBits \in 0 .. ShardBits - 1
    BY <1>1
  <2> SUFFICES ASSUME p > q PROVE FALSE
    BY <1>2, <2>1
  <2>2. p >= q + 1
    BY <1>2, <2>1
  <2> HIDE DEF p, q
  <2>3. ShardBits * p >= ShardBits * (q + 1)
    BY <1>1, <1>2, <2>1, <2>2
  <2>4. ShardBits * (q + 1) = ShardBits * q + ShardBits
    BY <1>1, <1>2
  <2> QED BY <1>1, <1>2, <1>6, <2>1, <2>3, <2>4
<1>7. ASSUME NEW s \in Nat, b < s * ShardBits
      PROVE  q < s
  <2> SUFFICES ASSUME s <= q PROVE FALSE
    BY <1>2
  <2> HIDE DEF q
  <2>1. s * ShardBits <= q * ShardBits
    BY <1>1, <1>2
  <2>2. s * ShardBits \in Int /\ q * ShardBits \in Int
    BY <1>1, <1>2
  <2> QED BY <1>5, <1>7, <2>1, <2>2
<1> HIDE DEF q
<1>8. b \in BitsOf(q)
  BY <1>1, <1>2, <1>4, <1>5 DEF BitsOf
<1> QED BY <1>2, <1>3, <1>6, <1>7, <1>8 DEF ShardOf, q

\* The shards that a search skips have no free block.
LEMMA SkippedAreFull ==
  ASSUME IndexSound, NEW base \in Nat, NEW hi \in Int,
         NEW shard, shard = FindUnset(index, ShardOf(base), hi), shard # None
  PROVE  LET start == IF shard * ShardBits > base THEN shard * ShardBits ELSE base IN
         /\ start \in Nat /\ start >= base
         /\ \A b \in base .. start - 1 : b \in blocks_acquired
<1> DEFINE start == IF shard * ShardBits > base THEN shard * ShardBits ELSE base
<1>1. ShardOf(base) \in Nat /\ ShardBits \in Nat \ {0}
  BY ShardOfBlock, FreeSetAssumption
<1>2. shard \in ShardOf(base) .. hi - 1 /\ shard \in Nat
  BY <1>1, FindUnsetIsUnset
<1>3. start \in Nat /\ start >= base
  BY <1>1, <1>2
<1>4. ASSUME NEW b \in base .. start - 1
      PROVE  b \in blocks_acquired
  <2>1. b \in Nat /\ b < shard * ShardBits /\ base <= b
    BY <1>1, <1>2
  <2>2. ShardOf(b) < shard /\ ShardOf(base) <= ShardOf(b) /\ ShardOf(b) \in Nat
    BY <1>2, <2>1, ShardOfBlock
  <2>3. ShardOf(b) \in ShardOf(base) .. hi - 1
    BY <1>1, <1>2, <2>2
  <2>4. ShardOf(b) \in index
    BY <1>1, <1>2, <2>2, <2>3, FindUnsetIsLeast
  <2>5. b \in BitsOf(ShardOf(b))
    BY <2>1, ShardOfBlock
  <2> QED BY <2>4, <2>5 DEF IndexSound, Full
<1> QED BY <1>3, <1>4

\* The number of shards is one.
LEMMA ShardCount == Cardinality(Shards) \in Nat
<1>1. BlockCount \div ShardBits \in Int
  BY FreeSetAssumption
<1>2. IsFiniteSet(Shards)
  BY <1>1, FS_Interval DEF Shards
<1> QED BY <1>2, FS_CardinalityType

\* reserve counts the free blocks from the base on, though it starts at the first
\* shard that is not full.
LEMMA ReservationEndIs ==
  ASSUME IndexSound, NEW base \in Nat, NEW n, ReservationEnd(base, n) # None
  PROVE  IsEnd(blocks_acquired, base, n, ReservationEnd(base, n))
<1> DEFINE shard == FindUnset(index, ShardOf(base), Cardinality(Shards))
           start == IF shard * ShardBits > base THEN shard * ShardBits ELSE base
           last == {b \in (start .. BlockLimit - 1) \ blocks_acquired :
                      Cardinality((start .. b) \ blocks_acquired) = n}
           b == CHOOSE b \in last : TRUE
<1>1. shard # None /\ last # {} /\ ReservationEnd(base, n) = b + 1
  BY DEF ReservationEnd
<1>2. /\ start \in Nat /\ start >= base
      /\ \A c \in base .. start - 1 : c \in blocks_acquired
  BY <1>1, ShardCount, SkippedAreFull
<1> HIDE DEF start, shard
<1>3. b \in last /\ BlockLimit \in Int
  <2>1. BlockLimit \in Int
    BY FreeSetAssumption
  <2> HIDE DEF last
  <2> QED BY <1>1, <2>1
<1> HIDE DEF b
<1>4. b \in start .. BlockLimit - 1 /\ b \notin blocks_acquired
      /\ Cardinality((start .. b) \ blocks_acquired) = n
  BY <1>3
<1> HIDE DEF last
<1>5. (start .. b) \ blocks_acquired = (base .. b) \ blocks_acquired
  BY <1>2, <1>3, <1>4
<1>6. b + 1 \in Nat /\ base < b + 1 /\ (b + 1) - 1 = b
  BY <1>2, <1>3, <1>4
<1> QED BY <1>1, <1>4, <1>5, <1>6 DEF IsEnd

\* acquire returns the first free block of the reservation, whatever shards the
\* index lets it skip.
LEMMA NextBlockIsFirst ==
  ASSUME IndexSound, NEW r \in Reservation, NEW b, b = NextBlock(r), b # None
  PROVE  b \in Free(blocks_acquired, r) /\ \A c \in Free(blocks_acquired, r) : b <= c
<1> DEFINE shard == FindUnset(index, ShardOf(r.base), ShardOf(r.end - 1) + 1)
           start == IF shard * ShardBits > r.base THEN shard * ShardBits ELSE r.base
<1>1. r.base \in Nat /\ r.end \in Nat
  BY DEF Reservation
<1>2. ShardOf(r.end - 1) + 1 \in Int
  BY <1>1, FreeSetAssumption DEF ShardOf
<1>3. shard # None /\ b = FindUnset(blocks_acquired, start, r.end)
  BY DEF NextBlock
<1>4. /\ start \in Nat /\ start >= r.base
      /\ \A c \in r.base .. start - 1 : c \in blocks_acquired
  BY <1>1, <1>2, <1>3, SkippedAreFull
<1> HIDE DEF start, shard
<1>5. b \in (start .. r.end - 1) \ blocks_acquired
  BY <1>1, <1>3, <1>4, FindUnsetIsUnset
<1>6. \A c \in (start .. r.end - 1) \ blocks_acquired : b <= c
  BY <1>1, <1>3, <1>4, FindUnsetIsLeast
<1>7. Free(blocks_acquired, r) = (start .. r.end - 1) \ blocks_acquired
  BY <1>1, <1>4 DEF Free
<1> QED BY <1>5, <1>6, <1>7

-----------------------------------------------------------------------------
(* What a beat does to the blocks                                           *)

\* A reservation of as many free blocks has one end ...
LEMMA EndOnce ==
  ASSUME NEW A, NEW base \in Nat, NEW n, NEW e, NEW f, IsEnd(A, base, n, e), IsEnd(A, base, n, f)
  PROVE  e = f
<1>1. ASSUME NEW x, NEW y, IsEnd(A, base, n, x), IsEnd(A, base, n, y), x < y
      PROVE  FALSE
  <2> DEFINE X == (base .. x - 1) \ A
             Y == (base .. y - 1) \ A
  <2>1. x \in Nat /\ y \in Nat /\ y - 1 \notin A /\ base < y /\ Cardinality(X) = Cardinality(Y)
    BY <1>1 DEF IsEnd
  <2>2. X \subseteq Y /\ y - 1 \in Y /\ y - 1 \notin X
    BY <1>1, <2>1
  <2>3. IsFiniteSet(Y)
    <3>1. IsFiniteSet(base .. y - 1)
      BY <2>1, FS_Interval
    <3> QED BY <3>1, FS_Subset
  <2> HIDE DEF X, Y
  <2> QED BY <2>1, <2>2, <2>3, FS_Subset
<1>2. e \in Nat /\ f \in Nat
  BY DEF IsEnd
<1>3. ~(e < f) /\ ~(f < e)
  BY <1>1
<1> QED BY <1>2, <1>3

\* ... and its first blocks, as many, are the same ones.
LEMMA FirstOnce ==
  ASSUME NEW A, NEW r \in Reservation, NEW S, NEW T, First(A, r, S), First(A, r, T),
         Cardinality(S) = Cardinality(T)
  PROVE  S = T
<1>1. S \subseteq Free(A, r) /\ T \subseteq Free(A, r)
      /\ Free(A, r) \subseteq Int /\ Free(A, r) \subseteq r.base .. r.end - 1
  BY DEF First, Free, Reservation
<1>2. IsFiniteSet(S) /\ IsFiniteSet(T)
  <2>1. IsFiniteSet(r.base .. r.end - 1)
    BY FS_Interval DEF Reservation
  <2>2. S \subseteq r.base .. r.end - 1 /\ T \subseteq r.base .. r.end - 1
    BY <1>1
  <2> QED BY <2>1, <2>2, FS_Subset
<1>3. S \subseteq T \/ T \subseteq S
  <2> SUFFICES ASSUME NEW b \in S \ T, NEW c \in T \ S PROVE FALSE
    OBVIOUS
  <2>1. b < c /\ c < b
    BY <1>1 DEF First
  <2> QED BY <1>1, <2>1
<1> QED BY <1>2, <1>3, FS_Subset

\* The free set with the blocks S acquired and the blocks D released: for the next
\* checkpoint or, until this one is durable, for the one after it.
With(s, S, D, is_durable) ==
  IF is_durable THEN <<s[1] \cup S, s[2] \cup D, s[3]>> ELSE <<s[1] \cup S, s[2], s[3] \cup D>>

\* A job of plan p takes the free set from s to t.
Done(s, p, is_durable, t) ==
  \E r \in Reservation, S \in SUBSET Blocks :
    /\ IsEnd(s[1], 0, ManifestBlocks, r.base) /\ IsEnd(s[1], r.base, p.reserve, r.end)
    /\ First(s[1], r, S) /\ Cardinality(S) = p.acquire
    /\ t = With(s, S, BlocksOf(p.release), is_durable)

\* It does so in one way.
LEMMA DoneOnce ==
  ASSUME NEW s, NEW p, NEW is_durable, NEW t, NEW u, Done(s, p, is_durable, t), Done(s, p, is_durable, u)
  PROVE  t = u
<1>1. PICK r \in Reservation, S \in SUBSET Blocks :
        /\ IsEnd(s[1], 0, ManifestBlocks, r.base) /\ IsEnd(s[1], r.base, p.reserve, r.end)
        /\ First(s[1], r, S) /\ Cardinality(S) = p.acquire
        /\ t = With(s, S, BlocksOf(p.release), is_durable)
  BY DEF Done
<1>2. PICK q \in Reservation, T \in SUBSET Blocks :
        /\ IsEnd(s[1], 0, ManifestBlocks, q.base) /\ IsEnd(s[1], q.base, p.reserve, q.end)
        /\ First(s[1], q, T) /\ Cardinality(T) = p.acquire
        /\ u = With(s, T, BlocksOf(p.release), is_durable)
  BY DEF Done
<1>3. r.base = q.base /\ r.base \in Nat
  BY <1>1, <1>2, EndOnce DEF Reservation
<1>4. r.end = q.end
  BY <1>1, <1>2, <1>3, EndOnce
<1>5. r = q
  BY <1>3, <1>4 DEF Reservation
<1>6. S = T
  BY <1>1, <1>2, <1>5, FirstOnce
<1> QED BY <1>1, <1>2, <1>6

\* The free set as open leaves it for checkpoint c.
Opened(c) == <<c.acquired \cup BlocksOf(c.trailers), c.released, BlocksOf(c.trailers)>>

\* Whether checkpoint c is durable on a quorum while beat k compacts, and was before.
DurableIn(c, k) == ReplicaCommits /\ (c.beat = 0 \/ k > c.beat)

WasDurable(c, k) == k > c.beat /\ DurableIn(c, k - 1)

\* The free set before beat k, in the trace t of the beats since checkpoint c ...
Past(c, t, k) == IF k = c.beat THEN Opened(c) ELSE t[k].after

\* ... and where its compaction begins.
Begins(c, t, k) ==
  IF DurableIn(c, k) /\ ~WasDurable(c, k)
  THEN LET s == Past(c, t, k) IN <<s[1] \ s[2], s[3], {}>>
  ELSE Past(c, t, k)

\* The free set h[j] after each of the first n jobs of log l in beat k.
Run(h, c, t, k, l, n) ==
  /\ h[0] = Begins(c, t, k)
  /\ \A j \in 1 .. n : Done(h[j - 1], l[j], DurableIn(c, k), h[j])

\* The same jobs do the same.
LEMMA RunOnce ==
  ASSUME NEW g, NEW h, NEW c, NEW t, NEW k, NEW l, NEW m, NEW n \in Nat,
         Run(g, c, t, k, l, n), Run(h, c, t, k, m, n), \A j \in 1 .. n : l[j] = m[j]
  PROVE  g[n] = h[n]
<1> DEFINE differ == {j \in 0 .. n : g[j] # h[j]}
<1> SUFFICES ASSUME g[n] # h[n] PROVE FALSE
  OBVIOUS
<1>1. n \in differ /\ differ \subseteq Nat
  OBVIOUS
<1>2. PICK i \in differ : \A j \in differ : i <= j
  <2> HIDE DEF differ
  <2>1. differ # {}
    BY <1>1
  <2> QED BY <1>1, <2>1, LeastElement
<1>3. i # 0
  BY <1>2 DEF Run
<1>4. i \in 1 .. n /\ i - 1 \in 0 .. n
  BY <1>2, <1>3
<1>5. g[i - 1] = h[i - 1]
  BY <1>2, <1>4
<1>6. Done(g[i - 1], l[i], DurableIn(c, k), g[i]) /\ Done(g[i - 1], l[i], DurableIn(c, k), h[i])
  BY <1>4, <1>5 DEF Run
<1>7. g[i] = h[i]
  BY <1>6, DoneOnce
<1> QED BY <1>2, <1>7

\* One job more.
LEMMA RunFurther ==
  ASSUME NEW h, NEW c, NEW t, NEW k, NEW l, NEW n \in Nat, NEW s,
         Run(h, c, t, k, l, n), Done(h[n], l[n + 1], DurableIn(c, k), s)
  PROVE  \E g : Run(g, c, t, k, l, n + 1) /\ g[n + 1] = s
<1> DEFINE g == [j \in 0 .. n + 1 |-> IF j <= n THEN h[j] ELSE s]
<1>1. g[0] = h[0] /\ g[n] = h[n] /\ g[n + 1] = s
  OBVIOUS
<1>2. ASSUME NEW j \in 1 .. n + 1
      PROVE  Done(g[j - 1], l[j], DurableIn(c, k), g[j])
  <2>1. CASE j = n + 1
    BY <1>1, <2>1
  <2>2. CASE j \in 1 .. n
    <3>1. g[j - 1] = h[j - 1] /\ g[j] = h[j]
      BY <2>2
    <3> HIDE DEF g
    <3> QED BY <2>2, <3>1 DEF Run
  <2> QED BY <2>1, <2>2
<1> HIDE DEF g
<1> QED BY <1>1, <1>2 DEF Run

\* Only the log up to the n-th job and the trace before beat k matter.
LEMMA RunDependsOn ==
  ASSUME NEW h, NEW c, NEW t, NEW u, NEW k, NEW l, NEW m, NEW n \in Nat,
         Run(h, c, t, k, l, n), \A j \in 1 .. n : l[j] = m[j],
         Past(c, u, k) = Past(c, t, k)
  PROVE  Run(h, c, u, k, m, n)
BY DEF Run, Begins

-----------------------------------------------------------------------------
(* Beats executed again: the invariant                                      *)

Beats ==
  /\ beat <= Len(trace)
  /\ \A k \in superblock.beat + 1 .. Len(trace) - 1 : k % BeatsPerCheckpoint # 0
  /\ stage = "open" => beat = superblock.beat
  /\ stage \in {"durable", "compact"} => beat = superblock.beat \/ beat % BeatsPerCheckpoint # 0
  /\ stage \in {"checkpoint", "free", "encode", "encoded", "superblock"} => beat = Len(trace)
  /\ stage \notin {"compact", "checkpoint"} => log = <<>>

\* The manifest log's reservation, and a second one while a tree compacts.
Reserves ==
  /\ stage = "open" => reservations = 0 /\ reserved = 0 /\ ~forfeiting
  /\ stage \in {"superblock", "durable"} => reservations = 1 /\ ~forfeiting
  /\ stage = "compact" => reservations = IF job = None THEN 1 ELSE 2
  /\ stage \in {"superblock", "durable", "compact"} /\ job = None /\ ~forfeiting =>
       IsEnd(blocks_acquired, 0, ManifestBlocks, reserved)
  /\ stage = "checkpoint" /\ job = None =>
       IsEnd(blocks_acquired, manifest.base, ManifestBlocks, manifest.end)

\* The job that runs has found the first free blocks of its reservation.
Working ==
  job # None =>
    LET A == blocks_acquired \ Own(job) IN
    /\ Own(job) \subseteq blocks_acquired /\ Cardinality(Own(job)) = Len(job.taken)
    /\ IsEnd(A, job.from.base, job.plan.reserve, job.from.end)
    /\ First(A, job.from, Own(job))

\* The trace is what its logs do, from the checkpoint on.
Recorded ==
  \A k \in superblock.beat .. Len(trace) - 1 :
    \E h : Run(h, superblock, trace, k, trace[k + 1].log, TreeCount) /\ h[TreeCount] = trace[k + 1].after

Starting ==
  stage \in {"open", "durable"} =>
    After = Past(superblock, trace, beat) /\ (checkpoint_durable <=> WasDurable(superblock, beat))

\* A beat that is in the trace does the same jobs, ...
SameJobs ==
  /\ checkpoint_durable <=> DurableIn(superblock, beat)
  /\ beat < Len(trace) => \A j \in 1 .. Len(log) : log[j] = trace[beat + 1].log[j]

\* ... and the free set is what those that are done made of it ...
BetweenJobs ==
  \E h : Run(h, superblock, trace, beat, log, Len(log)) /\ h[Len(log)] = After

\* ... but for the blocks that the last one has acquired and released by now.
WithinJob ==
  /\ Len(log) > 0 /\ job.plan = log[Len(log)]
  /\ \E h, s : /\ Run(h, superblock, trace, beat, log, Len(log) - 1) /\ s = h[Len(log) - 1]
               /\ IsEnd(s[1], 0, ManifestBlocks, job.from.base)
               /\ s[1] = blocks_acquired \ Own(job)
               /\ After = With(s, Own(job), BlocksOf(job.dropped), checkpoint_durable)

Compacting ==
  stage = "compact" => SameJobs /\ (job = None => BetweenJobs) /\ (job # None => WithinJob)

Replay ==
  /\ IndexSound /\ Beats /\ Reserves /\ Working
  /\ Recorded /\ Starting /\ Compacting

\* A step that leaves a part of the state alone.
LEMMA StillRecorded ==
  ASSUME Recorded, UNCHANGED <<superblock, trace>>
  PROVE  Recorded'
BY DEF Recorded

\* A part that says nothing of the next state.
LEMMA NoJob ==
  ASSUME job' = None
  PROVE  Working'
BY DEF Working

LEMMA NotCompacting ==
  ASSUME stage' # "compact"
  PROVE  Compacting'
BY DEF Compacting

\* The shards taken for full stay full.
LEMMA SameIndex ==
  ASSUME IndexSound, UNCHANGED <<index, blocks_acquired>>
  PROVE  IndexSound'
BY DEF IndexSound

-----------------------------------------------------------------------------
(* Beats executed again: one lemma per action                               *)

LEMMA InitReplays == Init => Replay
<1> SUFFICES ASSUME Init PROVE Replay
  OBVIOUS
<1>1. /\ index = {} /\ blocks_acquired = {} /\ blocks_released = {} /\ prior = {}
      /\ reserved = 0 /\ reservations = 0 /\ ~forfeiting /\ ~checkpoint_durable
      /\ beat = 0 /\ stage = "open" /\ log = <<>> /\ job = None /\ superblock = FreshCheckpoint
      /\ trace = <<>>
  BY DEF Init, FreeSetInit
<1>2. IndexSound /\ Beats /\ Reserves /\ Working
  BY <1>1 DEF IndexSound, Beats, Reserves, Working, FreshCheckpoint
<1>3. Recorded /\ Compacting
  BY <1>1 DEF Recorded, Compacting, FreshCheckpoint
<1>4. Starting
  <2>1. After = <<{}, {}, {}>> /\ Opened(superblock) = <<{}, {}, {}>>
    BY <1>1 DEF After, Opened, FreshCheckpoint, BlocksOf
  <2>2. superblock.beat = 0
    BY <1>1 DEF FreshCheckpoint
  <2>3. Past(superblock, trace, beat) = Opened(superblock) /\ ~WasDurable(superblock, beat)
    BY <1>1, <2>2 DEF Past, WasDurable
  <2> QED BY <1>1, <2>1, <2>3 DEF Starting
<1> QED BY <1>2, <1>3, <1>4 DEF Replay

\* What a reservation is for.
LEMMA ReservationIs ==
  ASSUME IndInv, IndexSound, NEW n, NEW base \in {0, reserved}, ReservationEnd(base, n) # None
  PROVE  IsEnd(blocks_acquired, base, n, ReservationEnd(base, n))
<1>1. base \in Nat
  BY DEF IndInv, TypeOK, FreeSetTypeOK
<1> QED BY <1>1, ReservationEndIs

LEMMA ManifestReservesReplays ==
  ASSUME IndInv, Replay, ManifestReserves
  PROVE  Replay'
<1>1. PICK end \in 1 .. BlockCount :
        LET r == [base |-> reserved, end |-> end] IN
        Reserve(ManifestBlocks, r) /\ manifest' = r
  BY DEF ManifestReserves
<1>2. /\ reserved' = end /\ reservations' = reservations + 1 /\ ~forfeiting
      /\ ReservationEnd(reserved, ManifestBlocks) # None /\ end = ReservationEnd(reserved, ManifestBlocks)
      /\ UNCHANGED <<checkpoint_durable, index, blocks_acquired, blocks_released, prior, forfeiting>>
      /\ UNCHANGED <<beat, log, job, superblock, trace>>
      /\ stage \in {"open", "encoded"}
      /\ stage' = IF stage = "open" THEN "durable" ELSE "superblock"
  BY <1>1 DEF ManifestReserves, Reserve, blocks, working, durable
<1>3. reservations = 0 /\ reserved = 0 /\ job = None
  BY <1>2 DEF IndInv, Shapes, Stages, Replay, Reserves
<1>4. IndexSound' /\ Beats'
  BY <1>2 DEF Replay, IndexSound, Beats
<1>5. Reserves'
  <2>1. IsEnd(blocks_acquired, 0, ManifestBlocks, end)
    BY <1>2, <1>3, ReservationIs DEF Replay
  <2> QED BY <1>2, <1>3, <2>1 DEF Reserves
<1>6. Starting'
  BY <1>2 DEF Replay, Starting, After
<1>7. job' = None /\ stage' # "compact"
  BY <1>2, <1>3
<1> QED BY <1>2, <1>4, <1>5, <1>6, <1>7, StillRecorded, NoJob, NotCompacting DEF Replay

\* A block is in no other shard.
LEMMA ShardOfBits ==
  ASSUME NEW s \in Nat, NEW b \in BitsOf(s)
  PROVE  b \in Nat /\ ShardOf(b) = s
<1>1. ShardBits \in Nat \ {0}
  BY FreeSetAssumption
<1>2. s * ShardBits \in Nat /\ s * ShardBits <= b /\ b < (s + 1) * ShardBits /\ b \in Int
  BY <1>1 DEF BitsOf
<1>3. b \in Nat /\ ShardOf(b) < s + 1
  BY <1>2, ShardOfBlock
<1>4. s <= ShardOf(b)
  <2> DEFINE q == ShardOf(b)
  <2>1. q \in Nat /\ b < (q + 1) * ShardBits
    BY <1>1, <1>3, ShardOfBlock DEF BitsOf
  <2> SUFFICES ASSUME q + 1 <= s PROVE FALSE
    BY <2>1
  <2> HIDE DEF q
  <2>2. (q + 1) * ShardBits <= s * ShardBits
    BY <1>1, <2>1
  <2>3. (q + 1) * ShardBits \in Int
    BY <1>1, <2>1
  <2> QED BY <1>2, <2>1, <2>2, <2>3
<1>5. ShardOf(b) \in Nat
  BY <1>3, ShardOfBlock
<1> QED BY <1>3, <1>4, <1>5

\* The shards of freed blocks leave the index.
LEMMA FreedLeaveIndex ==
  ASSUME IndInv, IndexSound, MarkCheckpointDurable
  PROVE  IndexSound'
<1>1. /\ blocks_acquired' = blocks_acquired \ blocks_released
      /\ index' = index \ {ShardOf(b) : b \in blocks_released}
  BY DEF MarkCheckpointDurable
<1>2. ASSUME NEW s \in index', NEW b \in BitsOf(s)
      PROVE  b \in blocks_acquired'
  <2>1. s \in index /\ s \in Nat
    BY <1>1, <1>2 DEF IndInv, TypeOK, FreeSetTypeOK, Shards
  <2>2. ShardOf(b) = s
    BY <2>1, ShardOfBits
  <2>3. b \in blocks_acquired
    BY <2>1 DEF IndexSound, Full
  <2> QED BY <1>1, <2>2, <2>3
<1> QED BY <1>2 DEF IndexSound, Full

\* The checkpoint that is durable while a beat compacts is so at its end.
LEMMA DurableStays ==
  ASSUME WellFormed(superblock), NEW k \in Nat, WasDurable(superblock, k)
  PROVE  DurableIn(superblock, k)
BY DEF WasDurable, DurableIn, WellFormed

\* No job has run at the begin of a beat.
LEMMA RunOfNone ==
  ASSUME NEW c, NEW t, NEW k, NEW l
  PROVE  \E h : Run(h, c, t, k, l, 0) /\ h[0] = Begins(c, t, k)
<1> DEFINE h == [j \in {0} |-> Begins(c, t, k)]
<1>1. h[0] = Begins(c, t, k)
  OBVIOUS
<1> HIDE DEF h
<1>2. Run(h, c, t, k, l, 0)
  BY <1>1 DEF Run
<1> QED BY <1>1, <1>2

LEMMA CheckpointDurableStageReplays ==
  ASSUME IndInv, Replay, CheckpointDurableStage
  PROVE  Replay'
<1>1. /\ stage = "durable" /\ job = None /\ log = <<>> /\ WellFormed(superblock) /\ beat \in Nat
      /\ UNCHANGED <<beat, log, job, manifest, superblock, trace>>
      /\ UNCHANGED <<reserved, reservations, forfeiting>>
      /\ reservations = 1 /\ ~forfeiting /\ IsEnd(blocks_acquired, 0, ManifestBlocks, reserved)
      /\ After = Past(superblock, trace, beat)
      /\ checkpoint_durable <=> WasDurable(superblock, beat)
  <2>1. /\ stage = "durable" /\ UNCHANGED <<beat, log, job, manifest, superblock, trace>>
        /\ UNCHANGED <<reserved, reservations, forfeiting>>
    BY DEF CheckpointDurableStage, working, BecomeDurable, MarkCheckpointDurable, free_set, reserving
  <2>2. job = None /\ WellFormed(superblock) /\ beat \in Nat
    BY <2>1, GridAssumption DEF IndInv, Shapes, TypeOK
  <2> QED BY <2>1, <2>2 DEF Replay, Beats, Reserves, Starting
<1>2. Recorded' /\ Working'
  BY <1>1, StillRecorded, NoJob DEF Replay
<1>3. CASE BecomeDurable("compact")
           /\ DurableIn(superblock, beat) /\ ~WasDurable(superblock, beat)
  <2>1. /\ MarkCheckpointDurable /\ checkpoint_durable'
        /\ After' = <<blocks_acquired \ blocks_released, prior, {}>>
        /\ stage' \in {"compact"} \cup Panics
        /\ stage' = "compact" => blocks_released = {}
    <3>1. MarkCheckpointDurable
      BY <1>3 DEF BecomeDurable
    <3>2. /\ checkpoint_durable' = TRUE /\ blocks_acquired' = blocks_acquired \ blocks_released
          /\ blocks_released' = prior /\ prior' = {}
      BY <3>1 DEF MarkCheckpointDurable
    <3>3. /\ stage' \in {"compact"} \cup Panics
          /\ stage' = "compact" => MayFree
      BY <1>3 DEF BecomeDurable, Panics
    <3> QED BY <1>1, <3>1, <3>2, <3>3 DEF After, MayFree
  <2>2. IndexSound' /\ Starting' /\ Beats'
    <3>1. IndexSound'
      BY <2>1, FreedLeaveIndex DEF Replay
    <3>2. Beats' /\ Starting'
      BY <1>1, <2>1 DEF Replay, Beats, Starting, Panics
    <3> QED BY <3>1, <3>2
  <2>3. Reserves'
    <3>1. stage' = "compact" => blocks_acquired' = blocks_acquired
      BY <2>1 DEF MarkCheckpointDurable
    <3> QED BY <1>1, <2>1, <3>1 DEF Reserves, Panics
  <2>4. Compacting'
    <3>1. After' = Begins(superblock, trace, beat)
      <4>1. Past(superblock, trace, beat) = <<blocks_acquired, blocks_released, prior>>
        BY <1>1 DEF After
      <4> QED BY <1>3, <2>1, <4>1 DEF Begins
    <3>2. Len(log') = 0 /\ SameJobs'
      BY <1>1, <1>3, <2>1 DEF SameJobs
    <3>3. BetweenJobs'
      <4>1. PICK h : Run(h, superblock, trace, beat, log, 0) /\ h[0] = Begins(superblock, trace, beat)
        BY RunOfNone
      <4> QED BY <1>1, <3>1, <3>2, <4>1 DEF BetweenJobs
    <3> QED BY <1>1, <3>2, <3>3 DEF Compacting
  <2> QED BY <1>2, <2>2, <2>3, <2>4 DEF Replay
<1>4. CASE /\ stage' = "compact" /\ UNCHANGED <<free_set, previous>>
           /\ ~(DurableIn(superblock, beat) /\ ~WasDurable(superblock, beat))
  <2>1. /\ UNCHANGED <<checkpoint_durable, index, blocks_acquired, blocks_released, prior>>
        /\ After' = After
    BY <1>4 DEF free_set, blocks, After
  <2>2. IndexSound' /\ Beats' /\ Starting' /\ Reserves'
    BY <1>1, <1>4, <2>1 DEF Replay, IndexSound, Beats, Starting, Reserves
  <2>3. Compacting'
    <3>1. After' = Begins(superblock, trace, beat)
      BY <1>1, <1>4, <2>1 DEF Begins
    <3>2. Len(log') = 0 /\ SameJobs'
      BY <1>1, <1>4, <2>1, DurableStays DEF SameJobs
    <3>3. BetweenJobs'
      <4>1. PICK h : Run(h, superblock, trace, beat, log, 0) /\ h[0] = Begins(superblock, trace, beat)
        BY RunOfNone
      <4> QED BY <1>1, <3>1, <3>2, <4>1 DEF BetweenJobs
    <3> QED BY <1>1, <3>2, <3>3 DEF Compacting
  <2> QED BY <1>2, <2>2, <2>3 DEF Replay
<1>5. (ReplicaCommits /\ ~checkpoint_durable /\ (superblock.beat = 0 \/ beat > superblock.beat))
      <=> DurableIn(superblock, beat) /\ ~WasDurable(superblock, beat)
  BY <1>1 DEF DurableIn
<1> QED BY <1>3, <1>4, <1>5 DEF CheckpointDurableStage

LEMMA ReconcileReplays ==
  ASSUME IndInv, Replay, Reconcile
  PROVE  Replay'
<1>1. PICK end \in 1 .. BlockCount :
        LET r == [base |-> 0, end |-> end] IN Renew(ManifestBlocks, r) /\ manifest' = r
  BY DEF Reconcile
<1>2. /\ reserved' = end /\ ~forfeiting' /\ stage = "compact" /\ job = None
      /\ ReservationEnd(0, ManifestBlocks) # None /\ end = ReservationEnd(0, ManifestBlocks)
      /\ UNCHANGED <<checkpoint_durable, index, blocks_acquired, blocks_released, prior, reservations>>
      /\ UNCHANGED <<beat, stage, log, job, superblock, trace>>
  BY <1>1 DEF Reconcile, Renew, blocks, working, durable
<1>3. IsEnd(blocks_acquired, 0, ManifestBlocks, end)
  BY <1>2, ReservationIs DEF Replay
<1>4. IndexSound' /\ Beats' /\ Reserves' /\ Starting'
  BY <1>2, <1>3 DEF Replay, IndexSound, Beats, Reserves, Starting
<1>5. Compacting'
  <2>1. SameJobs' /\ BetweenJobs'
    BY <1>2 DEF Replay, Compacting, SameJobs, BetweenJobs, After
  <2> QED BY <1>2, <2>1 DEF Compacting
<1> QED BY <1>2, <1>4, <1>5, StillRecorded, NoJob DEF Replay

LEMMA StartTreeReplays ==
  ASSUME IndInv, Replay, StartTree
  PROVE  Replay'
<1>1. PICK p \in Plans(MaxReserve), end \in 1 .. BlockCount :
        LET r == [base |-> reserved, end |-> end] IN
        p.acquire <= p.reserve /\ Reserve(p.reserve, r) /\ Start(p, r)
  BY DEF StartTree
<1> DEFINE r == [base |-> reserved, end |-> end]
<1>2. /\ reservations' = reservations + 1 /\ ~forfeiting
      /\ ReservationEnd(reserved, p.reserve) # None /\ end = ReservationEnd(reserved, p.reserve)
      /\ UNCHANGED <<checkpoint_durable, index, blocks_acquired, blocks_released, prior>>
      /\ UNCHANGED <<beat, stage, manifest, superblock, trace>>
      /\ stage = "compact" /\ job = None /\ Len(log) < TreeCount
      /\ log' = Append(log, p)
      /\ job' = [plan |-> p, from |-> r, taken |-> <<>>, dropped |-> {}]
  BY <1>1 DEF StartTree, Reserve, Start, blocks, durable
<1>3. /\ log \in Seq(Plan) /\ Len(log) \in Nat /\ Len(log') = Len(log) + 1
      /\ log'[Len(log) + 1] = p /\ \A j \in 1 .. Len(log) : log'[j] = log[j]
  BY <1>2 DEF IndInv, Shapes
<1>4. job' # None
  <2>1. p \in Plan
    BY <1>2, PlansArePlans
  <2>2. r \in Reservation
    BY DEF Reservation, IndInv, TypeOK, FreeSetTypeOK
  <2>3. <<>> \in Seq(Addresses) /\ {} \in SUBSET Addresses
    OBVIOUS
  <2> HIDE DEF r
  <2>4. job' \in Job
    BY <1>2, <2>1, <2>2, <2>3 DEF Job
  <2> QED BY <2>4, NoneAssumption
<1>5. Own(job') = {} /\ BlocksOf(job'.dropped) = {}
  <2>1. job'.taken = <<>> /\ job'.dropped = {}
    BY <1>2
  <2>2. Range(<<>>) = {}
    BY DEF Range
  <2> QED BY <2>1, <2>2 DEF Own, BlocksOf
<1>6. IndexSound' /\ Beats' /\ Reserves' /\ Starting'
  <2>1. reservations = 1
    BY <1>2 DEF Replay, Reserves
  <2> QED BY <1>2, <1>4, <2>1 DEF Replay, IndexSound, Beats, Reserves, Starting
<1>7. Working'
  <2>1. Cardinality({}) = 0 /\ Len(job'.taken) = 0
    BY <1>2, FS_EmptySet
  <2>2. IsEnd(blocks_acquired, reserved, p.reserve, end)
    BY <1>2, ReservationIs DEF Replay
  <2>3. First(blocks_acquired, r, {})
    BY DEF First
  <2>4. blocks_acquired' \ Own(job') = blocks_acquired
    BY <1>2, <1>5
  <2>5. /\ IsEnd(blocks_acquired, job'.from.base, job'.plan.reserve, job'.from.end)
        /\ First(blocks_acquired, job'.from, {})
    BY <1>2, <2>2, <2>3
  <2> QED BY <1>5, <2>1, <2>4, <2>5 DEF Working
<1>8. SameJobs'
  <2>1. beat < Len(trace) => p = trace[beat + 1].log[Len(log) + 1]
    BY DEF Plans
  <2> QED BY <1>2, <1>3, <2>1 DEF Replay, Compacting, SameJobs
<1>9. WithinJob'
  <2>1. PICK h : Run(h, superblock, trace, beat, log, Len(log)) /\ h[Len(log)] = After
    BY <1>2 DEF Replay, Compacting, BetweenJobs
  <2>2. Run(h, superblock, trace, beat, log', Len(log))
    BY <1>3, <2>1, RunDependsOn
  <2>3. Len(log') - 1 = Len(log) /\ Len(log') > 0 /\ job'.plan = log'[Len(log')]
    BY <1>2, <1>3
  <2>4. After[1] = blocks_acquired
    BY DEF After
  <2>5. IsEnd(blocks_acquired, 0, ManifestBlocks, job'.from.base)
    BY <1>2 DEF Replay, Reserves
  <2>6. After' = With(After, {}, {}, checkpoint_durable')
    BY <1>2 DEF After, With
  <2>7. blocks_acquired' \ Own(job') = blocks_acquired
    BY <1>2, <1>5
  <2> QED BY <1>2, <1>5, <2>1, <2>2, <2>3, <2>4, <2>5, <2>6, <2>7 DEF WithinJob
<1> QED BY <1>2, <1>4, <1>6, <1>7, <1>8, <1>9, StillRecorded DEF Replay, Compacting

\* The block that is acquired is the next of the first blocks.
LEMMA AcquireBlockReplays ==
  ASSUME IndInv, Replay, AcquireBlock
  PROVE  Replay'
<1>1. PICK b \in Blocks :
        /\ Acquire(job.from, b)
        /\ job' = [job EXCEPT !.taken = Append(@, Address(b))]
  BY DEF AcquireBlock
<1> DEFINE A == blocks_acquired \ Own(job)
<1>2. /\ blocks_acquired' = blocks_acquired \cup {b}
      /\ index' = IF Full(blocks_acquired', ShardOf(b)) THEN index \cup {ShardOf(b)} ELSE index
      /\ b = NextBlock(job.from) /\ b # None
      /\ UNCHANGED <<checkpoint_durable, blocks_released, prior, reserved, reservations, forfeiting>>
      /\ UNCHANGED <<beat, stage, log, manifest, superblock, trace>>
      /\ job # None
  BY <1>1 DEF AcquireBlock, Acquire, reserving, durable
<1>3. /\ job \in Job /\ job.from \in Reservation /\ job.taken \in Seq(Addresses)
      /\ stage \in {"compact", "checkpoint"}
  BY <1>2 DEF IndInv, Shapes, Job
<1>4. /\ b \in Free(blocks_acquired, job.from)
      /\ \A c \in Free(blocks_acquired, job.from) : b <= c
  BY <1>2, <1>3, NextBlockIsFirst DEF Replay
<1>5. /\ job' \in Job /\ job' # None /\ job'.plan = job.plan /\ job'.from = job.from
      /\ job'.dropped = job.dropped /\ job'.taken = Append(job.taken, Address(b))
  <2>1. Address(b) \in Addresses
    BY FreeSetAssumption DEF Address, Addresses, Blocks
  <2>2. Append(job.taken, Address(b)) \in Seq(Addresses)
    BY <1>3, <2>1
  <2>3. job' \in Job
    BY <1>1, <1>3, <2>2 DEF Job
  <2> QED BY <1>1, <1>3, <2>3, NoneAssumption DEF Job
<1>6. Own(job') = Own(job) \cup {b} /\ Len(job'.taken) = Len(job.taken) + 1
  <2>1. Range(job'.taken) = Range(job.taken) \cup {Address(b)}
    <3>1. /\ DOMAIN job'.taken = 1 .. Len(job.taken) + 1 /\ DOMAIN job.taken = 1 .. Len(job.taken)
          /\ job'.taken[Len(job.taken) + 1] = Address(b) /\ Len(job.taken) \in Nat
          /\ \A j \in 1 .. Len(job.taken) : job'.taken[j] = job.taken[j]
      BY <1>3, <1>5
    <3> QED BY <3>1 DEF Range
  <2>2. Block(Address(b)) = b
    BY FreeSetAssumption DEF Block, Address, Blocks
  <2> QED BY <1>3, <1>5, <2>1, <2>2 DEF Own, BlocksOf
<1>7. b \notin blocks_acquired /\ b \notin Own(job) /\ Own(job) \subseteq blocks_acquired
      /\ blocks_acquired' \ Own(job') = A
  BY <1>2, <1>4, <1>6 DEF Free, Replay, Working
<1>8. IndexSound'
  BY <1>2 DEF Replay, IndexSound, Full
<1>9. Beats' /\ Reserves' /\ Starting'
  BY <1>2, <1>3, <1>5 DEF Replay, Beats, Reserves, Starting
<1>10. Working'
  <2>1. IsFiniteSet(Own(job))
    <3>1. Own(job) \subseteq Blocks
      BY <1>7 DEF IndInv, TypeOK, FreeSetTypeOK
    <3>2. IsFiniteSet(Blocks)
      BY FS_Interval, FreeSetAssumption DEF Blocks
    <3> QED BY <3>1, <3>2, FS_Subset
  <2>2. Cardinality(Own(job')) = Len(job'.taken)
    <3>1. Cardinality(Own(job)) = Len(job.taken)
      BY <1>2 DEF Replay, Working
    <3>2. Cardinality(Own(job) \cup {b}) = Cardinality(Own(job)) + 1
      BY <1>7, <2>1, FS_AddElement
    <3> QED BY <1>6, <3>1, <3>2
  <2>3. First(A, job.from, Own(job'))
    <3>1. First(A, job.from, Own(job)) /\ b \in Free(A, job.from)
      BY <1>2, <1>4 DEF Replay, Working, Free
    <3>2. ASSUME NEW d \in Own(job'), NEW c \in Free(A, job.from) \ Own(job')
          PROVE  d < c
      <4>1. CASE d \in Own(job)
        BY <1>6, <3>1, <3>2, <4>1 DEF First
      <4>2. CASE d = b
        <5>1. c \in Free(blocks_acquired, job.from) /\ c # b
          BY <1>6, <3>2 DEF Free
        <5>2. c \in Int /\ b \in Int /\ b <= c
          BY <1>3, <1>4, <5>1 DEF Free, Reservation
        <5> QED BY <4>2, <5>1, <5>2
      <4> QED BY <1>6, <3>2, <4>1, <4>2
    <3> QED BY <1>6, <3>1, <3>2 DEF First
  <2> QED BY <1>2, <1>5, <1>6, <1>7, <2>2, <2>3 DEF Replay, Working
<1>11. Compacting'
  <2> SUFFICES ASSUME stage = "compact" PROVE SameJobs' /\ WithinJob'
    BY <1>2, <1>5 DEF Compacting
  <2>1. SameJobs /\ WithinJob
    BY <1>2 DEF Replay, Compacting
  <2>2. SameJobs'
    BY <1>2, <2>1 DEF SameJobs
  <2>3. PICK h, s : /\ Run(h, superblock, trace, beat, log, Len(log) - 1) /\ s = h[Len(log) - 1]
                    /\ IsEnd(s[1], 0, ManifestBlocks, job.from.base)
                    /\ s[1] = blocks_acquired \ Own(job)
                    /\ After = With(s, Own(job), BlocksOf(job.dropped), checkpoint_durable)
    BY <2>1 DEF WithinJob
  <2>4. After' = With(s, Own(job'), BlocksOf(job'.dropped), checkpoint_durable')
    BY <1>2, <1>5, <1>6, <2>3 DEF After, With
  <2> QED BY <1>2, <1>5, <1>7, <2>1, <2>2, <2>3, <2>4 DEF WithinJob
<1> QED BY <1>2, <1>8, <1>9, <1>10, <1>11, StillRecorded DEF Replay

\* A block of the job's own is not what it may find.
LEMMA ReleaseBlockReplays ==
  ASSUME IndInv, Replay, ReleaseBlock
  PROVE  Replay'
<1>1. PICK a \in job.plan.release \ job.dropped :
        Release(a) /\ job' = [job EXCEPT !.dropped = @ \cup {a}]
  BY DEF ReleaseBlock
<1>2. /\ UNCHANGED <<checkpoint_durable, index, blocks_acquired, reserved, reservations, forfeiting>>
      /\ UNCHANGED <<beat, stage, log, manifest, superblock, trace>>
      /\ job # None
      /\ checkpoint_durable => blocks_released' = blocks_released \cup {Block(a)} /\ prior' = prior
      /\ ~checkpoint_durable => prior' = prior \cup {Block(a)} /\ blocks_released' = blocks_released
  BY <1>1 DEF ReleaseBlock, Release, reserving, durable
<1>3. /\ job \in Job /\ stage \in {"compact", "checkpoint"} /\ a \in Addresses
  BY <1>1, <1>2 DEF IndInv, Shapes, Job, Plan
<1>4. /\ job' \in Job /\ job' # None /\ job'.plan = job.plan /\ job'.from = job.from
      /\ job'.taken = job.taken /\ job'.dropped = job.dropped \cup {a}
  <2>1. job' \in Job
    BY <1>1, <1>3 DEF Job
  <2> QED BY <1>1, <1>3, <2>1, NoneAssumption DEF Job
<1>5. /\ Own(job') = Own(job)
      /\ BlocksOf(job'.dropped) = BlocksOf(job.dropped) \cup {Block(a)}
  BY <1>4 DEF Own, BlocksOf
<1>6. IndexSound' /\ Beats' /\ Reserves' /\ Starting' /\ Working'
  BY <1>2, <1>3, <1>4, <1>5 DEF Replay, IndexSound, Beats, Reserves, Starting, Working
<1>7. Compacting'
  <2> SUFFICES ASSUME stage = "compact" PROVE SameJobs' /\ WithinJob'
    BY <1>2, <1>4 DEF Compacting
  <2>1. SameJobs /\ WithinJob
    BY <1>2 DEF Replay, Compacting
  <2>2. SameJobs'
    BY <1>2, <2>1 DEF SameJobs
  <2>3. PICK h, s : /\ Run(h, superblock, trace, beat, log, Len(log) - 1) /\ s = h[Len(log) - 1]
                    /\ IsEnd(s[1], 0, ManifestBlocks, job.from.base)
                    /\ s[1] = blocks_acquired \ Own(job)
                    /\ After = With(s, Own(job), BlocksOf(job.dropped), checkpoint_durable)
    BY <2>1 DEF WithinJob
  <2>4. After' = With(s, Own(job'), BlocksOf(job'.dropped), checkpoint_durable')
    BY <1>2, <1>5, <2>3 DEF After, With
  <2> QED BY <1>2, <1>4, <1>5, <2>1, <2>2, <2>3, <2>4 DEF WithinJob
<1> QED BY <1>2, <1>6, <1>7, StillRecorded DEF Replay

LEMMA FinishTreeReplays ==
  ASSUME IndInv, Replay, FinishTree
  PROVE  Replay'
<1>1. /\ stage = "compact" /\ job # None /\ job' = None /\ IsDone
      /\ UNCHANGED <<beat, stage, log, superblock, trace>>
      /\ UNCHANGED <<checkpoint_durable, index, blocks_acquired, blocks_released, prior>>
      /\ reservations' = reservations - 1 /\ forfeiting' = (reservations > 1)
  BY DEF FinishTree, Forfeit, blocks, durable
<1>2. reservations' = 1 /\ forfeiting'
  <2>1. reservations = 2
    BY <1>1 DEF Replay, Reserves
  <2>2. reservations > 1 /\ reservations' = 1
    BY <1>1, <2>1
  <2> QED BY <1>1, <2>2, Zenon
<1>3. IndexSound' /\ Beats' /\ Reserves' /\ Starting'
  <2>1. IndexSound' /\ Beats' /\ Starting'
    BY <1>1 DEF Replay, IndexSound, Beats, Starting
  <2>2. Reserves'
    BY <1>1, <1>2 DEF Reserves
  <2> QED BY <2>1, <2>2
<1>4. SameJobs /\ WithinJob /\ log \in Seq(Plan)
  BY <1>1 DEF Replay, Compacting, IndInv, Shapes
<1>5. SameJobs'
  BY <1>1, <1>4 DEF SameJobs
<1>6. BetweenJobs'
  <2> DEFINE n == Len(log) - 1
  <2>1. n \in Nat /\ n + 1 = Len(log) /\ job.plan = log[n + 1]
    BY <1>4 DEF WithinJob
  <2>2. PICK h, s : /\ Run(h, superblock, trace, beat, log, n) /\ s = h[n]
                    /\ IsEnd(s[1], 0, ManifestBlocks, job.from.base)
                    /\ s[1] = blocks_acquired \ Own(job)
                    /\ After = With(s, Own(job), BlocksOf(job.dropped), checkpoint_durable)
    BY <1>4 DEF WithinJob
  <2> HIDE DEF n
  <2>3. Done(s, log[n + 1], DurableIn(superblock, beat), After)
    <3>1. job.from \in Reservation /\ Own(job) \in SUBSET Blocks
      BY <1>1 DEF IndInv, Shapes, Job, Replay, Working, TypeOK, FreeSetTypeOK
    <3>2. /\ IsEnd(s[1], job.from.base, log[n + 1].reserve, job.from.end)
          /\ First(s[1], job.from, Own(job)) /\ Cardinality(Own(job)) = log[n + 1].acquire
      BY <1>1, <2>1, <2>2 DEF Replay, Working, IsDone
    <3>3. After = With(s, Own(job), BlocksOf(log[n + 1].release), DurableIn(superblock, beat))
      <4>1. job.dropped = log[n + 1].release
        BY <1>1, <2>1 DEF IsDone
      <4>2. With(s, Own(job), BlocksOf(job.dropped), checkpoint_durable)
              = With(s, Own(job), BlocksOf(job.dropped), DurableIn(superblock, beat))
        BY <1>4 DEF With, SameJobs
      <4> QED BY <2>2, <4>1, <4>2
    <3> QED BY <2>2, <3>1, <3>2, <3>3 DEF Done
  <2>4. \E g : Run(g, superblock, trace, beat, log, n + 1) /\ g[n + 1] = After
    BY <2>1, <2>2, <2>3, RunFurther
  <2> QED BY <1>1, <2>1, <2>4 DEF BetweenJobs, After
<1> QED BY <1>1, <1>3, <1>5, <1>6, StillRecorded, NoJob DEF Replay, Compacting

\* A beat that is executed again ends as it did.
LEMMA SameAfter ==
  ASSUME IndInv, Replay, stage = "compact", job = None, Len(log) = TreeCount, beat < Len(trace)
  PROVE  After = trace[beat + 1].after
<1>1. TreeCount \in Nat /\ beat \in superblock.beat .. Len(trace) - 1
  BY GridAssumption DEF IndInv, TypeOK, Shapes, WellFormed
<1>2. PICK g : Run(g, superblock, trace, beat, log, TreeCount) /\ g[TreeCount] = After
  BY DEF Replay, Compacting, BetweenJobs
<1>3. PICK h : Run(h, superblock, trace, beat, trace[beat + 1].log, TreeCount)
               /\ h[TreeCount] = trace[beat + 1].after
  BY <1>1 DEF Replay, Recorded
<1>4. \A j \in 1 .. TreeCount : log[j] = trace[beat + 1].log[j]
  BY DEF Replay, Compacting, SameJobs
<1> QED BY <1>1, <1>2, <1>3, <1>4, RunOnce

\* A beat that is executed for the first time is one more of the trace.
LEMMA RecordedFurther ==
  ASSUME IndInv, Replay, stage = "compact", job = None, Len(log) = TreeCount, beat = Len(trace),
         UNCHANGED superblock, trace' = Append(trace, [log |-> log, after |-> After])
  PROVE  Recorded' /\ trace'[beat + 1].after = After /\ Len(trace') = beat + 1
<1>1. /\ trace \in Seq(BeatTrace) /\ TreeCount \in Nat /\ beat \in Nat
      /\ superblock.beat \in Nat /\ superblock.beat <= beat
  BY GridAssumption DEF IndInv, TypeOK, Shapes, WellFormed
<1>2. /\ Len(trace') = beat + 1 /\ trace'[beat + 1] = [log |-> log, after |-> After]
      /\ \A k \in 1 .. Len(trace) : trace'[k] = trace[k]
  <2> DEFINE e == [log |-> log, after |-> After]
  <2> HIDE DEF e
  <2> QED BY <1>1
<1>3. ASSUME NEW k \in superblock.beat .. Len(trace)
      PROVE  Past(superblock, trace', k) = Past(superblock, trace, k)
  BY <1>1, <1>2 DEF Past
<1>4. ASSUME NEW k \in superblock.beat .. Len(trace') - 1
      PROVE  \E h : Run(h, superblock, trace', k, trace'[k + 1].log, TreeCount)
                    /\ h[TreeCount] = trace'[k + 1].after
  <2>1. CASE k = Len(trace)
    <3>1. PICK h : Run(h, superblock, trace, beat, log, TreeCount) /\ h[TreeCount] = After
      BY DEF Replay, Compacting, BetweenJobs
    <3>2. Run(h, superblock, trace', beat, log, TreeCount)
      BY <1>1, <1>3, <3>1, RunDependsOn
    <3> QED BY <1>2, <2>1, <3>1, <3>2
  <2>2. CASE k # Len(trace)
    <3>1. k \in superblock.beat .. Len(trace) - 1 /\ trace'[k + 1] = trace[k + 1]
      BY <1>1, <1>2, <2>2
    <3>2. PICK h : Run(h, superblock, trace, k, trace[k + 1].log, TreeCount)
                   /\ h[TreeCount] = trace[k + 1].after
      BY <3>1 DEF Replay, Recorded
    <3>3. Run(h, superblock, trace', k, trace[k + 1].log, TreeCount)
      BY <1>1, <1>3, <3>1, <3>2, RunDependsOn
    <3> QED BY <3>1, <3>2, <3>3
  <2> QED BY <2>1, <2>2
<1>5. Recorded'
  BY <1>4 DEF Recorded
<1>6. trace'[beat + 1].after = After
  BY <1>2
<1> QED BY <1>2, <1>5, <1>6

LEMMA CompleteBeatReplays ==
  ASSUME IndInv, Replay, CompleteBeat
  PROVE  Replay'
<1>1. PICK end \in 1 .. BlockCount :
        LET r == [base |-> 0, end |-> end] IN Renew(ManifestBlocks, r) /\ manifest' = r
  BY DEF CompleteBeat
<1>2. /\ reserved' = end /\ ~forfeiting' /\ reservations' = 1
      /\ ReservationEnd(0, ManifestBlocks) # None /\ end = ReservationEnd(0, ManifestBlocks)
      /\ manifest' = [base |-> 0, end |-> end]
      /\ UNCHANGED <<checkpoint_durable, index, blocks_acquired, blocks_released, prior>>
      /\ UNCHANGED <<job, superblock>>
      /\ stage = "compact" /\ job = None /\ Len(log) = TreeCount
      /\ beat' = beat + 1 /\ log' = <<>>
      /\ stage' = IF beat' % BeatsPerCheckpoint = 0 THEN "checkpoint" ELSE "durable"
      /\ trace' = IF beat < Len(trace) THEN trace
                  ELSE Append(trace, [log |-> log, after |-> After])
  BY <1>1 DEF CompleteBeat, Renew, blocks, durable
<1>3. /\ trace \in Seq(BeatTrace) /\ beat \in Nat /\ Len(trace) \in Nat
      /\ superblock.beat \in Nat /\ superblock.beat <= beat /\ beat <= Len(trace)
  BY GridAssumption DEF IndInv, TypeOK, Shapes, WellFormed, Replay, Beats
<1>4. /\ Recorded' /\ trace'[beat'].after = After
      /\ Len(trace') = IF beat < Len(trace) THEN Len(trace) ELSE beat + 1
  <2>1. CASE beat < Len(trace)
    BY <1>2, <2>1, SameAfter, StillRecorded DEF Replay
  <2>2. CASE beat = Len(trace)
    BY <1>2, <2>2, RecordedFurther
  <2> QED BY <1>3, <2>1, <2>2
<1>5. IndexSound' /\ Working' /\ Compacting'
  BY <1>2, SameIndex, NoJob, NotCompacting DEF Replay
<1>6. Beats'
  <2>1. beat' <= Len(trace')
    BY <1>2, <1>3, <1>4
  <2>2. ASSUME NEW k \in superblock.beat + 1 .. Len(trace') - 1
        PROVE  k % BeatsPerCheckpoint # 0
    <3>1. CASE k \in superblock.beat + 1 .. Len(trace) - 1
      BY <3>1 DEF Replay, Beats
    <3>2. CASE k = Len(trace) /\ Len(trace) = beat
      BY <1>2, <1>3, <2>2, <3>2 DEF Replay, Beats
    <3> QED BY <1>3, <1>4, <2>2, <3>1, <3>2
  <2>3. stage' = "checkpoint" => beat' = Len(trace')
    <3>1. beat' \in superblock.beat + 1 .. Len(trace') /\ Len(trace') \in Int
      BY <1>2, <1>3, <1>4, <2>1
    <3>2. stage' = "checkpoint" => beat' \notin superblock.beat + 1 .. Len(trace') - 1
      BY <1>2, <2>2
    <3> QED BY <3>1, <3>2
  <2> QED BY <1>2, <2>1, <2>2, <2>3 DEF Beats
<1>7. Reserves'
  <2>1. IsEnd(blocks_acquired, 0, ManifestBlocks, end)
    BY <1>2, ReservationIs DEF Replay
  <2> QED BY <1>2, <2>1 DEF Reserves
<1>8. Starting'
  <2>1. After' = Past(superblock, trace', beat')
    BY <1>2, <1>3, <1>4 DEF Past, After
  <2>2. checkpoint_durable <=> WasDurable(superblock, beat')
    <3>1. checkpoint_durable <=> DurableIn(superblock, beat)
      BY <1>2 DEF Replay, Compacting, SameJobs
    <3>2. beat' > superblock.beat /\ beat' - 1 = beat
      BY <1>2, <1>3
    <3> QED BY <3>1, <3>2 DEF WasDurable
  <2> QED BY <1>2, <2>1, <2>2 DEF Starting
<1> QED BY <1>4, <1>5, <1>6, <1>7, <1>8 DEF Replay

LEMMA ManifestAppendsReplays ==
  ASSUME IndInv, Replay, ManifestAppends
  PROVE  Replay'
<1>1. PICK k \in 0 .. ManifestBlocks :
        Start([reserve |-> ManifestBlocks, acquire |-> k, release |-> {}], manifest)
  BY DEF ManifestAppends
<1> DEFINE p == [reserve |-> ManifestBlocks, acquire |-> k, release |-> {}]
<1>2. /\ stage = "checkpoint" /\ job = None
      /\ job' = [plan |-> p, from |-> manifest, taken |-> <<>>, dropped |-> {}]
      /\ UNCHANGED <<index, blocks_acquired, stage, beat, superblock, trace>>
  BY <1>1 DEF ManifestAppends, Start, free_set, blocks, durable
<1>3. job' # None
  <2>1. p \in Plan /\ manifest \in Reservation
    BY <1>2, GridAssumption DEF Plan, IndInv, Stages
  <2>2. <<>> \in Seq(Addresses) /\ {} \in SUBSET Addresses
    OBVIOUS
  <2> HIDE DEF p
  <2>3. job' \in Job
    BY <1>2, <2>1, <2>2 DEF Job
  <2> QED BY <2>3, NoneAssumption
<1>4. Own(job') = {}
  <2>1. job'.taken = <<>> /\ Range(<<>>) = {}
    BY <1>2 DEF Range
  <2> QED BY <2>1 DEF Own, BlocksOf
<1>5. Working'
  <2>1. Cardinality({}) = 0 /\ Len(job'.taken) = 0
    BY <1>2, FS_EmptySet
  <2>2. First(blocks_acquired, manifest, {})
    BY DEF First
  <2>3. blocks_acquired' \ Own(job') = blocks_acquired
    BY <1>2, <1>4
  <2>4. /\ IsEnd(blocks_acquired, job'.from.base, job'.plan.reserve, job'.from.end)
        /\ First(blocks_acquired, job'.from, {})
    BY <1>2, <2>2 DEF Replay, Reserves
  <2> QED BY <1>4, <2>1, <2>3, <2>4 DEF Working
<1>6. IndexSound' /\ Beats' /\ Reserves' /\ Starting' /\ Compacting'
  BY <1>2, <1>3 DEF Replay, IndexSound, Beats, Reserves, Starting, Compacting
<1> QED BY <1>2, <1>5, <1>6, StillRecorded DEF Replay

LEMMA FlushDoneReplays ==
  ASSUME IndInv, Replay, FlushDone
  PROVE  Replay'
<1>1. /\ stage = "checkpoint" /\ stage' = "free" /\ job' = None /\ log' = <<>>
      /\ UNCHANGED <<index, blocks_acquired, beat, superblock, trace>>
  BY DEF FlushDone, Forfeit, blocks, durable
<1>2. Beats' /\ Reserves' /\ Starting'
  BY <1>1 DEF Replay, Beats, Reserves, Starting
<1> QED BY <1>1, <1>2, StillRecorded, NoJob, NotCompacting, SameIndex DEF Replay

LEMMA ForestDurableReplays ==
  ASSUME IndInv, Replay, ForestDurable
  PROVE  Replay'
<1>1. /\ stage = "free" /\ stage' \in {"encode"} \cup Panics /\ job' = None
      /\ UNCHANGED <<log, beat, superblock, trace>>
  <2>1. stage = "free" /\ stage' \in {"encode"} \cup Panics
    BY DEF ForestDurable, BecomeDurable, Panics
  <2> QED BY <2>1 DEF ForestDurable, working, IndInv, Shapes
<1>2. IndexSound'
  <2>1. CASE checkpoint_durable
    BY <2>1 DEF ForestDurable, free_set, blocks, Replay, IndexSound
  <2>2. CASE ~checkpoint_durable
    BY <2>2, FreedLeaveIndex DEF ForestDurable, BecomeDurable, Replay
  <2> QED BY <2>1, <2>2
<1>3. Beats' /\ Reserves' /\ Starting'
  BY <1>1 DEF Replay, Beats, Reserves, Starting, Panics
<1>4. stage' # "compact"
  BY <1>1 DEF Panics
<1> QED BY <1>1, <1>2, <1>3, <1>4, StillRecorded, NoJob, NotCompacting DEF Replay

LEMMA EncodeReplays ==
  ASSUME IndInv, Replay, Encode
  PROVE  Replay'
<1>1. /\ stage = "encode" /\ stage' = "encoded" /\ job' = None
      /\ UNCHANGED <<log, beat, superblock, trace>>
  BY DEF Encode, working, IndInv, Shapes
<1>2. PICK T : /\ blocks_acquired' = blocks_acquired \cup T
               /\ index' = index \cup {s \in {ShardOf(b) : b \in T} : Full(blocks_acquired', s)}
  BY DEF Encode
<1>3. IndexSound'
  BY <1>2 DEF Replay, IndexSound, Full
<1>4. Beats' /\ Reserves' /\ Starting'
  BY <1>1 DEF Replay, Beats, Reserves, Starting
<1> QED BY <1>1, <1>3, <1>4, StillRecorded, NoJob, NotCompacting DEF Replay

\* A checkpoint begins a trace of its own.
LEMMA NothingRecorded ==
  ASSUME IndInv, beat = Len(trace), superblock'.beat = beat, UNCHANGED trace
  PROVE  Recorded' /\ \A k \in superblock'.beat + 1 .. Len(trace') - 1 : k % BeatsPerCheckpoint # 0
<1>1. beat \in Nat /\ Len(trace') = beat
  BY GridAssumption DEF IndInv, TypeOK
<1>2. superblock'.beat .. Len(trace') - 1 = {} /\ superblock'.beat + 1 .. Len(trace') - 1 = {}
  BY <1>1
<1>3. Recorded'
  BY <1>2 DEF Recorded
<1> QED BY <1>2, <1>3

LEMMA CheckpointDoneReplays ==
  ASSUME IndInv, Replay, CheckpointDone
  PROVE  Replay'
<1>1. /\ stage = "superblock" /\ stage' = "durable" /\ job = None /\ job' = None
      /\ superblock' = update
      /\ UNCHANGED <<beat, log, trace>>
      /\ ~checkpoint_durable' /\ prior' = BlocksOf(update.trailers)
      /\ UNCHANGED <<index, blocks_acquired, blocks_released, reserved, reservations, forfeiting>>
  BY DEF CheckpointDone, MarkCheckpointNotDurable, working, reserving, IndInv, Shapes
<1>2. /\ blocks_acquired = update.acquired \cup BlocksOf(update.trailers)
      /\ blocks_released = update.released /\ update.beat = beat
  BY <1>1 DEF IndInv, Encoded
<1>3. beat = Len(trace) /\ log = <<>>
  BY <1>1 DEF Replay, Beats
<1>4. Recorded' /\ Beats'
  <2>1. Recorded' /\ \A k \in superblock'.beat + 1 .. Len(trace') - 1 : k % BeatsPerCheckpoint # 0
    BY <1>1, <1>2, <1>3, NothingRecorded
  <2>2. beat' <= Len(trace')
    BY <1>1 DEF Replay, Beats
  <2> QED BY <1>1, <1>2, <1>3, <2>1, <2>2 DEF Beats
<1>5. IndexSound' /\ Reserves'
  BY <1>1 DEF Replay, IndexSound, Reserves
<1>6. Starting'
  <2>1. After' = Opened(superblock')
    BY <1>1, <1>2 DEF After, Opened
  <2>2. Past(superblock', trace', beat') = Opened(superblock')
    BY <1>1, <1>2 DEF Past
  <2>3. ~WasDurable(superblock', beat')
    <3>1. beat \in Nat
      BY GridAssumption DEF IndInv, TypeOK
    <3> QED BY <1>1, <1>2, <3>1 DEF WasDurable
  <2> QED BY <1>1, <2>1, <2>2, <2>3 DEF Starting
<1>7. stage' # "compact"
  BY <1>1
<1> QED BY <1>1, <1>4, <1>5, <1>6, <1>7, NoJob, NotCompacting DEF Replay

LEMMA RestartReplays ==
  ASSUME IndInv, Replay, Restart
  PROVE  Replay'
<1> DEFINE c == superblock'
<1>1. /\ ~checkpoint_durable'
      /\ blocks_acquired' = c.acquired \cup BlocksOf(c.trailers)
      /\ blocks_released' = c.released /\ prior' = BlocksOf(c.trailers)
      /\ index' = {s \in {ShardOf(b) : b \in BlocksOf(c.trailers)} : Full(blocks_acquired', s)}
      /\ reserved' = 0 /\ reservations' = 0 /\ ~forfeiting'
      /\ beat' = c.beat /\ stage' = "open" /\ log' = <<>> /\ job' = None
      /\ UNCHANGED trace
  BY DEF Restart, OpenFreeSet
<1>2. /\ Recorded' /\ \A k \in c.beat + 1 .. Len(trace) - 1 : k % BeatsPerCheckpoint # 0
      /\ c.beat \in Nat /\ c.beat <= Len(trace)
  <2>1. CASE superblock' = superblock
    <3>1. superblock.beat \in Nat /\ superblock.beat <= beat /\ beat \in Nat /\ beat <= Len(trace)
      BY GridAssumption DEF IndInv, TypeOK, Shapes, WellFormed, Replay, Beats
    <3>2. Len(trace) \in Nat
      BY DEF IndInv, Shapes
    <3>3. Recorded'
      BY <1>1, <2>1, StillRecorded DEF Replay
    <3> QED BY <2>1, <3>1, <3>2, <3>3 DEF Replay, Beats
  <2>2. CASE stage = "superblock" /\ superblock' = update
    <3>1. update.beat = beat /\ beat = Len(trace) /\ beat \in Nat
      BY <2>2, GridAssumption DEF IndInv, Encoded, TypeOK, Replay, Beats
    <3> QED BY <1>1, <2>2, <3>1, NothingRecorded
  <2> QED BY <2>1, <2>2 DEF Restart
<1> HIDE DEF c
<1>3. IndexSound' /\ Beats' /\ Reserves'
  BY <1>1, <1>2 DEF IndexSound, Beats, Reserves, c
<1>4. Starting'
  <2>1. After' = Opened(superblock')
    BY <1>1 DEF After, Opened, c
  <2>2. Past(superblock', trace', beat') = Opened(superblock')
    BY <1>1 DEF Past, c
  <2>3. ~WasDurable(superblock', beat')
    BY <1>1, <1>2 DEF WasDurable, c
  <2> QED BY <1>1, <2>1, <2>2, <2>3 DEF Starting
<1>5. stage' # "compact"
  BY <1>1
<1> QED BY <1>1, <1>2, <1>3, <1>4, <1>5, NoJob, NotCompacting DEF Replay

\* Replay is inductive relative to IndInv.
LEMMA StepReplays == IndInv /\ Replay /\ [Next]_vars => Replay'
<1> SUFFICES ASSUME IndInv, Replay, [Next]_vars PROVE Replay'
  OBVIOUS
<1>1. CASE UNCHANGED vars
  <2>1. /\ UNCHANGED <<checkpoint_durable, index, blocks_acquired, blocks_released, prior,
                       reserved, reservations, forfeiting>>
        /\ UNCHANGED <<beat, stage, log, job, manifest, superblock, trace>>
    BY <1>1 DEF vars, free_set, blocks, reserving, working, durable
  <2>2. IndexSound' /\ Beats' /\ Reserves' /\ Working' /\ Recorded'
    BY <2>1 DEF Replay, IndexSound, Beats, Reserves, Working, Recorded
  <2>3. After' = After
    BY <2>1 DEF After
  <2>4. Starting' /\ Compacting'
    BY <2>1, <2>3 DEF Replay, Starting, Compacting, SameJobs, BetweenJobs, WithinJob
  <2> QED BY <2>2, <2>4 DEF Replay
<1>2. CASE ManifestReserves
  BY <1>2, ManifestReservesReplays
<1>3. CASE CheckpointDurableStage
  BY <1>3, CheckpointDurableStageReplays
<1>4. CASE Reconcile
  BY <1>4, ReconcileReplays
<1>5. CASE StartTree
  BY <1>5, StartTreeReplays
<1>6. CASE AcquireBlock
  BY <1>6, AcquireBlockReplays
<1>7. CASE ReleaseBlock
  BY <1>7, ReleaseBlockReplays
<1>8. CASE FinishTree
  BY <1>8, FinishTreeReplays
<1>9. CASE CompleteBeat
  BY <1>9, CompleteBeatReplays
<1>10. CASE ManifestAppends
  BY <1>10, ManifestAppendsReplays
<1>11. CASE FlushDone
  BY <1>11, FlushDoneReplays
<1>12. CASE ForestDurable
  BY <1>12, ForestDurableReplays
<1>13. CASE Encode
  BY <1>13, EncodeReplays
<1>14. CASE CheckpointDone
  BY <1>14, CheckpointDoneReplays
<1>15. CASE Restart
  BY <1>15, RestartReplays
<1> QED
  BY <1>1, <1>2, <1>3, <1>4, <1>5, <1>6, <1>7, <1>8, <1>9, <1>10, <1>11, <1>12, <1>13, <1>14, <1>15
  DEF Next

\* The second invariant: what the jobs of a beat make of the free set is a
\* function of what they do and of the free set before them.
THEOREM ReplayInvariant == Spec => []Replay
<1>1. Init => Replay
  BY InitReplays
<1>2. IndInv /\ Replay /\ [Next]_vars => Replay'
  BY StepReplays
<1> QED BY <1>1, <1>2, GridInvariant, PTL DEF Spec

\* acquire finds the first free block of a reservation though it searches only
\* shards that are not full by the index, and the reservation holds as many free
\* blocks as reserve counted, whatever else was reserved and acquired since.
THEOREM ReservationsFindTheFirst == Spec => []FirstOfItsReservation
<1>1. Replay => FirstOfItsReservation
  BY DEF Replay, Working, FirstOfItsReservation, Own, First, Free, IsEnd
<1> QED BY <1>1, ReplayInvariant, PTL

\* A replica that opened the checkpoint and executes a beat again ends it with
\* the free set that the beat ended with at first, whichever shards its index
\* takes for full and however often it crashed in between.
THEOREM StorageStaysDeterministic == Spec => []StorageIsDeterministic
<1>1. IndInv /\ Replay => StorageIsDeterministic
  BY SameAfter DEF StorageIsDeterministic
<1> QED BY <1>1, GridInvariant, ReplayInvariant, PTL
=============================================================================
