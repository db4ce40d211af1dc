------------------------------- MODULE FreeSet -------------------------------
(***************************************************************************)
(* The free set of the grid (free_set.rs): which blocks are acquired, and  *)
(* which of those are released and wait for a checkpoint to become durable *)
(* before they are free again.                                             *)
(*                                                                         *)
(* A block is a bit of the bit sets; its address is one more, as address 0 *)
(* is a sentinel.  A full shard has its bit set in the index.              *)
(***************************************************************************)
EXTENDS Integers, FiniteSets

CONSTANTS BlockCount,  \* blocks_acquired.len(), a whole number of shards
          ShardBits,   \* SHARD_BITS
          BlockLimit,  \* blocks_count_limit
          None         \* no bit, no reservation

ASSUME FreeSetAssumption ==
  /\ ShardBits \in Nat \ {0} /\ BlockCount \in Nat /\ BlockLimit \in 0 .. BlockCount
  /\ BlockCount % ShardBits = 0

Blocks    == 0 .. BlockCount - 1
Addresses == 1 .. BlockCount
Shards    == 0 .. BlockCount \div ShardBits - 1

Address(b)   == b + 1
Block(a)     == a - 1
BlocksOf(A)  == {Block(a) : a \in A}
ShardOf(b)   == b \div ShardBits
BitsOf(s)    == s * ShardBits .. (s + 1) * ShardBits - 1

VARIABLES checkpoint_durable,
          index,            \* shards taken for full
          blocks_acquired,
          blocks_released,  \* freed when the next checkpoint is durable
          prior,            \* blocks_released_prior_checkpoint_durability
          reserved,         \* reservation_blocks: bits before this one are reserved
          reservations,     \* reservation_count
          forfeiting        \* reservation_state

blocks    == <<blocks_acquired, blocks_released, prior>>
reserving == <<reserved, reservations, forfeiting>>
free_set  == <<checkpoint_durable, index, blocks, reserving>>

-----------------------------------------------------------------------------

\* find_bit: the first unset bit from lo on and before hi.
FindUnset(set, lo, hi) ==
  LET unset == (lo .. hi - 1) \ set
  IN IF unset = {} THEN None ELSE CHOOSE b \in unset : \A c \in unset : b <= c

\* find_free_block_in_shard
Full(acquired, s) == BitsOf(s) \subseteq acquired

\* The end of a reservation of n free blocks from base on, None beyond the limit.
ReservationEnd(base, n) ==
  LET shard == FindUnset(index, ShardOf(base), Cardinality(Shards))
      start == IF shard * ShardBits > base THEN shard * ShardBits ELSE base
      last  == {b \in (start .. BlockLimit - 1) \ blocks_acquired :
                  Cardinality((start .. b) \ blocks_acquired) = n}
  IN IF shard = None \/ last = {} THEN None ELSE (CHOOSE b \in last : TRUE) + 1

\* (a mutation: the first free block, whoever reserved it)
FirstOfAll(r) == FindUnset(blocks_acquired, 0, r.end)

\* acquire: the block a reservation gives next.
NextBlock(r) ==
  LET shard == FindUnset(index, ShardOf(r.base), ShardOf(r.end - 1) + 1)
      start == IF shard * ShardBits > r.base THEN shard * ShardBits ELSE r.base
  IN IF shard = None THEN None ELSE FindUnset(blocks_acquired, start, r.end)

-----------------------------------------------------------------------------

\* new, and open without a checkpoint
FreeSetInit ==
  /\ checkpoint_durable = FALSE
  /\ index = {}
  /\ blocks_acquired = {} /\ blocks_released = {} /\ prior = {}
  /\ reserved = 0 /\ reservations = 0 /\ forfeiting = FALSE

\* reserve(n), which returns the reservation r.
Reserve(n, r) ==
  /\ ~forfeiting
  /\ ReservationEnd(reserved, n) # None
  /\ r = [base |-> reserved, end |-> ReservationEnd(reserved, n)]
  /\ reserved' = r.end
  /\ reservations' = reservations + 1
  /\ UNCHANGED <<checkpoint_durable, index, blocks, forfeiting>>

\* forfeit: the reservations are all forfeited before there is another one.
Forfeit ==
  /\ reservations > 0
  /\ reservations' = reservations - 1
  /\ reserved' = IF reservations = 1 THEN 0 ELSE reserved
  /\ forfeiting' = (reservations > 1)
  /\ UNCHANGED <<checkpoint_durable, index, blocks>>

\* The last reservation is forfeited, and another of n blocks made, which is r.
Renew(n, r) ==
  /\ reservations = 1
  /\ ReservationEnd(0, n) # None
  /\ r = [base |-> 0, end |-> ReservationEnd(0, n)]
  /\ reserved' = r.end
  /\ forfeiting' = FALSE
  /\ UNCHANGED <<checkpoint_durable, index, blocks, reservations>>

\* acquire from reservation r, which returns the address of block b.
Acquire(r, b) ==
  /\ reservations > 0
  /\ b = NextBlock(r) /\ b # None
  /\ blocks_acquired' = blocks_acquired \cup {b}
  /\ index' = IF Full(blocks_acquired', ShardOf(b)) THEN index \cup {ShardOf(b)} ELSE index
  /\ UNCHANGED <<checkpoint_durable, blocks_released, prior, reserving>>

\* release
Release(a) ==
  /\ Block(a) \in blocks_acquired \ (blocks_released \cup prior)
  /\ IF checkpoint_durable
     THEN blocks_released' = blocks_released \cup {Block(a)} /\ UNCHANGED prior
     ELSE prior' = prior \cup {Block(a)} /\ UNCHANGED blocks_released
  /\ UNCHANGED <<checkpoint_durable, index, blocks_acquired, reserving>>

\* (a mutation: what is released is free once the superblock is written)
FreesReleased(A) ==
  /\ checkpoint_durable /\ prior = {}
  /\ checkpoint_durable' = FALSE
  /\ blocks_acquired' = blocks_acquired \ blocks_released
  /\ index' = index \ {ShardOf(b) : b \in blocks_released}
  /\ blocks_released' = {} /\ prior' = BlocksOf(A)
  /\ UNCHANGED reserving

\* mark_checkpoint_not_durable, and the release of the blocks A that hold the
\* encoded free set (grid.rs).
MarkCheckpointNotDurable(A) ==
  /\ checkpoint_durable /\ prior = {}
  /\ checkpoint_durable' = FALSE
  /\ prior' = BlocksOf(A)
  /\ UNCHANGED <<index, blocks_acquired, blocks_released, reserving>>

\* (a mutation: what was released since the checkpoint is freed as well)
FreesAll ==
  /\ ~checkpoint_durable
  /\ checkpoint_durable' = TRUE
  /\ blocks_acquired' = blocks_acquired \ (blocks_released \cup prior)
  /\ index' = index \ {ShardOf(b) : b \in blocks_released \cup prior}
  /\ blocks_released' = {} /\ prior' = {}
  /\ UNCHANGED reserving

\* (a mutation: what was released since the checkpoint is left where it is)
KeepsPrior ==
  /\ ~checkpoint_durable
  /\ checkpoint_durable' = TRUE
  /\ blocks_acquired' = blocks_acquired \ blocks_released
  /\ index' = index \ {ShardOf(b) : b \in blocks_released}
  /\ blocks_released' = {}
  /\ UNCHANGED <<prior, reserving>>

\* mark_checkpoint_durable: what was released before the checkpoint is free.
MarkCheckpointDurable ==
  /\ ~checkpoint_durable
  /\ checkpoint_durable' = TRUE
  /\ blocks_acquired' = blocks_acquired \ blocks_released
  /\ index' = index \ {ShardOf(b) : b \in blocks_released}
  /\ blocks_released' = prior
  /\ prior' = {}
  /\ UNCHANGED reserving

\* free asserts that nothing is reserved.
MayFree == blocks_released # {} => reservations = 0 /\ reserved = 0

\* verify_index
IndexIsExact == index = {s \in Shards : Full(blocks_acquired, s)}

\* (a mutation: the blocks of the encoded sets are not released)
OpensWithoutTrailers(acquired, released, A) ==
  /\ checkpoint_durable' = FALSE
  /\ blocks_acquired' = acquired \cup BlocksOf(A)
  /\ blocks_released' = released
  /\ prior' = {}
  /\ index' = {s \in {ShardOf(b) : b \in BlocksOf(A)} : Full(blocks_acquired', s)}
  /\ reserved' = 0 /\ reservations' = 0 /\ forfeiting' = FALSE

\* open: the sets that a checkpoint encoded, and the blocks A that hold them.
\* The index is only updated for the shards of A.
OpenFreeSet(acquired, released, A) ==
  /\ checkpoint_durable' = FALSE
  /\ blocks_acquired' = acquired \cup BlocksOf(A)
  /\ blocks_released' = released
  /\ prior' = BlocksOf(A)
  /\ index' = {s \in {ShardOf(b) : b \in BlocksOf(A)} : Full(blocks_acquired', s)}
  /\ reserved' = 0 /\ reservations' = 0 /\ forfeiting' = FALSE

\* FreeSetTypeOK: the type invariant of the free set.
FreeSetTypeOK ==
  /\ checkpoint_durable \in BOOLEAN
  /\ index \subseteq Shards
  /\ blocks_acquired \subseteq Blocks
  /\ blocks_released \subseteq blocks_acquired
  /\ prior \subseteq blocks_acquired \ blocks_released
  /\ reserved \in 0 .. BlockCount
  /\ reservations \in Nat
  /\ forfeiting \in BOOLEAN
=============================================================================
