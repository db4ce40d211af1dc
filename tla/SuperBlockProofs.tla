-------------------------- MODULE SuperBlockProofs --------------------------
(* A superblock survives its crashes and one fault, for every number of     *)
(* views, checkpoints and crashes.                                          *)
EXTENDS SuperBlock, Extremes, SequenceTheorems, TLAPS

-----------------------------------------------------------------------------
(* Sequences and slots *)

H == Copies \div 2

\* The thresholds of open() and of verify, in halves of the copies.
LEMMA Halves == /\ H \in {2, 3, 4} /\ Copies = 2 * H /\ Slots = 0 .. 2 * H - 1
                /\ Threshold("open") = H /\ Threshold("verify") = H + 1
BY CopiesAssumption DEF H, Slots, Threshold

\* What append, Front and Last say of each other.
LEMMA Appended ==
  ASSUME NEW c \in Seq(States), NEW x \in States
  PROVE  /\ Append(c, x) \in Seq(States) /\ Len(Append(c, x)) = Len(c) + 1
         /\ Append(c, x) # <<>> /\ Append(c, x) # c
         /\ Front(Append(c, x)) = c /\ Last(Append(c, x)) = x
         /\ \A i \in 1 .. Len(c) : Append(c, x)[i] = c[i]
<1>1. /\ Append(c, x) \in Seq(States) /\ Len(Append(c, x)) = Len(c) + 1
      /\ Last(Append(c, x)) = x
      /\ \A i \in 1 .. Len(c) : Append(c, x)[i] = c[i]
  BY DEF Last
<1>2. Front(Append(c, x)) = c
  BY <1>1 DEF Front
<1> QED BY <1>1, <1>2

\* The last element of a sequence, and what comes before it.
LEMMA NotEmpty ==
  ASSUME NEW c \in Seq(States), c # <<>>
  PROVE  /\ Len(c) \in Nat /\ Len(c) >= 1 /\ Last(c) \in States
         /\ Front(c) \in Seq(States) /\ Len(Front(c)) = Len(c) - 1
         /\ \A i \in 1 .. Len(c) - 1 : Front(c)[i] = c[i]
<1>1. Len(c) \in Nat /\ Len(c) >= 1
  OBVIOUS
<1>2. Last(c) \in States
  BY <1>1 DEF Last
<1>3. /\ Front(c) \in Seq(States) /\ Len(Front(c)) = Len(c) - 1
      /\ \A i \in 1 .. Len(c) - 1 : Front(c)[i] = c[i]
  <2>1. 1 \in Int /\ Len(c) - 1 \in Int /\ \A i \in 1 .. Len(c) - 1 : c[i] \in States
    BY <1>1
  <2>2. /\ SubSeq(c, 1, Len(c) - 1) \in Seq(States)
        /\ Len(SubSeq(c, 1, Len(c) - 1)) = IF 1 <= Len(c) - 1 THEN Len(c) - 1 - 1 + 1 ELSE 0
        /\ \A i \in 1 .. Len(c) - 1 - 1 + 1 : SubSeq(c, 1, Len(c) - 1)[i] = c[1 + i - 1]
    BY <2>1, SubSeqProperties
  <2> DEFINE f == SubSeq(c, 1, Len(c) - 1)
             n == Len(c)
  <2>6. n \in Nat /\ n >= 1 /\ Front(c) = f
    BY <1>1 DEF Front
  <2>7. /\ f \in Seq(States) /\ Len(f) = IF 1 <= n - 1 THEN n - 1 - 1 + 1 ELSE 0
        /\ \A i \in 1 .. n - 1 - 1 + 1 : f[i] = c[1 + i - 1]
    BY <2>2
  <2> HIDE DEF f, n
  <2>3. Front(c) \in Seq(States)
    BY <2>6, <2>7
  <2>4. Len(Front(c)) = n - 1
    BY <2>6, <2>7
  <2>5. \A i \in 1 .. n - 1 : Front(c)[i] = c[i]
    <3>1. \A i \in 1 .. n - 1 : i \in 1 .. n - 1 - 1 + 1 /\ 1 + i - 1 = i
      BY <2>6
    <3> QED BY <2>6, <2>7, <3>1
  <2> USE DEF n
  <2> QED BY <2>3, <2>4, <2>5
<1> QED BY <1>1, <1>2, <1>3

\* A set of slots is finite.
LEMMA SlotSets ==
  ASSUME NEW A \in SUBSET Slots
  PROVE  IsFiniteSet(A) /\ Cardinality(A) \in Nat /\ Cardinality(A) <= 2 * H
<1>1. H \in Nat /\ Slots = 0 .. 2 * H - 1 /\ 0 \in Int /\ 2 * H - 1 \in Int /\ 2 * H - 1 >= 0
  BY Halves
<1>2. IsFiniteSet(Slots) /\ Cardinality(Slots) = 2 * H
  BY <1>1, FS_Interval
<1> QED BY <1>2, FS_Subset, FS_CardinalityType

\* Two sets that miss one slot between them: one of them is a half.
LEMMA OneIsHalf ==
  ASSUME NEW A \in SUBSET Slots, NEW D \in SUBSET Slots, NEW x,
         Slots \ {x} \subseteq A \cup D
  PROVE  Cardinality(A) >= H \/ Cardinality(D) >= H
<1>1. H \in Nat /\ Slots = 0 .. 2 * H - 1 /\ 2 * H - 1 >= 0
  BY Halves
<1>2. IsFiniteSet(Slots) /\ Cardinality(Slots) = 2 * H
  BY <1>1, FS_Interval
<1>3. IsFiniteSet(Slots \ {x}) /\ Cardinality(Slots \ {x}) >= 2 * H - 1
  <2>1. /\ IsFiniteSet(Slots \ {x})
        /\ Cardinality(Slots \ {x}) = IF x \in Slots THEN Cardinality(Slots) - 1 ELSE Cardinality(Slots)
    BY <1>2, FS_RemoveElement
  <2> QED BY <1>1, <1>2, <2>1
<1>4. IsFiniteSet(A) /\ IsFiniteSet(D) /\ Cardinality(A) \in Nat /\ Cardinality(D) \in Nat
  BY SlotSets
<1>5. /\ IsFiniteSet(A \cup D)
      /\ Cardinality(A \cup D) = Cardinality(A) + Cardinality(D) - Cardinality(A \cap D)
  BY <1>4, FS_Union
<1>6. Cardinality(A \cap D) \in Nat
  BY <1>4, FS_Intersection, FS_CardinalityType
<1>7. Cardinality(Slots \ {x}) <= Cardinality(A \cup D)
  BY <1>3, <1>5, FS_Subset
<1>8. Cardinality(Slots \ {x}) \in Nat
  BY <1>3, FS_CardinalityType
<1>9. Cardinality(A) + Cardinality(D) >= 2 * H - 1
  BY <1>1, <1>3, <1>4, <1>5, <1>6, <1>7, <1>8
<1> QED BY <1>1, <1>4, <1>9

\* A set that misses one slot is a quorum for verify.
LEMMA AllButOne ==
  ASSUME NEW A \in SUBSET Slots, NEW x, Slots \ {x} \subseteq A
  PROVE  Cardinality(A) >= H + 1
<1>1. H \in Nat /\ Slots = 0 .. 2 * H - 1 /\ 2 * H - 1 >= H + 1
  BY Halves
<1>2. IsFiniteSet(Slots) /\ Cardinality(Slots) = 2 * H
  BY <1>1, FS_Interval
<1>3. IsFiniteSet(Slots \ {x}) /\ Cardinality(Slots \ {x}) >= 2 * H - 1
  <2>1. /\ IsFiniteSet(Slots \ {x})
        /\ Cardinality(Slots \ {x}) = IF x \in Slots THEN Cardinality(Slots) - 1 ELSE Cardinality(Slots)
    BY <1>2, FS_RemoveElement
  <2> QED BY <1>1, <1>2, <2>1
<1>4. IsFiniteSet(A) /\ Cardinality(A) \in Nat
  BY SlotSets
<1>7. Cardinality(Slots \ {x}) <= Cardinality(A)
  BY <1>3, <1>4, FS_Subset
<1>8. Cardinality(Slots \ {x}) \in Nat
  BY <1>3, FS_CardinalityType
<1> QED BY <1>1, <1>3, <1>4, <1>7, <1>8

\* The first n slots are n.
LEMMA FirstSlots ==
  ASSUME NEW n \in Nat, NEW A \in SUBSET Slots, A \subseteq 0 .. n - 1
  PROVE  Cardinality(A) <= n
<1>1. IsFiniteSet(0 .. n - 1) /\ Cardinality(0 .. n - 1) = n
  BY FS_Interval
<1> QED BY <1>1, FS_Subset

-----------------------------------------------------------------------------
(* What the slots hold *)

\* What a write of c to slot s leaves there; nothing was written before format.
Holds(c, s) == IF c = <<>> THEN Faulty ELSE [chain |-> c, copy |-> s]

Legal(x) == x \in States /\ x.log_view <= x.view

Chain(c) == /\ c \in Seq(States)
            /\ \A i \in 1 .. Len(c) : Legal(c[i])
            /\ \A i \in 1 .. Len(c) - 1 : Monotonic(c[i], c[i + 1])

\* S is what was promised, P what is being written: the same or the next.
Pair(S, P) == /\ Chain(S) /\ Chain(P) /\ P # <<>>
              /\ P = S \/ (Len(P) = Len(S) + 1 /\ Front(P) = S)

\* The header in slot k was never promised: it was left out when open() chose S.
Outcast(r, k, S, P) == /\ Len(r[k].chain) = Len(S) + 1 /\ k <= H - 2
                       /\ P # S => Holders(r, P) \subseteq 0 .. k - 1

\* What an older write may have left in a slot that missed its last one.
Content(r, a, S, P) == r[a].chain \in {S, P, Front(S)} \/ Outcast(r, a, S, P)

\* A slot outside B holds S or P.  Slot a missed its last write, which is what
\* another slot of B got, or decayed.
FitsAt(r, B, S, P, a) ==
  /\ \A s \in Slots \ B : r[s] \in {Holds(S, s), Holds(P, s)}
  /\ \E b \in Slots : B \subseteq {a, b}
  /\ \A b \in B \ {a} : r[b] \in {Holds(S, a), Holds(P, a)}
  /\ a \in B /\ r[a] # Faulty => Content(r, a, S, P)

Fits(r, B, S, P) == \E a \in Slots : FitsAt(r, B, S, P, a)

\* The same, while P is written over S and n slots have been passed.
PassedAt(r, B, S, P, n, a) ==
  /\ \A s \in Slots \ B : r[s] = Holds(IF s < n THEN P ELSE S, s)
  /\ \E b \in Slots : B \subseteq {a, b}
  /\ \A b \in B \ {a} : r[b] = Holds(P, a) \/ (n <= a /\ n <= b /\ r[b] = Holds(S, a))
  /\ a \in B /\ r[a] # Faulty => IF a < n THEN r[a].chain \in {S, P} ELSE Content(r, a, S, P)

Passed(r, B, S, P, n) == \E a \in Slots : PassedAt(r, B, S, P, n, a)

On(r, B, c) == {s \in Slots \ B : r[s] # Faulty /\ r[s].chain = c}

\* Without a fault (F = 0) only a torn write is bad, and P is in the first
\* slots, too few to be chosen, or in enough to be chosen.
Early(r, B, S, P, F) ==
  F = 0 => /\ \A s \in B : r[s] = Faulty
           /\ P # S => On(r, B, P) \subseteq 0 .. H - 2 \/ Cardinality(On(r, B, P)) >= H

\* What a process that is not writing, or repairing, has on disk.
Resting(r, B, S, P, F) == Fits(r, B, S, P) /\ Early(r, B, S, P, F)

\* The repair of slot s with w was lost, and s still holds the other header.
Lost(r, B, s, w, S, P) ==
  /\ r[s].chain \in {S, P} /\ (w = S => s <= H - 2)
  /\ \A t \in B \ {s} : r[t] = Holds(w, s)

\* open() has found w, and holds the slots of D for repaired.
Mended(r, B, D, w, S, P, F) ==
  /\ w \in {S, P}
  /\ Resting(r, B, S, P, F)
  /\ \A s \in D : \/ r[s] # Faulty /\ r[s].chain = w
                  \/ s \in B /\ (r[s] = Faulty \/ Lost(r, B, s, w, S, P))
  /\ F = 0 => \A s \in Slots : s \in D <=> s \in On(r, B, w)
  /\ F = 0 /\ P # S => IF w = S THEN On(r, B, P) \subseteq 0 .. H - 2
                       ELSE Cardinality(On(r, B, P)) >= H
  /\ (\E s \in B : r[s] # Faulty /\ r[s].chain \notin {S, P, Front(S)}) => w = S

-----------------------------------------------------------------------------
(* What the memory holds *)

AtMost(x, v, l) == x.view <= v /\ x.log_view <= l

\* An update that waits was computed from the one in flight, and is of the
\* other kind.
Queued(m, v, l) ==
  LET x == m.tail.state
      y == Last(m.staging)
  IN /\ {m.tail.caller, m.head.caller} = {"checkpoint", "view_change"}
     /\ Legal(x) /\ WouldBeUpdatedBy(y, x) /\ AtMost(x, v, l)
     /\ IF m.tail.caller = "checkpoint" THEN x.view = y.view /\ x.log_view = y.log_view
        ELSE x.op = y.op

\* The memory of a replica that has opened its superblock.
Serving(m, v, l) ==
  /\ m \in Memories /\ m.opened /\ ~m.panicked
  /\ Pair(m.working, m.staging) /\ m.working # <<>>
  /\ AtMost(Last(m.staging), v, l)
  /\ m.head = Idle => m.tail = Idle /\ m.staging = m.working
  /\ m.head # Idle => /\ m.head.caller \in {"checkpoint", "view_change"}
                      /\ m.head.phase \in {"write", "verify"}
                      /\ m.staging # m.working
  /\ m.tail # Idle => Queued(m, v, l)

Formatting(m) ==
  /\ m \in Memories /\ ~m.opened /\ ~m.panicked
  /\ m.head # Idle /\ m.head.caller = "format" /\ m.head.phase \in {"write", "verify"}
  /\ m.tail = Idle /\ m.working = <<>> /\ m.staging = <<Root>>

\* How many slots the update has passed.
Progress(m) == IF m.head.phase = "write" THEN m.head.copy ELSE Copies

\* What the reading will find if no slot decays meanwhile.
Merge(r, n, q) == [s \in Slots |-> IF s < n THEN q[s] ELSE r[s]]

Merged(r, m) == Merge(r, m.head.copy, m.reading)

\* A slot has decayed since it was read, or has not.
Reads(r, q, B, F) ==
  \A s \in Slots : \/ r[s] = q[s]
                   \/ /\ F = 1 /\ B = {s} /\ q[s] # Faulty
                      /\ r[s] = Faulty \/ r[s].chain = q[s].chain

\* open() reads the slots.
Finding(m, r, B, S, P, F) ==
  /\ m \in Memories /\ ~m.opened /\ ~m.panicked /\ m.tail = Idle
  /\ m.head # Idle /\ m.head.caller = "open" /\ m.head.phase = "open"
  /\ Resting(r, B, S, P, F)
  /\ Reads(r, Merged(r, m), B, F)
  /\ Fits(Merged(r, m), B, S, P)

\* The slots that open() holds for repaired.
Repaired(m) == {s \in Slots : m.head.slots[s] # None} \ {m.head.copy}

\* open() repairs them.
Mending(m, r, B, S, P, F) ==
  /\ m \in Memories /\ ~m.opened /\ ~m.panicked /\ m.tail = Idle
  /\ m.head # Idle /\ m.head.caller = "open" /\ m.head.phase = "repair"
  /\ m.staging = m.working
  /\ m.head.slots[m.head.copy] = m.head.copy
  /\ F = 0 => \A s \in Slots : m.head.slots[s] \in {s, None}
  /\ Mended(r, B, Repaired(m), m.working, S, P, F)

\* format() or a replica that serves writes, and verifies.
Overwriting(m, v, l, r, B, F) ==
  /\ Formatting(m) \/ Serving(m, v, l)
  /\ m.head # Idle
  /\ F = 0 => B = {}
  /\ Passed(r, B, m.working, m.staging, Progress(m))
  /\ m.head.phase = "verify" => Passed(Merged(r, m), B, m.working, m.staging, Copies)

\* A replica that serves has nothing to write.
Waiting(m, v, l, r, B, F) ==
  /\ Serving(m, v, l) /\ m.head = Idle
  /\ F = 0 => B = {}
  /\ Passed(r, B, m.working, m.working, 0)

-----------------------------------------------------------------------------
(* The inductive invariant: one disjunct per stage of the process *)

Quiet == Resting(disk, bad, stable, pending, faults)

Stopped == sb = Closed /\ view = 0 /\ log_view = 0 /\ (stable # <<>> => Quiet)

\* format() is done.
Blank == /\ sb \in Memories /\ sb.head = Idle /\ sb.tail = Idle /\ ~sb.opened /\ ~sb.panicked
         /\ stable # <<>> /\ Quiet

Opening == stable # <<>> /\ Finding(sb, disk, bad, stable, pending, faults)

Repairing == stable # <<>> /\ Mending(sb, disk, bad, stable, pending, faults)

Updates == /\ stable = sb.working /\ pending = sb.staging
           /\ Overwriting(sb, view, log_view, disk, bad, faults)

Rests == /\ stable = sb.working /\ pending = sb.staging
         /\ Waiting(sb, view, log_view, disk, bad, faults)

IInv == /\ TypeOK
        /\ stable = <<>> => pending \in {<<>>, <<Root>>}
        /\ stable # <<>> => Pair(stable, pending)
        /\ Stopped \/ Blank \/ Opening \/ Repairing \/ Updates \/ Rests

-----------------------------------------------------------------------------
(* Quorums *)

\* There are at most as many copies as slots that hold one.
LEMMA CopiesCounted ==
  ASSUME NEW r, NEW c
  PROVE  /\ CopiesOf(r, c) \in SUBSET Slots /\ Holders(r, c) \in SUBSET Slots
         /\ Cardinality(CopiesOf(r, c)) \in Nat
         /\ Cardinality(CopiesOf(r, c)) <= Cardinality(Holders(r, c))
<1> DEFINE f == [s \in Holders(r, c) |-> CopyOf(r, s)]
<1>1. CopiesOf(r, c) \in SUBSET Slots /\ Holders(r, c) \in SUBSET Slots
  BY DEF CopiesOf, CopyOf, Holders
<1>2. IsFiniteSet(Holders(r, c))
  BY <1>1, SlotSets
<1>3. f \in Surjection(Holders(r, c), CopiesOf(r, c))
  BY DEF CopiesOf, Surjection
<1>4. Cardinality(CopiesOf(r, c)) <= Cardinality(Holders(r, c))
  BY <1>2, <1>3, FS_Surjection
<1> QED BY <1>1, <1>4, SlotSets

\* A header that is a quorum, the longest of those that are, and that no other
\* header contradicts, is the one that working returns.
LEMMA Wins ==
  ASSUME NEW r, NEW t, NEW w, w \in Found(r), w # NoQuorum, Valid(r, t, w), Len(w) \in Int,
         \A c \in Found(r) \ {w} : Valid(r, t, c) => Len(c) \in Int /\ Len(c) < Len(w),
         \A c \in Rivals(r, w) : ~Conflict(c, w)
  PROVE  Working(r, t) = {w}
<1>1. \A c : Cardinality(CopiesOf(r, c)) \in Nat
  BY CopiesCounted
<1>2. \A d \in Found(r) : Precedes(r, t, w, d)
  BY <1>1 DEF Precedes
<1>3. \A c \in Found(r) : Precedes(r, t, c, w) => c = w
  BY <1>1 DEF Precedes
<1>4. First(r, t, Found(r)) = {w}
  BY <1>2, <1>3 DEF First
<1>5. \A a \in First(r, t, Rivals(r, w)) : ~Conflict(a, w)
  BY DEF First
<1>6. {b \in First(r, t, Found(r)) :
         Valid(r, t, b) /\ \A a \in First(r, t, Rivals(r, b)) : ~Conflict(a, b)} = {w}
  BY <1>4, <1>5
<1> QED BY <1>6 DEF Working

-----------------------------------------------------------------------------
(* Chains and headers *)

\* A slot that was written holds a valid header.
LEMMA Held ==
  ASSUME NEW c \in Seq(States), NEW s \in Slots, c # <<>>
  PROVE  /\ Holds(c, s) \in Headers /\ Holds(c, s) # Faulty
         /\ Holds(c, s).chain = c /\ Holds(c, s).copy = s
<1>1. s \in CopyIndexes
  BY Halves DEF CopyIndexes
<1>2. Holds(c, s) = [chain |-> c, copy |-> s]
  BY DEF Holds
<1>3. Holds(c, s) \in Headers
  BY <1>1, <1>2 DEF Headers
<1> QED BY <1>2, <1>3, DistinctAssumption

\* What a slot can hold.
LEMMA Placed ==
  ASSUME NEW r \in Disks, NEW s \in Slots, r[s] # Faulty
  PROVE  /\ r[s] \in Headers /\ r[s].chain \in Seq(States) /\ r[s].chain # <<>>
         /\ r[s].copy \in CopyIndexes
BY DEF Disks, Headers

\* A header does not contradict the one whose parent it is.
LEMMA Connected ==
  ASSUME NEW a, NEW b, Chain(a), Chain(b), a # <<>>, Len(b) = Len(a) + 1, Front(b) = a
  PROVE  ~Conflict(a, b)
<1>1. a \in Seq(States) /\ b \in Seq(States) /\ Len(a) \in Nat /\ Len(b) \in Nat
  BY DEF Chain
<1>2. Len(a) >= 1 /\ b # <<>>
  BY <1>1
<1>3. Last(a) = b[Len(a)]
  <2>1. a[Len(a)] = b[Len(a)]
    BY <1>1, <1>2, NotEmpty
  <2> QED BY <2>1 DEF Last
<1>4. Last(b) = b[Len(a) + 1]
  BY DEF Last
<1>5. Monotonic(b[Len(a)], b[Len(a) + 1])
  BY <1>1, <1>2 DEF Chain
<1> QED BY <1>1, <1>3, <1>4, <1>5 DEF Conflict

\* The parent of a promised header, and of the one that is being written.
LEMMA Parents ==
  ASSUME NEW c, Chain(c), c # <<>>
  PROVE  /\ c \in Seq(States) /\ Len(c) \in Nat /\ Len(c) >= 1 /\ Chain(Front(c))
         /\ Len(Front(c)) = Len(c) - 1 /\ Legal(Last(c))
         /\ Front(c) # <<>> => ~Conflict(Front(c), c)
<1>1. c \in Seq(States)
  BY DEF Chain
<1>2. /\ Len(c) \in Nat /\ Len(c) >= 1 /\ Front(c) \in Seq(States) /\ Len(Front(c)) = Len(c) - 1
      /\ \A i \in 1 .. Len(c) - 1 : Front(c)[i] = c[i]
  BY <1>1, NotEmpty
<1>3. Chain(Front(c))
  <2>1. \A i \in 1 .. Len(Front(c)) : Legal(Front(c)[i])
    BY <1>2 DEF Chain
  <2>2. \A i \in 1 .. Len(Front(c)) - 1 : Monotonic(Front(c)[i], Front(c)[i + 1])
    <3>1. ASSUME NEW i \in 1 .. Len(Front(c)) - 1
          PROVE  /\ i \in 1 .. Len(c) - 1 /\ i + 1 \in 1 .. Len(c) - 1
      BY <1>2
    <3> QED BY <3>1, <1>2 DEF Chain
  <2> QED BY <1>2, <2>1, <2>2 DEF Chain
<1>4. Legal(Last(c))
  BY <1>2 DEF Chain, Last
<1>5. Front(c) # <<>> => ~Conflict(Front(c), c)
  BY <1>2, <1>3, Connected
<1> QED BY <1>1, <1>2, <1>3, <1>4, <1>5

\* An update extends the chain of what was promised.
LEMMA Extended ==
  ASSUME NEW c, Chain(c), NEW x, Legal(x), c # <<>> => Monotonic(Last(c), x)
  PROVE  Pair(c, Append(c, x)) /\ Append(c, x) # c /\ Last(Append(c, x)) = x
<1> DEFINE d == Append(c, x)
<1>1. c \in Seq(States) /\ x \in States /\ Len(c) \in Nat
  BY DEF Chain, Legal
<1>2. /\ d \in Seq(States) /\ Len(d) = Len(c) + 1 /\ d # <<>> /\ d # c
      /\ Front(d) = c /\ Last(d) = x /\ \A i \in 1 .. Len(c) : d[i] = c[i]
  BY <1>1, Appended
<1> HIDE DEF d
<1>3. d[Len(c) + 1] = x
  BY <1>2 DEF Last
<1>4. Chain(d)
  <2>1. \A i \in 1 .. Len(d) : Legal(d[i])
    <3>1. \A i \in 1 .. Len(c) : Legal(d[i])
      BY <1>2 DEF Chain
    <3>2. \A i \in 1 .. Len(d) : i \in 1 .. Len(c) \/ i = Len(c) + 1
      BY <1>1, <1>2
    <3> QED BY <3>1, <3>2, <1>3
  <2>2. ASSUME NEW i \in 1 .. Len(d) - 1
        PROVE  Monotonic(d[i], d[i + 1])
    <3>1. \/ i \in 1 .. Len(c) - 1 /\ i \in 1 .. Len(c) /\ i + 1 \in 1 .. Len(c)
          \/ i = Len(c) /\ Len(c) >= 1
      BY <1>1, <1>2
    <3>2. CASE i \in 1 .. Len(c) - 1 /\ i \in 1 .. Len(c) /\ i + 1 \in 1 .. Len(c)
      BY <3>2, <1>2 DEF Chain
    <3>3. CASE i = Len(c) /\ Len(c) >= 1
      <4>1. c # <<>> /\ i \in 1 .. Len(c)
        BY <3>3, <1>1
      <4>2. d[i] = Last(c) /\ d[i + 1] = x
        BY <3>3, <4>1, <1>2, <1>3 DEF Last
      <4> QED BY <4>1, <4>2
    <3> QED BY <3>1, <3>2, <3>3
  <2> QED BY <1>2, <2>1, <2>2 DEF Chain
<1>5. Pair(c, d) /\ d # c /\ Last(d) = x
  BY <1>2, <1>4 DEF Pair
<1> QED BY <1>5 DEF d

-----------------------------------------------------------------------------
(* What open() chooses, and verify finds *)

\* One slot holds at most one copy.
LEMMA Singles ==
  ASSUME NEW r, NEW c, NEW a, Holders(r, c) \subseteq {a}
  PROVE  Cardinality(CopiesOf(r, c)) \in Nat /\ Cardinality(CopiesOf(r, c)) <= 1
<1>1. IsFiniteSet({a}) /\ Cardinality({a}) = 1
  BY FS_Singleton
<1>2. Cardinality(Holders(r, c)) <= 1 /\ Cardinality(Holders(r, c)) \in Nat
  BY <1>1, FS_Subset, CopiesCounted, SlotSets
<1> QED BY <1>2, CopiesCounted

\* A copy in slot s, of index x, is counted as copy x.
LEMMA Counted ==
  ASSUME NEW r, NEW c \in Seq(States), c # <<>>, NEW s \in Slots, NEW x \in Slots,
         r[s] = Holds(c, x)
  PROVE  s \in Holders(r, c) /\ x \in CopiesOf(r, c)
<1>1. r[s] # Faulty /\ r[s].chain = c /\ r[s].copy = x
  BY Held
<1>2. s \in Holders(r, c) /\ CopyOf(r, s) = x
  BY <1>1 DEF Holders, CopyOf
<1> QED BY <1>2 DEF CopiesOf

\* A header that is counted was found.
LEMMA Present ==
  ASSUME NEW r, NEW c, Cardinality(CopiesOf(r, c)) >= 1
  PROVE  c \in Found(r)
<1>1. CASE CopiesOf(r, c) = {}
  <2>1. Cardinality(CopiesOf(r, c)) = 0
    BY <1>1, FS_EmptySet
  <2> QED BY <2>1
<1>2. CASE CopiesOf(r, c) # {}
  BY <1>2 DEF CopiesOf, Holders, Found
<1> QED BY <1>1, <1>2

\* open() takes what is being written when there are enough copies of it, else
\* what was promised.
LEMMA Chosen ==
  ASSUME NEW r \in Disks, NEW B, NEW S, NEW P, Pair(S, P), S # <<>>, Fits(r, B, S, P)
  PROVE  /\ Working(r, "open") = {IF Valid(r, "open", P) THEN P ELSE S}
         /\ (\E s \in B : r[s] # Faulty /\ r[s].chain \notin {S, P, Front(S)})
               => P = S \/ ~Valid(r, "open", P)
<1>1. PICK a \in Slots : FitsAt(r, B, S, P, a)
  BY DEF Fits
<1>2. /\ S \in Seq(States) /\ P \in Seq(States) /\ Len(S) \in Nat /\ Len(S) >= 1
      /\ Len(P) \in Nat /\ Len(Front(S)) = Len(S) - 1 /\ P # <<>>
      /\ P = S \/ (Len(P) = Len(S) + 1 /\ Front(P) = S)
      /\ Front(S) # <<>> => ~Conflict(Front(S), S)
  BY Parents DEF Pair
<1>3. P # S => ~Conflict(S, P)
  BY <1>2, Connected DEF Pair
<1>4. ASSUME NEW s \in Slots, r[s] # Faulty
      PROVE  r[s].chain \in {S, P, Front(S)} \/ (s = a /\ s \in B /\ Outcast(r, a, S, P))
  <2>1. CASE s \notin B
    BY <2>1, <1>1, <1>2, <1>4, Held DEF FitsAt
  <2>2. CASE s \in B /\ s # a
    BY <2>2, <1>1, <1>2, <1>4, Held DEF FitsAt
  <2>3. CASE s \in B /\ s = a
    BY <2>3, <1>1, <1>4 DEF FitsAt, Content
  <2> QED BY <2>1, <2>2, <2>3
<1>5. ASSUME NEW s \in Slots, r[s] # Faulty, r[s].chain \notin {S, P}
      PROVE  s = a
  <2>0. s \in B => s = a \/ r[s].chain \in {S, P}
    BY <1>1, <1>2, <1>5, Held DEF FitsAt
  <2>1. s \notin B => r[s].chain \in {S, P}
    BY <1>1, <1>2, <1>5, Held DEF FitsAt
  <2> QED BY <1>5, <2>0, <2>1
<1>6. H \in Nat /\ H >= 2 /\ Threshold("open") = H
  BY Halves
<1>7. ASSUME NEW c, Valid(r, "open", c)
      PROVE  c \in {S, P}
  <2>1. SUFFICES ASSUME c \notin {S, P} PROVE FALSE
    OBVIOUS
  <2>2. Holders(r, c) \subseteq {a}
    BY <1>5, <2>1 DEF Holders
  <2>3. Cardinality(CopiesOf(r, c)) \in Nat /\ Cardinality(CopiesOf(r, c)) <= 1
    BY <2>2, Singles
  <2> QED BY <1>6, <1>7, <2>3 DEF Valid
<1>8. Outcast(r, a, S, P) /\ P # S => ~Valid(r, "open", P)
  <2>1. SUFFICES ASSUME Outcast(r, a, S, P), P # S PROVE ~Valid(r, "open", P)
    OBVIOUS
  <2>2. a \in Nat /\ a <= H - 2 /\ Holders(r, P) \subseteq 0 .. a - 1
    BY <2>1, Halves DEF Outcast
  <2>3. Cardinality(Holders(r, P)) <= a /\ Cardinality(Holders(r, P)) \in Nat
    BY <2>2, FirstSlots, CopiesCounted, SlotSets
  <2>4. Cardinality(CopiesOf(r, P)) \in Nat /\ Cardinality(CopiesOf(r, P)) <= Cardinality(Holders(r, P))
    BY CopiesCounted
  <2> QED BY <1>6, <2>2, <2>3, <2>4 DEF Valid
<1>9. Valid(r, "open", S) \/ Valid(r, "open", P)
  <2>1. PICK x : Slots \ {x} \subseteq CopiesOf(r, S) \cup CopiesOf(r, P)
    <3>1. \A s \in Slots \ B : s \in CopiesOf(r, S) \cup CopiesOf(r, P)
      BY <1>1, <1>2, Counted DEF FitsAt
    <3>2. CASE B \subseteq {a}
      BY <3>1, <3>2
    <3>3. CASE ~(B \subseteq {a})
      <4>1. PICK b \in B : b # a
        BY <3>3
      <4>2. B \subseteq {a, b} /\ b \in Slots /\ r[b] \in {Holds(S, a), Holds(P, a)}
        BY <1>1, <4>1 DEF FitsAt
      <4>3. a \in CopiesOf(r, S) \cup CopiesOf(r, P)
        BY <1>2, <4>2, Counted
      <4>4. Slots \ {b} \subseteq CopiesOf(r, S) \cup CopiesOf(r, P)
        BY <3>1, <4>2, <4>3
      <4> QED BY <4>4
    <3> QED BY <3>2, <3>3
  <2>2. CopiesOf(r, S) \in SUBSET Slots /\ CopiesOf(r, P) \in SUBSET Slots
    BY CopiesCounted
  <2>3. Cardinality(CopiesOf(r, S)) >= H \/ Cardinality(CopiesOf(r, P)) >= H
    BY <2>1, <2>2, OneIsHalf
  <2> QED BY <2>3, <1>6 DEF Valid
<1>10. ASSUME NEW c, Valid(r, "open", c)
       PROVE  c \in Found(r)
  <2>1. Cardinality(CopiesOf(r, c)) >= 1
    BY <1>6, <1>10, CopiesCounted DEF Valid
  <2> QED BY <2>1, Present
<1>11. ASSUME NEW c \in Found(r)
       PROVE  /\ c # <<>> /\ c \in Seq(States) /\ Len(c) \in Nat
              /\ c \in {S, P, Front(S)} \/ (Len(c) = Len(S) + 1 /\ Outcast(r, a, S, P))
  <2>1. PICK s \in Slots : r[s] # Faulty /\ c = r[s].chain
    BY DEF Found
  <2>2. c # <<>> /\ c \in Seq(States)
    BY <2>1, Placed
  <2> QED BY <2>1, <2>2, <1>4 DEF Outcast
<1>12. CASE Valid(r, "open", P)
  <2>1. \A c \in Found(r) \ {P} : Valid(r, "open", c) => Len(c) \in Int /\ Len(c) < Len(P)
    BY <1>2, <1>7
  <2>2. \A c \in Rivals(r, P) : ~Conflict(c, P)
    <3>1. SUFFICES ASSUME NEW c \in Found(r) \ {P}, Len(c) >= Len(P) - 1, Len(c) # Len(P) + 1
                   PROVE  ~Conflict(c, P)
      BY DEF Rivals
    <3>2. ~(Len(c) = Len(S) + 1 /\ Outcast(r, a, S, P))
      BY <3>1, <1>2, <1>8, <1>12
    <3>3. c \in {S, Front(S)} /\ c # <<>>
      BY <3>1, <3>2, <1>11
    <3>4. CASE P = S
      BY <3>1, <3>3, <3>4, <1>2
    <3>5. CASE P # S
      <4>1. c = S
        BY <3>1, <3>3, <3>5, <1>2
      <4> QED BY <4>1, <3>5, <1>3
    <3> QED BY <3>4, <3>5
  <2>3. Working(r, "open") = {P}
    <3>1. P \in Found(r) /\ P # NoQuorum /\ Len(P) \in Int
      BY <1>2, <1>10, <1>12 DEF NoQuorum
    <3> QED BY <3>1, <1>12, <2>1, <2>2, Wins
  <2>4. (\E s \in B : r[s] # Faulty /\ r[s].chain \notin {S, P, Front(S)}) => P = S
    <3>1. SUFFICES ASSUME NEW s \in B, r[s] # Faulty, r[s].chain \notin {S, P, Front(S)}
                   PROVE  P = S
      OBVIOUS
    <3>2. s \in Slots
      BY <1>1 DEF FitsAt
    <3>3. Outcast(r, a, S, P)
      BY <3>1, <3>2, <1>4
    <3> QED BY <3>3, <1>8, <1>12
  <2> QED BY <1>12, <2>3, <2>4
<1>13. CASE ~Valid(r, "open", P)
  <2>1. Valid(r, "open", S) /\ P # S
    BY <1>9, <1>13
  <2>2. \A c \in Found(r) \ {S} : Valid(r, "open", c) => Len(c) \in Int /\ Len(c) < Len(S)
    BY <1>7, <1>13
  <2>3. \A c \in Rivals(r, S) : ~Conflict(c, S)
    <3>1. SUFFICES ASSUME NEW c \in Found(r) \ {S}, Len(c) >= Len(S) - 1, Len(c) # Len(S) + 1
                   PROVE  ~Conflict(c, S)
      BY DEF Rivals
    <3>2. c = Front(S) /\ c # <<>>
      BY <3>1, <1>2, <1>11, <2>1
    <3> QED BY <3>2, <1>2
  <2>4. S \in Found(r) /\ S # NoQuorum /\ Len(S) \in Int
    BY <1>2, <1>10, <2>1 DEF NoQuorum
  <2>5. Working(r, "open") = {S}
    BY <2>1, <2>2, <2>3, <2>4, Wins
  <2> QED BY <1>13, <2>5
<1> QED BY <1>12, <1>13

\* After the last write verify finds what was written.
LEMMA Verified ==
  ASSUME NEW r \in Disks, NEW B, NEW S, NEW P, Pair(S, P), Passed(r, B, S, P, Copies)
  PROVE  Working(r, "verify") = {P}
<1>1. PICK a \in Slots : PassedAt(r, B, S, P, Copies, a)
  BY DEF Passed
<1>2. /\ S \in Seq(States) /\ P \in Seq(States) /\ P # <<>> /\ Len(S) \in Nat /\ Len(P) \in Nat
      /\ P = S \/ (Len(P) = Len(S) + 1 /\ Front(P) = S)
  BY DEF Pair, Chain
<1>3. P # S /\ S # <<>> => ~Conflict(S, P)
  BY <1>2, Connected DEF Pair
<1>4. /\ H \in Nat /\ H >= 2 /\ Threshold("verify") = H + 1
      /\ \A s \in Slots : s < Copies /\ ~(Copies <= s)
  BY Halves
<1>5. \A s \in Slots \ B : r[s] = Holds(P, s)
  BY <1>1, <1>4 DEF PassedAt
<1>6. \A b \in B \ {a} : b \in Slots /\ r[b] = Holds(P, a)
  BY <1>1, <1>4 DEF PassedAt
<1>7. ASSUME NEW s \in Slots, r[s] # Faulty
      PROVE  r[s].chain \in {S, P} /\ (r[s].chain # P => s = a)
  <2>1. CASE s \notin B
    BY <2>1, <1>2, <1>5, Held
  <2>2. CASE s \in B /\ s # a
    BY <2>2, <1>2, <1>6, Held
  <2>3. CASE s \in B /\ s = a
    BY <2>3, <1>1, <1>4, <1>7 DEF PassedAt
  <2> QED BY <2>1, <2>2, <2>3
<1>8. Valid(r, "verify", P)
  <2>1. PICK x : Slots \ {x} \subseteq CopiesOf(r, P)
    <3>1. \A s \in Slots \ B : s \in CopiesOf(r, P)
      BY <1>2, <1>5, Counted
    <3>2. CASE B \subseteq {a}
      BY <3>1, <3>2
    <3>3. CASE ~(B \subseteq {a})
      <4>1. PICK b \in B : b # a
        BY <3>3
      <4>2. B \subseteq {a, b} /\ b \in Slots /\ r[b] = Holds(P, a)
        BY <1>1, <1>6, <4>1 DEF PassedAt
      <4>3. a \in CopiesOf(r, P)
        BY <1>2, <4>2, Counted
      <4>4. Slots \ {b} \subseteq CopiesOf(r, P)
        BY <3>1, <4>2, <4>3
      <4> QED BY <4>4
    <3> QED BY <3>2, <3>3
  <2> QED BY <2>1, <1>4, AllButOne, CopiesCounted DEF Valid
<1>9. Found(r) \subseteq {S, P} /\ <<>> \notin Found(r)
  BY <1>7, Placed DEF Found
<1>10. P \in Found(r)
  <2>1. Cardinality(CopiesOf(r, P)) >= 1
    BY <1>4, <1>8, CopiesCounted DEF Valid
  <2> QED BY <2>1, Present
<1>11. \A c \in Found(r) \ {P} : Valid(r, "verify", c) => Len(c) \in Int /\ Len(c) < Len(P)
  BY <1>2, <1>9
<1>12. \A c \in Rivals(r, P) : ~Conflict(c, P)
  BY <1>3, <1>9 DEF Rivals
<1> QED BY <1>2, <1>8, <1>10, <1>11, <1>12, Wins DEF NoQuorum

-----------------------------------------------------------------------------
(* What an update leaves in the slots *)

\* Slot s of r has decayed in q, or has not.
Decayed(r, q, s) ==
  /\ \A x \in Slots \ {s} : q[x] = r[x]
  /\ q[s] = Faulty \/ (r[s] # Faulty /\ q[s].chain = r[s].chain)

\* Before the first write of format.
LEMMA PassedFormat ==
  ASSUME NEW P
  PROVE  Passed([s \in Slots |-> Faulty], {}, <<>>, P, 0)
<1>1. 0 \in Slots /\ \A s \in Slots : ~(s < 0)
  BY Halves
<1> QED BY <1>1 DEF Passed, PassedAt, Holds

\* A write in its place.
LEMMA PassedLand ==
  ASSUME NEW r \in Disks, NEW B \in SUBSET Slots, NEW S, NEW P, Pair(S, P),
         NEW n \in Slots, Passed(r, B, S, P, n)
  PROVE  Passed([r EXCEPT ![n] = Holds(P, n)], B \ {n}, S, P, n + 1)
<1> DEFINE q == [r EXCEPT ![n] = Holds(P, n)]
           C == B \ {n}
<1>1. PICK a \in Slots : PassedAt(r, B, S, P, n, a)
  BY DEF Passed
<1>2. q[n] = Holds(P, n) /\ \A s \in Slots \ {n} : q[s] = r[s]
  BY DEF Disks
<1>3. n \in Nat /\ a \in Nat /\ \A s \in Slots : s \in Nat
  BY Halves
<1>4. S \in Seq(States) /\ P \in Seq(States) /\ P # <<>>
  BY DEF Pair, Chain
<1> HIDE DEF q
<1>5. \A s \in Slots \ C : q[s] = Holds(IF s < n + 1 THEN P ELSE S, s)
  <2>1. ASSUME NEW s \in Slots \ C, s # n
        PROVE  q[s] = Holds(IF s < n + 1 THEN P ELSE S, s)
    <3>1. r[s] = Holds(IF s < n THEN P ELSE S, s)
      BY <1>1, <2>1 DEF PassedAt
    <3>2. s < n <=> s < n + 1
      BY <1>3, <2>1
    <3> QED BY <3>1, <3>2, <2>1, <1>2
  <2>2. n < n + 1
    BY <1>3
  <2> QED BY <2>1, <2>2, <1>2
<1>6. CASE n = a
  <2>1. PICK b \in Slots : B \subseteq {a, b}
    BY <1>1 DEF PassedAt
  <2>2. b \in C /\ q[b] # Faulty => q[b].chain \in {S, P}
    <3>1. SUFFICES ASSUME b \in C, q[b] # Faulty PROVE q[b].chain \in {S, P}
      OBVIOUS
    <3>2. q[b] = r[b] /\ r[b] \in {Holds(P, a), Holds(S, a)}
      BY <3>1, <1>1, <1>2, <1>6 DEF PassedAt
    <3>3. q[b] = Holds(P, a) \/ (S # <<>> /\ q[b] = Holds(S, a))
      BY <3>1, <3>2 DEF Holds
    <3> QED BY <3>3, <1>4, Held
  <2>3. C \subseteq {b, b} /\ C \ {b} = {}
    BY <2>1, <1>6
  <2>4. b \in C /\ q[b] # Faulty => IF b < n + 1 THEN q[b].chain \in {S, P} ELSE Content(q, b, S, P)
    BY <2>2 DEF Content
  <2>5. PassedAt(q, C, S, P, n + 1, b)
    BY <2>3, <2>4, <1>5 DEF PassedAt
  <2> QED BY <2>5 DEF Passed, q
<1>7. CASE n # a
  <2>1. \E b \in Slots : C \subseteq {a, b}
    BY <1>1 DEF PassedAt
  <2>2. \A b \in C \ {a} : q[b] = Holds(P, a) \/ (n + 1 <= a /\ n + 1 <= b /\ q[b] = Holds(S, a))
    <3>1. SUFFICES ASSUME NEW b \in C \ {a}
                   PROVE  q[b] = Holds(P, a) \/ (n + 1 <= a /\ n + 1 <= b /\ q[b] = Holds(S, a))
      OBVIOUS
    <3>2. b \in Slots /\ b # n /\ q[b] = r[b]
      BY <1>2
    <3>3. r[b] = Holds(P, a) \/ (n <= a /\ n <= b /\ r[b] = Holds(S, a))
      BY <1>1 DEF PassedAt
    <3>4. n <= a /\ n <= b => n + 1 <= a /\ n + 1 <= b
      BY <3>2, <1>3, <1>7
    <3> QED BY <3>2, <3>3, <3>4
  <2>3. a \in C /\ q[a] # Faulty => IF a < n + 1 THEN q[a].chain \in {S, P} ELSE Content(q, a, S, P)
    <3>1. SUFFICES ASSUME a \in C, q[a] # Faulty
                   PROVE  IF a < n + 1 THEN q[a].chain \in {S, P} ELSE Content(q, a, S, P)
      OBVIOUS
    <3>2. q[a] = r[a] /\ IF a < n THEN r[a].chain \in {S, P} ELSE Content(r, a, S, P)
      BY <3>1, <1>1, <1>2, <1>7 DEF PassedAt
    <3>3. CASE a < n
      BY <3>2, <3>3, <1>3
    <3>4. CASE ~(a < n)
      <4>1. ~(a < n + 1) /\ n \in 0 .. a - 1
        BY <3>4, <1>3, <1>7
      <4>2. Holders(q, P) \subseteq Holders(r, P) \cup {n}
        BY <1>2 DEF Holders
      <4>3. Outcast(r, a, S, P) => Outcast(q, a, S, P)
        BY <4>1, <4>2, <3>2 DEF Outcast
      <4> QED BY <4>1, <4>3, <3>2, <3>4 DEF Content
    <3> QED BY <3>3, <3>4
  <2>4. PassedAt(q, C, S, P, n + 1, a)
    BY <2>1, <2>2, <2>3, <1>5 DEF PassedAt
  <2> QED BY <2>4 DEF Passed, q
<1> QED BY <1>6, <1>7

\* A write that is lost (s = n) or lands in slot s.
LEMMA PassedAstray ==
  ASSUME NEW r \in Disks, NEW S, NEW P, Pair(S, P),
         NEW n \in Slots, NEW s \in Slots, Passed(r, {}, S, P, n)
  PROVE  Passed(IF s = n THEN r ELSE [r EXCEPT ![s] = Holds(P, n)], {s, n}, S, P, n + 1)
<1> DEFINE q == IF s = n THEN r ELSE [r EXCEPT ![s] = Holds(P, n)]
<1>1. PICK a \in Slots : PassedAt(r, {}, S, P, n, a)
  BY DEF Passed
<1>2. (s # n => q[s] = Holds(P, n)) /\ \A x \in Slots \ {s} : q[x] = r[x]
  BY DEF Disks
<1>3. s = n => q = r
  OBVIOUS
<1>4. n \in Nat /\ \A x \in Slots : x \in Nat
  BY Halves
<1>5. S \in Seq(States) /\ P \in Seq(States)
  BY DEF Pair, Chain
<1> HIDE DEF q
<1>6. \A x \in Slots \ {s, n} : q[x] = Holds(IF x < n + 1 THEN P ELSE S, x)
  <2>1. ASSUME NEW x \in Slots \ {s, n}
        PROVE  q[x] = Holds(IF x < n + 1 THEN P ELSE S, x)
    <3>1. x < n <=> x < n + 1
      BY <1>4
    <3> QED BY <3>1, <1>1, <1>2 DEF PassedAt
  <2> QED BY <2>1
<1>7. q[n] # Faulty => q[n].chain \in {S, P}
  <2>1. q[n] = r[n]
    BY <1>2, <1>3
  <2>2. r[n] = Holds(S, n)
    BY <1>1, <1>4 DEF PassedAt
  <2> QED BY <2>1, <2>2, <1>5, Held DEF Holds
<1>8. n < n + 1
  BY <1>4
<1>9. PassedAt(q, {s, n}, S, P, n + 1, n)
  BY <1>2, <1>6, <1>7, <1>8 DEF PassedAt
<1> QED BY <1>9 DEF Passed, q

\* A slot that decays, or that is only known to be bad.
LEMMA PassedDecay ==
  ASSUME NEW r, NEW S, NEW P, Pair(S, P), NEW n \in 0 .. Copies, Passed(r, {}, S, P, n),
         NEW s \in Slots, NEW q, Decayed(r, q, s)
  PROVE  Passed(q, {s}, S, P, n)
<1>1. PICK a \in Slots : PassedAt(r, {}, S, P, n, a)
  BY DEF Passed
<1>2. S \in Seq(States) /\ P \in Seq(States)
  BY DEF Pair, Chain
<1>3. r[s] = Holds(IF s < n THEN P ELSE S, s)
  BY <1>1 DEF PassedAt
<1>4. q[s] # Faulty => q[s].chain = IF s < n THEN P ELSE S
  <2>1. SUFFICES ASSUME q[s] # Faulty PROVE q[s].chain = IF s < n THEN P ELSE S
    OBVIOUS
  <2>2. r[s] # Faulty /\ q[s].chain = r[s].chain
    BY <2>1 DEF Decayed
  <2> QED BY <2>2, <1>2, <1>3, Held DEF Holds
<1>5. q[s] # Faulty => IF s < n THEN q[s].chain \in {S, P} ELSE Content(q, s, S, P)
  BY <1>4 DEF Content
<1>6. \A x \in Slots \ {s} : q[x] = Holds(IF x < n THEN P ELSE S, x)
  BY <1>1 DEF PassedAt, Decayed
<1>7. PassedAt(q, {s}, S, P, n, s)
  BY <1>5, <1>6 DEF PassedAt
<1> QED BY <1>7 DEF Passed

\* An update that is over is no update.
LEMMA PassedOver ==
  ASSUME NEW r, NEW B \in SUBSET Slots, NEW S, NEW P, Pair(S, P), Passed(r, B, S, P, Copies)
  PROVE  Passed(r, B, P, P, 0)
<1>1. PICK a \in Slots : PassedAt(r, B, S, P, Copies, a)
  BY DEF Passed
<1>2. \A s \in Slots : s < Copies /\ ~(Copies <= s) /\ ~(s < 0) /\ 0 <= s
  BY Halves
<1>3. \A s \in Slots \ B : r[s] = Holds(IF s < 0 THEN P ELSE P, s)
  BY <1>1, <1>2 DEF PassedAt
<1>4. \A b \in B \ {a} : r[b] = Holds(P, a)
  BY <1>1, <1>2 DEF PassedAt
<1>5. a \in B /\ r[a] # Faulty => Content(r, a, P, P)
  BY <1>1, <1>2 DEF PassedAt, Content, Pair
<1>6. PassedAt(r, B, P, P, 0, a)
  BY <1>1, <1>2, <1>3, <1>4, <1>5 DEF PassedAt
<1> QED BY <1>6 DEF Passed

\* Before the first write of an update.
LEMMA PassedStart ==
  ASSUME NEW r \in Disks, NEW B \in SUBSET Slots, NEW S, NEW P, Pair(S, P), S # <<>>, P # S,
         Passed(r, B, S, S, 0)
  PROVE  Passed(r, B, S, P, 0)
<1>1. PICK a \in Slots : PassedAt(r, B, S, S, 0, a)
  BY DEF Passed
<1>2. \A s \in Slots : ~(s < 0) /\ 0 <= s
  BY Halves
<1>3. S \in Seq(States) /\ P \in Seq(States)
  BY DEF Pair, Chain
<1>4. \A s \in Slots \ B : r[s] = Holds(S, s)
  BY <1>1 DEF PassedAt
<1>5. \A b \in B \ {a} : r[b] = Holds(S, a)
  BY <1>1 DEF PassedAt
<1>6. a \in B /\ r[a] # Faulty => Content(r, a, S, P)
  <2>1. SUFFICES ASSUME a \in B, r[a] # Faulty, r[a].chain # P, Outcast(r, a, S, S)
                 PROVE  Outcast(r, a, S, P)
    BY <1>1, <1>2 DEF PassedAt, Content
  <2>2. Holders(r, P) = {}
    <3>1. ASSUME NEW s \in Slots, r[s] # Faulty
          PROVE  r[s].chain # P
      <4>1. CASE s = a
        BY <4>1, <2>1
      <4>2. CASE s # a
        <5>1. r[s] = Holds(S, s) \/ r[s] = Holds(S, a)
          BY <4>2, <1>4, <1>5
        <5> QED BY <5>1, <1>3, Held
      <4> QED BY <4>1, <4>2
    <3> QED BY <3>1 DEF Holders
  <2> QED BY <2>1, <2>2 DEF Outcast
<1>7. PassedAt(r, B, S, P, 0, a)
  BY <1>1, <1>2, <1>4, <1>5, <1>6 DEF PassedAt
<1> QED BY <1>7 DEF Passed

\* An update that stops leaves a disk that opens.
LEMMA PassedFits ==
  ASSUME NEW r, NEW B \in SUBSET Slots, NEW S, NEW P, Pair(S, P), NEW n \in 0 .. Copies,
         Passed(r, B, S, P, n)
  PROVE  Fits(r, B, S, P)
<1>1. PICK a \in Slots : PassedAt(r, B, S, P, n, a)
  BY DEF Passed
<1>2. a \in B /\ r[a] # Faulty => Content(r, a, S, P)
  BY <1>1 DEF PassedAt, Content
<1>3. \A s \in Slots \ B : r[s] \in {Holds(S, s), Holds(P, s)}
  BY <1>1 DEF PassedAt
<1>4. \A b \in B \ {a} : r[b] \in {Holds(S, a), Holds(P, a)}
  BY <1>1 DEF PassedAt
<1>5. FitsAt(r, B, S, P, a)
  BY <1>1, <1>2, <1>3, <1>4 DEF FitsAt, PassedAt
<1> QED BY <1>5 DEF Fits

\* Without a fault a crash leaves the copies of the update in the first slots.
LEMMA PassedEarly ==
  ASSUME NEW r \in Disks, NEW B \in SUBSET Slots, NEW S, NEW P, Pair(S, P), NEW F,
         NEW n \in 0 .. Copies, F = 0 => \A s \in B : r[s] = Faulty /\ s = n,
         \A s \in Slots \ B : r[s] = Holds(IF s < n THEN P ELSE S, s)
  PROVE  Early(r, B, S, P, F)
<1>1. SUFFICES ASSUME F = 0, P # S
               PROVE  On(r, B, P) \subseteq 0 .. H - 2 \/ Cardinality(On(r, B, P)) >= H
  BY DEF Early
<1>2. S \in Seq(States) /\ P \in Seq(States) /\ P # <<>> /\ B \subseteq {n}
  BY <1>1 DEF Pair, Chain
<1>3. On(r, B, P) = 0 .. n - 1
  <2>1. ASSUME NEW s \in Slots
        PROVE  s \in On(r, B, P) <=> s < n
    <3>1. CASE s \in B
      BY <3>1, <1>2, Halves DEF On
    <3>2. CASE s \notin B /\ s < n
      BY <3>2, <1>2, Held DEF On
    <3>3. CASE s \notin B /\ ~(s < n)
      <4>1. r[s] = Holds(S, s)
        BY <3>3
      <4>2. r[s] # Faulty => r[s].chain = S
        BY <4>1, <1>2, Held DEF Holds
      <4> QED BY <4>2, <3>3, <1>1 DEF On
    <3> QED BY <3>1, <3>2, <3>3
  <2>2. \A s : s \in 0 .. n - 1 <=> s \in Slots /\ s < n
    BY Halves
  <2> QED BY <2>1, <2>2 DEF On
<1>4. Cardinality(0 .. n - 1) = n
  <2>1. n \in Nat /\ 0 \in Int /\ n - 1 \in Int
    BY Halves
  <2>2. CASE n = 0
    <3>1. 0 .. n - 1 = {}
      BY <2>2
    <3> QED BY <3>1, <2>2, FS_EmptySet
  <2>3. CASE n # 0
    BY <2>1, <2>3, FS_Interval
  <2> QED BY <2>2, <2>3
<1>5. n <= H - 1 \/ n >= H
  BY Halves
<1>6. n <= H - 1 => 0 .. n - 1 \subseteq 0 .. H - 2
  BY Halves
<1> QED BY <1>3, <1>4, <1>5, <1>6

\* The write in flight is torn by a crash.
LEMMA PassedTorn ==
  ASSUME NEW r \in Disks, NEW S, NEW P, Pair(S, P), NEW F,
         NEW n \in Slots, NEW B \in SUBSET {n}, Passed(r, B, S, P, n)
  PROVE  Resting([r EXCEPT ![n] = Faulty], {n}, S, P, F)
<1> DEFINE q == [r EXCEPT ![n] = Faulty]
<1>1. q[n] = Faulty /\ \A s \in Slots \ {n} : q[s] = r[s]
  BY DEF Disks
<1>2. q \in Disks
  BY DEF Disks
<1>3. PICK a \in Slots : PassedAt(r, B, S, P, n, a)
  BY DEF Passed
<1> HIDE DEF q
<1>4. \A s \in Slots \ {n} : q[s] = Holds(IF s < n THEN P ELSE S, s)
  BY <1>1, <1>3 DEF PassedAt
<1>5. FitsAt(q, {n}, S, P, n)
  BY <1>1, <1>4 DEF FitsAt
<1>6. n \in 0 .. Copies /\ {n} \in SUBSET Slots
  BY Halves
<1>7. Early(q, {n}, S, P, F)
  BY <1>1, <1>2, <1>4, <1>6, PassedEarly
<1> QED BY <1>5, <1>7 DEF Resting, Fits, q

\* What rests decays, or is only known to be bad.
LEMMA FitsDecay ==
  ASSUME NEW r, NEW S, NEW P, Pair(S, P), S # <<>>, Fits(r, {}, S, P),
         NEW s \in Slots, NEW q, Decayed(r, q, s)
  PROVE  Fits(q, {s}, S, P)
<1>1. PICK a \in Slots : FitsAt(r, {}, S, P, a)
  BY DEF Fits
<1>2. S \in Seq(States) /\ P \in Seq(States) /\ P # <<>>
  BY DEF Pair, Chain
<1>3. r[s] \in {Holds(S, s), Holds(P, s)}
  BY <1>1 DEF FitsAt
<1>4. q[s] # Faulty => Content(q, s, S, P)
  BY <1>2, <1>3, Held DEF Decayed, Content
<1>5. \A x \in Slots \ {s} : q[x] \in {Holds(S, x), Holds(P, x)}
  BY <1>1 DEF FitsAt, Decayed
<1>6. FitsAt(q, {s}, S, P, s)
  BY <1>4, <1>5 DEF FitsAt
<1> QED BY <1>6 DEF Fits

-----------------------------------------------------------------------------
(* What the repairs of open() leave in the slots *)

\* The slots that hold c, and what is added to them.
LEMMA OnGrows ==
  ASSUME NEW r, NEW q, NEW B, NEW C, NEW c, On(r, B, c) \subseteq On(q, C, c),
         Cardinality(On(r, B, c)) >= H
  PROVE  Cardinality(On(q, C, c)) >= H
<1>1. On(q, C, c) \in SUBSET Slots /\ On(r, B, c) \in SUBSET Slots
  BY DEF On
<1>2. /\ IsFiniteSet(On(q, C, c)) /\ Cardinality(On(q, C, c)) \in Nat
      /\ Cardinality(On(r, B, c)) \in Nat
  BY <1>1, SlotSets
<1>3. Cardinality(On(r, B, c)) <= Cardinality(On(q, C, c))
  BY <1>2, FS_Subset
<1> QED BY <1>2, <1>3, Halves

\* A repair in its place.
LEMMA MendedLand ==
  ASSUME NEW r \in Disks, NEW B \in SUBSET Slots, NEW S, NEW P, Pair(S, P), S # <<>>,
         NEW D \in SUBSET Slots, NEW w, NEW F, Mended(r, B, D, w, S, P, F), NEW x \in Slots \ D
  PROVE  Mended([r EXCEPT ![x] = Holds(w, x)], B \ {x}, D \cup {x}, w, S, P, F)
<1> DEFINE q == [r EXCEPT ![x] = Holds(w, x)]
           C == B \ {x}
<1>1. PICK a \in Slots : FitsAt(r, B, S, P, a)
  BY DEF Mended, Resting, Fits
<1>2. q[x] = Holds(w, x) /\ \A s \in Slots \ {x} : q[s] = r[s]
  BY DEF Disks
<1>3. S \in Seq(States) /\ P \in Seq(States) /\ P # <<>> /\ w \in {S, P} /\ w # <<>> /\ w \in Seq(States)
  BY DEF Pair, Chain, Mended
<1>4. q[x] # Faulty /\ q[x].chain = w
  BY <1>2, <1>3, Held
<1> HIDE DEF q
<1>5. P # S /\ w = S => Holders(q, P) \subseteq Holders(r, P) /\ On(q, C, P) \subseteq On(r, B, P)
  BY <1>2, <1>4 DEF Holders, On
<1>6. w = P => On(r, B, P) \subseteq On(q, C, P)
  BY <1>2, <1>4 DEF On
<1>7. Fits(q, C, S, P)
  <2>1. PICK b \in Slots : B \subseteq {a, b}
    BY <1>1 DEF FitsAt
  <2>2. \A s \in Slots \ C : q[s] \in {Holds(S, s), Holds(P, s)}
    BY <1>1, <1>2, <1>3 DEF FitsAt
  <2>3. CASE x = a
    <3>1. C \subseteq {b, b} /\ C \ {b} = {}
      BY <2>1, <2>3
    <3>2. b \in C => q[b] \in {Holds(S, a), Holds(P, a)}
      BY <1>1, <1>2, <2>3 DEF FitsAt
    <3>3. b \in C /\ q[b] # Faulty => Content(q, b, S, P)
      BY <3>2, <1>3, Held DEF Content
    <3>4. FitsAt(q, C, S, P, b)
      BY <2>2, <3>1, <3>3 DEF FitsAt
    <3> QED BY <3>4 DEF Fits
  <2>4. CASE x # a
    <3>1. \A t \in C \ {a} : q[t] \in {Holds(S, a), Holds(P, a)}
      BY <1>1, <1>2 DEF FitsAt
    <3>2. a \in C /\ q[a] # Faulty => Content(q, a, S, P)
      <4>1. SUFFICES ASSUME a \in B, r[a] # Faulty, q[a] = r[a], q[a].chain \notin {S, P, Front(S)}
                     PROVE  Outcast(q, a, S, P)
        BY <1>2, <2>4 DEF Content
      <4>2. Outcast(r, a, S, P) /\ w = S
        BY <4>1, <1>1 DEF FitsAt, Content, Mended
      <4> QED BY <4>1, <4>2, <1>5 DEF Outcast
    <3>3. FitsAt(q, C, S, P, a)
      BY <2>1, <2>2, <3>1, <3>2 DEF FitsAt
    <3> QED BY <3>3 DEF Fits
  <2> QED BY <2>3, <2>4
<1>8. F = 0 /\ P # S => IF w = S THEN On(q, C, P) \subseteq 0 .. H - 2 ELSE Cardinality(On(q, C, P)) >= H
  <2>1. SUFFICES ASSUME F = 0, P # S
                 PROVE  IF w = S THEN On(q, C, P) \subseteq 0 .. H - 2 ELSE Cardinality(On(q, C, P)) >= H
    OBVIOUS
  <2>2. CASE w = S
    BY <2>1, <2>2, <1>5 DEF Mended
  <2>3. CASE w # S
    <3>1. w = P /\ Cardinality(On(r, B, P)) >= H
      BY <2>1, <2>3 DEF Mended
    <3> QED BY <3>1, <2>3, <1>6, OnGrows
  <2> QED BY <2>2, <2>3
<1>9. Early(q, C, S, P, F)
  <2>1. F = 0 => \A s \in C : q[s] = Faulty
    BY <1>2 DEF Mended, Resting, Early
  <2> QED BY <2>1, <1>8 DEF Early
<1>10. \A s \in D \cup {x} : \/ q[s] # Faulty /\ q[s].chain = w
                             \/ s \in C /\ (q[s] = Faulty \/ Lost(q, C, s, w, S, P))
  <2>1. SUFFICES ASSUME NEW s \in D, s # x
                 PROVE  \/ q[s] # Faulty /\ q[s].chain = w
                        \/ s \in C /\ (q[s] = Faulty \/ Lost(q, C, s, w, S, P))
    BY <1>4
  <2>2. \/ r[s] # Faulty /\ r[s].chain = w
        \/ s \in B /\ (r[s] = Faulty \/ Lost(r, B, s, w, S, P))
    BY DEF Mended
  <2>3. s \in Slots => q[s] = r[s]
    BY <1>2, <2>1
  <2>4. s \in Slots
    OBVIOUS
  <2>5. Lost(r, B, s, w, S, P) => Lost(q, C, s, w, S, P)
    BY <1>2, <2>3, <2>4 DEF Lost
  <2> QED BY <2>1, <2>2, <2>3, <2>4, <2>5
<1>11. F = 0 => \A s \in Slots : s \in D \cup {x} <=> s \in On(q, C, w)
  <2>1. SUFFICES ASSUME F = 0, NEW s \in Slots PROVE s \in D \cup {x} <=> s \in On(q, C, w)
    OBVIOUS
  <2>2. CASE s = x
    BY <2>2, <1>4 DEF On
  <2>3. CASE s # x
    <3>1. s \in D <=> s \in On(r, B, w)
      BY <2>1 DEF Mended
    <3>2. s \in On(r, B, w) <=> s \in On(q, C, w)
      BY <2>3, <1>2 DEF On
    <3> QED BY <2>3, <3>1, <3>2
  <2> QED BY <2>2, <2>3
<1>12. (\E s \in C : q[s] # Faulty /\ q[s].chain \notin {S, P, Front(S)}) => w = S
  BY <1>2 DEF Mended
<1>13. Mended(q, C, D \cup {x}, w, S, P, F)
  BY <1>3, <1>7, <1>8, <1>9, <1>10, <1>11, <1>12 DEF Mended, Resting
<1> QED BY <1>13 DEF q

\* A repair that is lost (s = x) or lands in slot s.
LEMMA MendedAstray ==
  ASSUME NEW r \in Disks, NEW S, NEW P, Pair(S, P), S # <<>>,
         NEW D \in SUBSET Slots, NEW w, NEW x \in Slots \ D, NEW s \in Slots,
         NEW B \in SUBSET {s, x}, Mended(r, B, D, w, S, P, 0)
  PROVE  Mended(IF s = x THEN r ELSE [r EXCEPT ![s] = Holds(w, x)], {s, x}, D \cup {x}, w, S, P, 1)
<1> DEFINE q == IF s = x THEN r ELSE [r EXCEPT ![s] = Holds(w, x)]
<1>1. PICK a \in Slots : FitsAt(r, B, S, P, a)
  BY DEF Mended, Resting, Fits
<1>2. (s # x => q[s] = Holds(w, x)) /\ \A t \in Slots \ {s} : q[t] = r[t]
  BY DEF Disks
<1>3. q[x] = r[x]
  BY <1>2
<1>4. S \in Seq(States) /\ P \in Seq(States) /\ P # <<>> /\ w \in {S, P} /\ w # <<>> /\ w \in Seq(States)
  BY DEF Pair, Chain, Mended
<1>5. \A b \in B : r[b] = Faulty
  BY DEF Mended, Resting, Early
<1> HIDE DEF q
<1>6. s # x => q[s] # Faulty /\ q[s].chain = w
  BY <1>2, <1>4, Held
<1>7. q[x] # Faulty => x \notin B /\ q[x].chain \in {S, P}
  BY <1>1, <1>3, <1>4, <1>5, Held DEF FitsAt
<1>8. Fits(q, {s, x}, S, P)
  <2>1. \A t \in Slots \ {s, x} : q[t] \in {Holds(S, t), Holds(P, t)}
    BY <1>1, <1>2 DEF FitsAt
  <2>2. \A b \in {s, x} \ {x} : q[b] \in {Holds(S, x), Holds(P, x)}
    BY <1>2, <1>4
  <2>3. FitsAt(q, {s, x}, S, P, x)
    BY <2>1, <2>2, <1>7 DEF FitsAt, Content
  <2> QED BY <2>3 DEF Fits
<1>9. \A y \in D \cup {x} : \/ q[y] # Faulty /\ q[y].chain = w
                            \/ y \in {s, x} /\ (q[y] = Faulty \/ Lost(q, {s, x}, y, w, S, P))
  <2>1. CASE q[x] # Faulty /\ q[x].chain # w
    <3>1. w = S => x <= H - 2
      <4>1. SUFFICES ASSUME w = S PROVE x <= H - 2
        OBVIOUS
      <4>2. P # S /\ x \in On(r, B, P)
        BY <4>1, <2>1, <1>3, <1>7 DEF On
      <4>3. On(r, B, P) \subseteq 0 .. H - 2
        BY <4>1, <4>2 DEF Mended
      <4> QED BY <4>2, <4>3
    <3>2. \A t \in {s, x} \ {x} : q[t] = Holds(w, x)
      BY <1>2
    <3>3. Lost(q, {s, x}, x, w, S, P)
      BY <2>1, <3>1, <3>2, <1>7 DEF Lost
    <3>4. ASSUME NEW y \in D, y # x
          PROVE  q[y] # Faulty /\ q[y].chain = w
      <4>1. y \in On(r, B, w)
        BY DEF Mended
      <4> QED BY <4>1, <1>2, <1>6, <3>4 DEF On
    <3> QED BY <3>3, <3>4
  <2>2. CASE ~(q[x] # Faulty /\ q[x].chain # w)
    <3>1. ASSUME NEW y \in D, y # x
          PROVE  q[y] # Faulty /\ q[y].chain = w
      <4>1. y \in On(r, B, w)
        BY DEF Mended
      <4> QED BY <4>1, <1>2, <1>6, <3>1 DEF On
    <3> QED BY <3>1, <2>2
  <2> QED BY <2>1, <2>2
<1>10. ~ \E t \in {s, x} : q[t] # Faulty /\ q[t].chain \notin {S, P, Front(S)}
  BY <1>4, <1>6, <1>7
<1>11. Early(q, {s, x}, S, P, 1)
  BY DEF Early
<1>12. Mended(q, {s, x}, D \cup {x}, w, S, P, 1)
  <2>1. ~(1 = 0) /\ w \in {S, P}
    BY <1>4
  <2> QED BY <2>1, <1>8, <1>9, <1>10, <1>11, Zenon DEF Mended, Resting
<1> QED BY <1>12 DEF q

\* A slot decays between two repairs.
LEMMA MendedDecay ==
  ASSUME NEW r, NEW S, NEW P, Pair(S, P), S # <<>>, NEW D \in SUBSET Slots, NEW w,
         NEW s \in Slots, NEW B \in SUBSET {s}, r[s] # Faulty, Mended(r, B, D, w, S, P, 0),
         NEW q, Decayed(r, q, s)
  PROVE  Mended(q, {s}, D, w, S, P, 1)
<1>1. B = {}
  BY DEF Mended, Resting, Early
<1>2. Fits(r, {}, S, P)
  BY <1>1 DEF Mended, Resting
<1>3. Fits(q, {s}, S, P)
  BY <1>2, FitsDecay
<1>4. S \in Seq(States) /\ P \in Seq(States) /\ P # <<>>
  BY DEF Pair, Chain
<1>5. r[s].chain \in {S, P}
  BY <1>2, <1>4, Held DEF Fits, FitsAt
<1>6. \A y \in D : \/ q[y] # Faulty /\ q[y].chain = w
                   \/ y \in {s} /\ (q[y] = Faulty \/ Lost(q, {s}, y, w, S, P))
  <2>1. \A y \in D : r[y] # Faulty /\ r[y].chain = w
    BY <1>1 DEF Mended
  <2> QED BY <2>1 DEF Decayed
<1>7. ~ \E t \in {s} : q[t] # Faulty /\ q[t].chain \notin {S, P, Front(S)}
  BY <1>5 DEF Decayed
<1>8. Early(q, {s}, S, P, 1) /\ w \in {S, P}
  BY DEF Early, Mended
<1>9. ~(1 = 0)
  OBVIOUS
<1> QED BY <1>3, <1>6, <1>7, <1>8, <1>9, Zenon DEF Mended, Resting

\* A repair is torn by a crash.
LEMMA MendedTorn ==
  ASSUME NEW r \in Disks, NEW S, NEW P, Pair(S, P), S # <<>>, NEW D, NEW w, NEW F,
         NEW x \in Slots \ D, NEW B \in SUBSET {x}, Mended(r, B, D, w, S, P, F)
  PROVE  Resting([r EXCEPT ![x] = Faulty], {x}, S, P, F)
<1> DEFINE q == [r EXCEPT ![x] = Faulty]
<1>1. PICK a \in Slots : FitsAt(r, B, S, P, a)
  BY DEF Mended, Resting, Fits
<1>2. q[x] = Faulty /\ \A t \in Slots \ {x} : q[t] = r[t]
  BY DEF Disks
<1> HIDE DEF q
<1>3. FitsAt(q, {x}, S, P, x)
  BY <1>1, <1>2 DEF FitsAt
<1>4. ASSUME F = 0, P # S
      PROVE  On(q, {x}, P) \subseteq 0 .. H - 2 \/ Cardinality(On(q, {x}, P)) >= H
  <2>1. CASE w = S
    <3>1. On(q, {x}, P) \subseteq On(r, B, P)
      BY <1>2 DEF On
    <3>2. On(r, B, P) \subseteq 0 .. H - 2
      BY <1>4, <2>1 DEF Mended
    <3> QED BY <3>1, <3>2
  <2>2. CASE w # S
    <3>1. w = P /\ Cardinality(On(r, B, P)) >= H
      BY <1>4, <2>2 DEF Mended
    <3>2. x \notin On(r, B, P)
      BY <1>4, <3>1 DEF Mended
    <3>3. On(r, B, P) \subseteq On(q, {x}, P)
      BY <3>2, <1>2 DEF On
    <3> QED BY <3>1, <3>3, OnGrows
  <2> QED BY <2>1, <2>2
<1>5. Early(q, {x}, S, P, F)
  BY <1>2, <1>4 DEF Early
<1> QED BY <1>3, <1>5 DEF Resting, Fits, q

\* When there is nothing left to repair all slots hold what open() found.
LEMMA MendedAll ==
  ASSUME NEW r \in Disks, NEW B \in SUBSET Slots, NEW S, NEW P, Pair(S, P), S # <<>>,
         NEW w, NEW F, Mended(r, B, Slots, w, S, P, F)
  PROVE  Passed(r, B, w, w, 0) /\ (F = 0 => B = {})
<1>1. PICK a \in Slots : FitsAt(r, B, S, P, a)
  BY DEF Mended, Resting, Fits
<1>2. /\ S \in Seq(States) /\ P \in Seq(States) /\ P # <<>> /\ w \in {S, P}
      /\ P = S \/ (Len(P) = Len(S) + 1 /\ Front(P) = S)
  BY DEF Pair, Chain, Mended
<1>3. F = 0 => B = {}
  BY DEF Mended, On
<1>4. \A s \in Slots : \/ r[s] # Faulty /\ r[s].chain = w
                       \/ s \in B /\ (r[s] = Faulty \/ Lost(r, B, s, w, S, P))
  BY DEF Mended
<1>5. \A s \in Slots : ~(s < 0)
  BY Halves
<1>6. \A s \in Slots \ B : r[s] = Holds(IF s < 0 THEN w ELSE w, s)
  BY <1>1, <1>2, <1>4, Held DEF FitsAt
<1>7. ASSUME NEW t \in B, r[t] # Faulty
      PROVE  Content(r, t, w, w)
  <2>1. CASE r[t].chain = w
    BY <2>1 DEF Content
  <2>2. CASE r[t].chain # w
    <3>1. r[t].chain \in {S, P} /\ (w = S => t <= H - 2)
      BY <1>4, <1>7, <2>2 DEF Lost
    <3>2. CASE w = S
      <4>1. Outcast(r, t, w, w)
        BY <1>2, <2>2, <3>1, <3>2 DEF Outcast
      <4> QED BY <4>1 DEF Content
    <3>3. CASE w # S
      <4>1. w = P /\ r[t].chain = Front(w)
        BY <1>2, <2>2, <3>1, <3>3
      <4> QED BY <4>1 DEF Content
    <3> QED BY <3>2, <3>3
  <2> QED BY <2>1, <2>2
<1>8. \E c \in Slots : (\E b \in Slots : B \subseteq {c, b}) /\ \A b \in B \ {c} : r[b] = Holds(w, c)
  <2>1. PICK b \in Slots : B \subseteq {a, b}
    BY <1>1 DEF FitsAt
  <2>2. CASE a \notin B \/ b \notin B \/ a = b
    <3>1. B \subseteq {a} \/ B \subseteq {b}
      BY <2>1, <2>2
    <3>2. ASSUME NEW c \in Slots, B \subseteq {c}
          PROVE  (\E e \in Slots : B \subseteq {c, e}) /\ \A e \in B \ {c} : r[e] = Holds(w, c)
      BY <3>2
    <3> QED BY <3>1, <3>2
  <2>3. CASE a \in B /\ b \in B /\ a # b
    <3>1. r[b] \in {Holds(S, a), Holds(P, a)} /\ r[b] # Faulty
      BY <1>1, <1>2, <2>3, Held DEF FitsAt
    <3>2. CASE r[b].chain = w
      <4>1. r[b] = Holds(w, a)
        BY <1>2, <3>1, <3>2, Held
      <4> QED BY <4>1, <2>1
    <3>3. CASE r[b].chain # w
      <4>1. r[a] = Holds(w, b)
        BY <1>4, <2>3, <3>1, <3>3 DEF Lost
      <4>2. B \subseteq {b, a} /\ \A e \in B \ {b} : r[e] = Holds(w, b)
        BY <4>1, <2>1
      <4> QED BY <4>2
    <3> QED BY <3>2, <3>3
  <2> QED BY <2>2, <2>3
<1>9. PICK c \in Slots : (\E b \in Slots : B \subseteq {c, b}) /\ \A b \in B \ {c} : r[b] = Holds(w, c)
  BY <1>8
<1>10. PassedAt(r, B, w, w, 0, c)
  BY <1>5, <1>6, <1>7, <1>9 DEF PassedAt
<1> QED BY <1>3, <1>10 DEF Passed

\* What open() plans to repair.
LEMMA SlotsFound ==
  ASSUME NEW r, NEW c
  PROVE  /\ SlotsOf(r, c) \in [Slots -> Slots \cup {None}]
         /\ \A s \in Slots : SlotsOf(r, c)[s] # None => s \in Holders(r, c)
BY DEF SlotsOf, CopyOf

\* The last slot of a set is one of them.
LEMMA MaxSlot ==
  ASSUME NEW A \in SUBSET Slots, A # {}
  PROVE  Max(A) \in A
<1>1. 2 * H - 1 \in Nat /\ A \subseteq 0 .. 2 * H - 1
  BY Halves
<1>2. \E b \in A : \A c \in A : b >= c
  BY <1>1, GreatestElement
<1> QED BY <1>2 DEF Max

\* RepairIterator stops when all slots are repaired, and begins with those that
\* hold no copy.
LEMMA NextSlot ==
  ASSUME NEW slots \in [Slots -> Slots \cup {None}]
  PROVE  /\ NextRepair(slots) = None => \A s \in Slots : slots[s] # None
         /\ NextRepair(slots) # None =>
              /\ NextRepair(slots) \in Slots
              /\ (\A s \in Slots : slots[s] \in {s, None}) => slots[NextRepair(slots)] = None
<1> DEFINE present == {slots[s] : s \in Slots}
           absent  == {s \in Slots : slots[s] = None /\ s \notin present}
           moved   == {s \in Slots : slots[s] = None /\ s \in present}
           double  == {s \in Slots : /\ slots[s] \notin {None, s}
                                     /\ \E e \in Slots \ {s} : slots[e] = slots[s]}
<1>1. NextRepair(slots) = IF absent # {} THEN Max(absent)
                          ELSE IF moved # {} THEN Max(moved)
                          ELSE IF double # {} THEN Max(double)
                          ELSE None
  BY DEF NextRepair
<1>2. /\ absent # {} => Max(absent) \in absent
      /\ moved # {} => Max(moved) \in moved
      /\ double # {} => Max(double) \in double
  <2>1. absent \in SUBSET Slots /\ moved \in SUBSET Slots /\ double \in SUBSET Slots
    OBVIOUS
  <2> HIDE DEF absent, moved, double
  <2> QED BY <2>1, MaxSlot
<1>3. absent \subseteq Slots /\ moved \subseteq Slots /\ double \subseteq Slots
  OBVIOUS
<1>4. /\ \A s \in absent \cup moved : slots[s] = None
      /\ \A s \in double : slots[s] \notin {None, s}
      /\ \A s \in Slots : slots[s] = None => s \in absent \cup moved
  OBVIOUS
<1> HIDE DEF absent, moved, double
<1>5. None \notin Slots
  BY DistinctAssumption
<1>6. CASE absent # {}
  BY <1>1, <1>2, <1>3, <1>4, <1>5, <1>6
<1>7. CASE absent = {} /\ moved # {}
  BY <1>1, <1>2, <1>3, <1>4, <1>5, <1>7
<1>8. CASE absent = {} /\ moved = {} /\ double # {}
  <2>1. NextRepair(slots) \in double
    BY <1>1, <1>2, <1>8
  <2> QED BY <2>1, <1>3, <1>4, <1>5
<1>9. CASE absent = {} /\ moved = {} /\ double = {}
  BY <1>1, <1>4, <1>9
<1> QED BY <1>6, <1>7, <1>8, <1>9

\* What open() finds in the slots it has read, q, is still there in r, but for
\* one that decayed.
LEMMA MendedFound ==
  ASSUME NEW r \in Disks, NEW q \in Disks, NEW B \in SUBSET Slots, NEW S, NEW P, Pair(S, P),
         S # <<>>, NEW F, Resting(r, B, S, P, F), Reads(r, q, B, F), Fits(q, B, S, P),
         NEW w \in Working(q, "open"), NEW D, D = {s \in Slots : SlotsOf(q, w)[s] # None}
  PROVE  /\ Mended(r, B, D, w, S, P, F)
         /\ F = 0 => \A s \in Slots : SlotsOf(q, w)[s] \in {s, None}
<1>1. /\ w = IF Valid(q, "open", P) THEN P ELSE S
      /\ (\E s \in B : q[s] # Faulty /\ q[s].chain \notin {S, P, Front(S)})
            => P = S \/ ~Valid(q, "open", P)
  BY Chosen
<1>2. S \in Seq(States) /\ P \in Seq(States) /\ P # <<>> /\ w \in {S, P} /\ w # <<>>
  BY <1>1 DEF Pair, Chain
<1>3. \A s \in D : s \in Slots /\ q[s] # Faulty /\ q[s].chain = w
  BY SlotsFound DEF Holders
<1>4. \A s \in D : \/ r[s] # Faulty /\ r[s].chain = w
                   \/ s \in B /\ (r[s] = Faulty \/ Lost(r, B, s, w, S, P))
  BY <1>3 DEF Reads
<1>5. (\E s \in B : r[s] # Faulty /\ r[s].chain \notin {S, P, Front(S)}) => w = S
  <2>1. SUFFICES ASSUME NEW s \in B, r[s] # Faulty, r[s].chain \notin {S, P, Front(S)} PROVE w = S
    OBVIOUS
  <2>2. q[s] # Faulty /\ q[s].chain = r[s].chain
    BY <2>1 DEF Reads
  <2> QED BY <2>1, <2>2, <1>1
<1>6. CASE F = 0
  <2>1. q = r
    <3>1. \A s \in Slots : r[s] = q[s]
      BY <1>6 DEF Reads
    <3> QED BY <3>1 DEF Disks
  <2>2. \A b \in B : r[b] = Faulty
    BY <1>6 DEF Resting, Early
  <2>3. \A s \in Slots \ B : r[s] \in {Holds(S, s), Holds(P, s)}
    BY DEF Resting, Fits, FitsAt
  <2>4. ASSUME NEW s \in Slots, r[s] # Faulty
        PROVE  s \notin B /\ CopyOf(r, s) = s
    <3>1. s \notin B
      BY <2>2, <2>4
    <3>2. r[s].copy = s
      BY <2>3, <3>1, <1>2, Held
    <3> QED BY <3>1, <3>2 DEF CopyOf
  <2>5. ASSUME NEW c
        PROVE  CopiesOf(r, c) = On(r, B, c) /\ Holders(r, c) = On(r, B, c)
    <3>1. Holders(r, c) = On(r, B, c)
      BY <2>4 DEF Holders, On
    <3>2. \A s \in Holders(r, c) : CopyOf(r, s) = s
      BY <2>4 DEF Holders
    <3>3. CopiesOf(r, c) = Holders(r, c)
      BY <3>2 DEF CopiesOf
    <3> QED BY <3>1, <3>3
  <2>6. \A s \in Slots : SlotsOf(r, w)[s] = IF s \in Holders(r, w) THEN s ELSE None
    <3>1. \A s \in Holders(r, w) : s \in Slots /\ CopyOf(r, s) = s
      BY <2>4 DEF Holders
    <3>2. \A s, e \in Slots : e < s => e # s
      BY Halves
    <3>3. \A s \in Holders(r, w), e \in Holders(r, w) : e < s => CopyOf(r, e) # CopyOf(r, s)
      BY <3>1, <3>2
    <3> QED BY <3>1, <3>3 DEF SlotsOf
  <2>7. \A s \in Slots : s \in D <=> s \in On(r, B, w)
    BY <2>1, <2>5, <2>6, DistinctAssumption
  <2>8. P # S => IF w = S THEN On(r, B, P) \subseteq 0 .. H - 2 ELSE Cardinality(On(r, B, P)) >= H
    <3>1. SUFFICES ASSUME P # S
                   PROVE  IF w = S THEN On(r, B, P) \subseteq 0 .. H - 2
                          ELSE Cardinality(On(r, B, P)) >= H
      OBVIOUS
    <3>2. w = S <=> ~Valid(r, "open", P)
      BY <1>1, <2>1, <3>1
    <3>3. Valid(r, "open", P) <=> Cardinality(On(r, B, P)) >= H
      BY <2>5, Halves DEF Valid
    <3>4. On(r, B, P) \subseteq 0 .. H - 2 \/ Cardinality(On(r, B, P)) >= H
      BY <1>6, <3>1 DEF Resting, Early
    <3> QED BY <3>2, <3>3, <3>4
  <2>9. Mended(r, B, D, w, S, P, F)
    BY <1>2, <1>4, <1>5, <1>6, <2>7, <2>8 DEF Mended
  <2> QED BY <2>1, <2>6, <2>9
<1>7. CASE F # 0
  BY <1>2, <1>4, <1>5, <1>7 DEF Mended
<1> QED BY <1>6, <1>7

-----------------------------------------------------------------------------
(* Reading the slots *)

\* Before the first read nothing was read.
LEMMA MergeStart ==
  ASSUME NEW r \in Disks, NEW q
  PROVE  Merge(r, 0, q) = r
<1>1. \A s \in Slots : ~(s < 0)
  BY Halves
<1> QED BY <1>1 DEF Merge, Disks

\* A read does not change what the reading will find.
LEMMA MergeStep ==
  ASSUME NEW r \in Disks, NEW q \in Disks, NEW n \in Slots
  PROVE  Merge(r, n + 1, [q EXCEPT ![n] = r[n]]) = Merge(r, n, q)
<1>1. \A s \in Slots : s < n + 1 <=> s < n \/ s = n
  BY Halves
<1>2. ~(n < n) /\ n < n + 1
  BY Halves
<1>3. \A s \in Slots : (IF s < n + 1 THEN [q EXCEPT ![n] = r[n]][s] ELSE r[s])
                       = IF s < n THEN q[s] ELSE r[s]
  BY <1>1, <1>2 DEF Disks
<1> QED BY <1>3 DEF Merge

\* The last read completes what will have been found.
LEMMA MergeEnd ==
  ASSUME NEW r \in Disks, NEW q \in Disks, NEW n \in Slots, n + 1 = Copies
  PROVE  [q EXCEPT ![n] = r[n]] = Merge(r, n, q)
<1>1. \A s \in Slots : s < n \/ s = n
  BY Halves
<1>2. ~(n < n)
  BY Halves
<1>3. \A s \in Slots : [q EXCEPT ![n] = r[n]][s] = IF s < n THEN q[s] ELSE r[s]
  BY <1>1, <1>2 DEF Disks
<1>4. [q EXCEPT ![n] = r[n]] = [s \in Slots |-> [q EXCEPT ![n] = r[n]][s]]
  BY DEF Disks
<1> QED BY <1>3, <1>4 DEF Merge

\* What was read in part is a disk.
LEMMA MergeType ==
  ASSUME NEW r \in Disks, NEW q \in Disks, NEW n
  PROVE  Merge(r, n, q) \in Disks
BY DEF Merge, Disks

\* A slot that decays is found as it was, or decayed.
LEMMA MergeDecay ==
  ASSUME NEW r, NEW p, NEW q, NEW n, NEW s \in Slots, Decayed(r, p, s)
  PROVE  Decayed(Merge(r, n, q), Merge(p, n, q), s)
BY DEF Merge, Decayed

\* A slot that decays after it was read, or before.
LEMMA ReadsDecay ==
  ASSUME NEW r, NEW p, NEW q, NEW n, NEW s \in Slots, NEW B, r[s] # Faulty, Decayed(r, p, s),
         Reads(r, Merge(r, n, q), B, 0)
  PROVE  Reads(p, Merge(p, n, q), {s}, 1)
<1>1. \A x \in Slots : r[x] = IF x < n THEN q[x] ELSE r[x]
  BY DEF Reads, Merge
<1>2. SUFFICES ASSUME NEW x \in Slots
               PROVE  \/ p[x] = IF x < n THEN q[x] ELSE p[x]
                      \/ /\ {s} = {x} /\ (IF x < n THEN q[x] ELSE p[x]) # Faulty
                         /\ \/ p[x] = Faulty
                            \/ p[x].chain = (IF x < n THEN q[x] ELSE p[x]).chain
  BY DEF Reads, Merge
<1>3. CASE x # s
  BY <1>1, <1>3 DEF Decayed
<1>4. CASE x = s /\ x < n
  <2>1. q[x] = r[x]
    BY <1>1, <1>4
  <2> QED BY <1>4, <2>1 DEF Decayed
<1>5. CASE x = s /\ ~(x < n)
  BY <1>5
<1> QED BY <1>3, <1>4, <1>5

-----------------------------------------------------------------------------
(* The memory *)

\* n is m at the first slot of a phase of op.
Begun(m, op, phase, n) ==
  /\ n \in Memories /\ n.head \in Steps /\ n.head # Idle
  /\ n.head.caller = op.caller /\ n.head.phase = phase /\ n.head.copy = 0
  /\ n.opened = m.opened /\ n.panicked = m.panicked /\ n.working = m.working
  /\ n.tail = m.tail

\* An operation that begins to read the slots.
LEMMA ReadBegins ==
  ASSUME NEW m, m \in Memories, NEW op, op.caller \in Operations, op.state \in States,
         NEW phase, phase \in {"open", "verify"}
  PROVE  Begun(m, op, phase, Read(m, op, phase)) /\ Read(m, op, phase).staging = m.staging
<1> DEFINE h == Step(op, phase, 0, NoSlots)
           q == [s \in Slots |-> Faulty]
<1>1. h \in Steps /\ h.caller = op.caller /\ h.phase = phase /\ h.copy = 0
  <2>1. 0 \in Slots
    BY Halves
  <2> QED BY <2>1 DEF Step, Steps, NoSlots
<1>2. q \in Disks
  BY DEF Disks
<1>3. PICK n : n = Read(m, op, phase)
  OBVIOUS
<1>4. n = [m EXCEPT !.head = h, !.reading = q]
  BY <1>3 DEF Read
<1> HIDE DEF h, q
<1>5. h # Idle
  BY <1>1, DistinctAssumption
<1>6. Begun(m, op, phase, n) /\ n.staging = m.staging
  BY <1>1, <1>2, <1>4, <1>5 DEF Memories, Begun
<1> QED BY <1>3, <1>6

\* An update that begins to write them.
LEMMA WriteBegins ==
  ASSUME NEW m, m \in Memories, NEW op, op.caller \in Operations, op.state \in States,
         op.caller # "open"
  PROVE  /\ Begun(m, op, "write", Start(m, op))
         /\ Start(m, op).staging = Append(m.working, op.state)
<1> DEFINE h == Step(op, "write", 0, NoSlots)
           c == Append(m.working, op.state)
<1>1. h \in Steps /\ h.caller = op.caller /\ h.phase = "write" /\ h.copy = 0
  <2>1. 0 \in Slots
    BY Halves
  <2> QED BY <2>1 DEF Step, Steps, NoSlots
<1>2. c \in Seq(States)
  BY DEF Memories
<1>3. PICK n : n = Start(m, op)
  OBVIOUS
<1>4. n = [m EXCEPT !.staging = c, !.head = h]
  BY <1>3 DEF Start
<1> HIDE DEF h, c
<1>5. h # Idle
  BY <1>1, DistinctAssumption
<1>6. Begun(m, op, "write", n) /\ n.staging = c
  BY <1>1, <1>2, <1>4, <1>5 DEF Memories, Begun
<1> QED BY <1>3, <1>6 DEF c

\* n is m at the next slot.
Advanced(m, n) ==
  /\ n \in Memories /\ n.head \in Steps /\ n.head # Idle
  /\ n.head.caller = m.head.caller /\ n.head.phase = m.head.phase
  /\ n.head.copy = m.head.copy + 1
  /\ n.opened = m.opened /\ n.panicked = m.panicked /\ n.working = m.working
  /\ n.staging = m.staging /\ n.tail = m.tail

NextCopy(m) == [m EXCEPT !.head.copy = @ + 1]

\* The operation moves to its next slot.
LEMMA HeadAdvances ==
  ASSUME NEW m, m \in Memories, m.head # Idle, m.head.copy + 1 \in Slots
  PROVE  Advanced(m, NextCopy(m)) /\ NextCopy(m).reading = m.reading
<1> DEFINE h == [m.head EXCEPT !.copy = m.head.copy + 1]
<1>1. m.head \in Steps
  BY DEF Memories
<1>2. h \in Steps /\ h.caller = m.head.caller /\ h.phase = m.head.phase /\ h.copy = m.head.copy + 1
  BY <1>1 DEF Steps
<1>3. PICK n : n = NextCopy(m)
  OBVIOUS
<1>4. n = [m EXCEPT !.head = h]
  BY <1>3 DEF NextCopy
<1> HIDE DEF h
<1>5. h # Idle
  BY <1>2, DistinctAssumption
<1>6. Advanced(m, n) /\ n.reading = m.reading
  BY <1>2, <1>4, <1>5 DEF Memories, Advanced
<1> QED BY <1>3, <1>6

\* n is m with d read from slot s.
ReadSlot(m, s, d) == [m EXCEPT !.reading[s] = d]

Grown(m, s, d, n) ==
  /\ n \in Memories /\ n.reading = [m.reading EXCEPT ![s] = d] /\ n.head = m.head
  /\ n.opened = m.opened /\ n.panicked = m.panicked /\ n.working = m.working
  /\ n.staging = m.staging /\ n.tail = m.tail

\* A slot has been read.
LEMMA ReadingGrows ==
  ASSUME NEW m, m \in Memories, NEW s, s \in Slots, NEW d, d \in Headers \cup {Faulty}
  PROVE  Grown(m, s, d, ReadSlot(m, s, d))
<1> DEFINE q == [m.reading EXCEPT ![s] = d]
<1>1. q \in Disks
  BY DEF Memories, Disks
<1>2. PICK n : n = ReadSlot(m, s, d)
  OBVIOUS
<1>3. n = [m EXCEPT !.reading = q]
  BY <1>2 DEF ReadSlot
<1> HIDE DEF q
<1>4. /\ n \in Memories /\ n.reading = q /\ n.head = m.head
      /\ n.opened = m.opened /\ n.panicked = m.panicked /\ n.working = m.working
      /\ n.staging = m.staging /\ n.tail = m.tail
  BY <1>1, <1>3 DEF Memories
<1> QED BY <1>2, <1>4 DEF q, Grown

\* An assertion that holds.
LEMMA Asserted ==
  ASSUME NEW m \in Memories, ~m.panicked, NEW ok, ok = TRUE
  PROVE  Panic(m, ok) = m
<1>1. Panic(m, ok) = [m EXCEPT !.panicked = FALSE]
  <2>1. (m.panicked \/ ~ok) = FALSE
    OBVIOUS
  <2> QED BY <2>1 DEF Panic
<1>2. m.panicked = FALSE
  BY DEF Memories
<1> QED BY <1>1, <1>2 DEF Memories

-----------------------------------------------------------------------------
(* The updates of a replica that serves *)

\* n is m, or m with the update that has begun.
Joins(m, n) ==
  /\ n.working = m.working
  /\ m.head = Idle /\ n.head = Idle => n.staging = m.staging
  /\ m.head = Idle /\ n.head # Idle => n.head.phase = "write" /\ n.head.copy = 0
  /\ m.head # Idle => n.head = m.head /\ n.staging = m.staging /\ n.reading = m.reading

\* The states of the updates.
LEMMA Updated ==
  ASSUME NEW x, Legal(x)
  PROVE  /\ x \in States /\ x.view \in 0 .. MaxView /\ x.log_view \in 0 .. MaxView
         /\ x.op \in 0 .. MaxCheckpoint /\ x.log_view <= x.view
BY DEF Legal, States

InViews(x, v, l) == [x EXCEPT !.view = v, !.log_view = l]

\* The state that view_durable_update asks for.
LEMMA UpdatedViews ==
  ASSUME NEW x, Legal(x), NEW v, v \in 0 .. MaxView, NEW l, l \in 0 .. v
  PROVE  /\ Legal(InViews(x, v, l)) /\ InViews(x, v, l).view = v
         /\ InViews(x, v, l).log_view = l /\ InViews(x, v, l).op = x.op
<1>1. l \in 0 .. MaxView /\ l <= v
  BY BoundsAssumption
<1>2. x \in States
  BY Updated
<1>3. PICK y : y = InViews(x, v, l)
  OBVIOUS
<1>4. y \in States /\ y.view = v /\ y.log_view = l /\ y.op = x.op
  BY <1>1, <1>2, <1>3 DEF States, InViews
<1> QED BY <1>1, <1>3, <1>4 DEF Legal

\* The state that commit_checkpoint_superblock asks for.
LEMMA UpdatedOp ==
  ASSUME NEW x, Legal(x), NEW o \in 0 .. MaxCheckpoint, NEW y, y = [x EXCEPT !.op = o]
  PROVE  Legal(y) /\ y.view = x.view /\ y.log_view = x.log_view /\ y.op = o
<1>1. y \in States /\ y.view = x.view /\ y.log_view = x.log_view /\ y.op = o
  BY Updated DEF States
<1> QED BY <1>1, Updated DEF Legal

\* An update that finds the superblock idle.
LEMMA ServingStarts ==
  ASSUME NEW m \in Memories, m.opened, ~m.panicked, m.head = Idle, m.tail = Idle,
         Chain(m.working), m.working # <<>>,
         NEW op \in Requests, op.caller \in {"checkpoint", "view_change"}, Legal(op.state),
         WouldBeUpdatedBy(Last(m.working), op.state),
         NEW v, NEW l, AtMost(op.state, v, l), NEW n, n = Start(m, op)
  PROVE  /\ Serving(n, v, l) /\ n.head # Idle /\ n.head.phase = "write" /\ n.head.copy = 0
         /\ n.working = m.working /\ n.tail = Idle /\ n.head.caller = op.caller
         /\ Last(n.staging) = op.state
<1>1. op.caller \in Operations /\ op.state \in States /\ op.caller # "open"
  BY DEF Requests, Operations
<1>2. Begun(m, op, "write", n) /\ n.staging = Append(m.working, op.state)
  BY <1>1, WriteBegins
<1>3. /\ Pair(n.working, n.staging) /\ n.staging # n.working /\ Last(n.staging) = op.state
  BY <1>2, Extended DEF WouldBeUpdatedBy, Begun
<1>4. Serving(n, v, l)
  BY <1>2, <1>3 DEF Serving, Begun
<1> QED BY <1>2, <1>3, <1>4 DEF Begun

\* The queue takes an update that is not of the kind in flight.
LEMMA ServingAcquires ==
  ASSUME NEW m, NEW v, NEW l, Serving(m, v, l), NEW op \in Requests,
         op.caller \in {"checkpoint", "view_change"}, Legal(op.state), AtMost(op.state, v, l),
         WouldBeUpdatedBy(Last(m.staging), op.state), ~Updating(m, op.caller),
         IF op.caller = "checkpoint"
         THEN /\ op.state.view = Last(m.staging).view
              /\ op.state.log_view = Last(m.staging).log_view
         ELSE op.state.op = Last(m.staging).op,
         NEW n, n = Acquire(m, op)
  PROVE  Serving(n, v, l) /\ Joins(m, n)
<1>1. m \in Memories /\ m.opened /\ ~m.panicked /\ Chain(m.working) /\ m.working # <<>>
  BY DEF Serving, Pair
<1>2. CASE m.head = Idle
  <2>1. m.tail = Idle /\ m.staging = m.working
    BY <1>2 DEF Serving
  <2>2. n = Start(m, op)
    BY <1>2 DEF Acquire
  <2>3. /\ Serving(n, v, l) /\ n.head # Idle /\ n.head.phase = "write" /\ n.head.copy = 0
        /\ n.working = m.working
    BY <1>1, <1>2, <2>1, <2>2, ServingStarts
  <2> QED BY <1>2, <2>3 DEF Joins
<1>3. CASE m.head # Idle
  <2>1. {m.head.caller, op.caller} = {"checkpoint", "view_change"}
    BY <1>3 DEF Serving, Updating
  <2>2. m.tail = Idle
    BY <1>3, <2>1 DEF Serving, Queued, Updating
  <2>3. (m.tail = Idle /\ {m.head.caller, op.caller} = {"checkpoint", "view_change"}) = TRUE
    BY <2>1, <2>2
  <2>4. Panic(m, m.tail = Idle /\ {m.head.caller, op.caller} = {"checkpoint", "view_change"}) = m
    BY <1>1, <2>3, Asserted
  <2>5. n = [m EXCEPT !.tail = op]
    BY <1>3, <2>4 DEF Acquire
  <2>6. /\ n \in Memories /\ n.tail = op /\ n.head = m.head /\ n.opened = m.opened
        /\ n.panicked = m.panicked /\ n.working = m.working /\ n.staging = m.staging
        /\ n.reading = m.reading
    BY <1>1, <2>5 DEF Memories
  <2>7. Queued(n, v, l)
    BY <2>1, <2>6 DEF Queued
  <2>8. Serving(n, v, l)
    BY <1>3, <2>6, <2>7 DEF Serving
  <2> QED BY <1>3, <2>6, <2>8 DEF Joins
<1> QED BY <1>2, <1>3

\* The views of the replica only grow.
LEMMA ServingOlder ==
  ASSUME NEW m, NEW v \in Nat, NEW l \in Nat, NEW v0 \in 0 .. v, NEW l0 \in 0 .. l,
         Serving(m, v0, l0)
  PROVE  Serving(m, v, l)
<1>1. ASSUME NEW x, Legal(x), AtMost(x, v0, l0)
      PROVE  AtMost(x, v, l)
  <2>1. x.view \in Int /\ x.log_view \in Int
    BY <1>1, Updated
  <2> QED BY <1>1, <2>1 DEF AtMost
<1>2. Legal(Last(m.staging))
  BY Parents DEF Serving, Pair
<1>3. m.tail # Idle => Queued(m, v, l)
  BY <1>1 DEF Serving, Queued
<1>4. AtMost(Last(m.staging), v, l)
  BY <1>1, <1>2 DEF Serving
<1> QED BY <1>3, <1>4 DEF Serving

\* view_durable_update
LEMMA ServingViews ==
  ASSUME NEW m, NEW v \in 0 .. MaxView, NEW l \in 0 .. v, Serving(m, v, l),
         Last(m.staging).view < v \/ Last(m.staging).log_view < l,
         NEW n, n = ViewDurableUpdate(m, v, l)
  PROVE  Serving(n, v, l) /\ Joins(m, n)
<1>1. PICK x : x = Last(m.staging)
  OBVIOUS
<1>2. PICK y : y = InViews(x, v, l)
  OBVIOUS
<1>3. PICK op : op = Operation("view_change", y)
  OBVIOUS
<1>4. m \in Memories /\ ~m.panicked /\ Legal(x) /\ AtMost(x, v, l) /\ (x.view < v \/ x.log_view < l)
  BY <1>1, Parents DEF Serving, Pair
<1>5. CASE Updating(m, "view_change")
  BY <1>5 DEF ViewDurableUpdate, Joins
<1>6. CASE ~Updating(m, "view_change")
  <2>1. Legal(y) /\ y.view = v /\ y.log_view = l /\ y.op = x.op
    BY <1>2, <1>4, UpdatedViews
  <2>2. x.op \in Int
    BY <1>4, Updated
  <2>3. WouldBeUpdatedBy(x, y)
    <3>1. x.op <= y.op /\ x.view <= y.view /\ x.log_view <= y.log_view
      BY <1>4, <2>1, <2>2 DEF AtMost
    <3>2. x # y
      BY <1>4, <2>1
    <3> QED BY <3>1, <3>2 DEF WouldBeUpdatedBy, Monotonic
  <2>4. WouldBeUpdatedBy(x, y) = TRUE
    BY <2>3 DEF WouldBeUpdatedBy
  <2>5. Panic(m, WouldBeUpdatedBy(x, y)) = m
    BY <1>4, <2>4, Asserted
  <2>6. n = Acquire(m, op)
    BY <1>1, <1>2, <1>3, <1>6, <2>5 DEF ViewDurableUpdate, InViews
  <2>7. /\ op \in Requests /\ op.caller = "view_change" /\ op.state = y
    BY <1>3, <2>1 DEF Operation, Requests, Operations, Legal
  <2>8. AtMost(op.state, v, l) /\ Legal(op.state) /\ WouldBeUpdatedBy(Last(m.staging), op.state)
    BY <1>1, <1>4, <2>1, <2>3, <2>7, Updated DEF AtMost
  <2>9. op.caller \in {"checkpoint", "view_change"} /\ ~Updating(m, op.caller)
    BY <1>6, <2>7
  <2>10. IF op.caller = "checkpoint"
         THEN /\ op.state.view = Last(m.staging).view
              /\ op.state.log_view = Last(m.staging).log_view
         ELSE op.state.op = Last(m.staging).op
    BY <1>1, <2>1, <2>7
  <2> QED BY <2>6, <2>7, <2>8, <2>9, <2>10, ServingAcquires
<1> QED BY <1>5, <1>6

\* commit_checkpoint_superblock
LEMMA ServingCheckpoint ==
  ASSUME NEW m, NEW v, NEW l, Serving(m, v, l), ~Updating(m, "checkpoint"),
         Last(m.staging).op < MaxCheckpoint,
         NEW n, n = CheckpointUpdate(m, Last(m.staging).op + 1)
  PROVE  Serving(n, v, l) /\ Joins(m, n)
<1>1. PICK x : x = Last(m.staging)
  OBVIOUS
<1>2. PICK y : y = [x EXCEPT !.op = x.op + 1]
  OBVIOUS
<1>3. PICK op : op = Operation("checkpoint", y)
  OBVIOUS
<1>4. m \in Memories /\ ~m.panicked /\ Legal(x) /\ AtMost(x, v, l)
  BY <1>1, Parents DEF Serving, Pair
<1>5. /\ x.op + 1 \in 0 .. MaxCheckpoint /\ x.op \in Int /\ x.view \in Int /\ x.log_view \in Int
  BY <1>1, <1>4, Updated, BoundsAssumption
<1>6. Legal(y) /\ y.view = x.view /\ y.log_view = x.log_view /\ y.op = x.op + 1
  BY <1>2, <1>4, <1>5, UpdatedOp
<1>7. WouldBeUpdatedBy(x, y)
  <2>1. x.op <= y.op /\ x.view <= y.view /\ x.log_view <= y.log_view /\ x # y
    BY <1>5, <1>6
  <2> QED BY <2>1 DEF WouldBeUpdatedBy, Monotonic
<1>8. WouldBeUpdatedBy(x, y) = TRUE
  BY <1>7 DEF WouldBeUpdatedBy
<1>9. Panic(m, WouldBeUpdatedBy(x, y)) = m
  BY <1>4, <1>8, Asserted
<1>10. n = Acquire(m, op)
  BY <1>1, <1>2, <1>3, <1>9 DEF CheckpointUpdate
<1>11. op \in Requests /\ op.caller = "checkpoint" /\ op.state = y
  BY <1>3, <1>6 DEF Operation, Requests, Operations, Legal
<1>12. AtMost(op.state, v, l) /\ Legal(op.state) /\ WouldBeUpdatedBy(Last(m.staging), op.state)
  BY <1>1, <1>4, <1>6, <1>7, <1>11 DEF AtMost
<1>13. op.caller \in {"checkpoint", "view_change"} /\ ~Updating(m, op.caller)
  BY <1>11
<1>14. IF op.caller = "checkpoint"
       THEN /\ op.state.view = Last(m.staging).view
            /\ op.state.log_view = Last(m.staging).log_view
       ELSE op.state.op = Last(m.staging).op
  BY <1>1, <1>6, <1>11
<1> QED BY <1>10, <1>11, <1>12, <1>13, <1>14, ServingAcquires

-----------------------------------------------------------------------------
(* The end of an operation *)

\* n is through with what it wrote, w, or has begun what waited.
Settled(n, w) ==
  /\ n.working = w
  /\ n.head = Idle => n.staging = w
  /\ n.head # Idle => n.head.phase = "write" /\ n.head.copy = 0

\* What was found becomes what is known.
Adopt(m, w) == [m EXCEPT !.working = w, !.staging = w]

Adoption(m, w, n) ==
  /\ n \in Memories /\ n.working = w /\ n.staging = w /\ n.head = m.head
  /\ n.tail = m.tail /\ n.opened = m.opened /\ n.panicked = m.panicked
  /\ n.reading = m.reading

\* read_working_done takes what it found for working and for staging.
LEMMA Adopted ==
  ASSUME NEW m, m \in Memories, NEW w, w \in Seq(States)
  PROVE  Adoption(m, w, Adopt(m, w))
<1>1. PICK n : n = Adopt(m, w)
  OBVIOUS
<1>2. Adoption(m, w, n)
  BY <1>1 DEF Adopt, Adoption, Memories
<1> QED BY <1>1, <1>2

\* The memory without its operations.
Freed(m) == [m EXCEPT !.head = Idle, !.tail = Idle, !.opened = @ \/ m.head.caller = "open"]

Freeing(m, n) ==
  /\ n \in Memories /\ n.head = Idle /\ n.tail = Idle
  /\ n.opened = (m.opened \/ m.head.caller = "open")
  /\ n.working = m.working /\ n.staging = m.staging /\ n.panicked = m.panicked

\* release leaves the memory without an operation.
LEMMA FreedFields ==
  ASSUME NEW m, m \in Memories
  PROVE  Freeing(m, Freed(m))
<1>1. PICK b : b = (m.opened \/ m.head.caller = "open")
  OBVIOUS
<1>2. b \in BOOLEAN
  BY <1>1
<1>3. PICK n : n = Freed(m)
  OBVIOUS
<1>4. n = [m EXCEPT !.head = Idle, !.tail = Idle, !.opened = b]
  BY <1>1, <1>3 DEF Freed
<1>5. /\ n \in Memories /\ n.head = Idle /\ n.tail = Idle /\ n.opened = b
      /\ n.working = m.working /\ n.staging = m.staging /\ n.panicked = m.panicked
  BY <1>2, <1>4 DEF Memories
<1> QED BY <1>1, <1>3, <1>5 DEF Freeing

\* An update that was verified: the next one begins, which is the one that
\* waited or the one for the views the replica has reached meanwhile.
LEMMA ServingReleases ==
  ASSUME NEW m, NEW v, v \in 0 .. MaxView, NEW l, l \in 0 .. v, Serving(m, v, l), m.head # Idle,
         NEW n, n = Release(Adopt(m, m.staging), v, l)
  PROVE  Serving(n, v, l) /\ Settled(n, m.staging)
<1>1. PICK w : w = m.staging
  OBVIOUS
<1>2. /\ m \in Memories /\ m.opened /\ ~m.panicked /\ Chain(w) /\ w # <<>> /\ Pair(w, w)
      /\ AtMost(Last(w), v, l) /\ w \in Seq(States)
  BY <1>1 DEF Serving, Pair, Chain
<1>3. PICK k : k = Adopt(m, w)
  OBVIOUS
<1>4. /\ k \in Memories /\ k.working = w /\ k.staging = w /\ k.head = m.head
      /\ k.tail = m.tail /\ k.opened = m.opened /\ k.panicked = m.panicked
  BY <1>2, <1>3, Adopted DEF Adoption
<1>5. PICK f : f = Freed(k)
  OBVIOUS
<1>6. /\ f \in Memories /\ f.head = Idle /\ f.tail = Idle /\ f.opened
      /\ f.working = w /\ f.staging = w /\ ~f.panicked
  BY <1>2, <1>4, <1>5, FreedFields DEF Freeing
<1>7. PICK next : next = IF k.tail = Idle THEN f ELSE Start(f, k.tail)
  OBVIOUS
<1>8. /\ Serving(next, v, l) /\ Settled(next, w)
      /\ m.head.caller = "view_change" =>
           /\ Last(next.staging).view = Last(w).view
           /\ Last(next.staging).log_view = Last(w).log_view
  <2>1. CASE m.tail = Idle
    <3>1. next = f
      BY <2>1, <1>4, <1>7
    <3>2. Serving(f, v, l) /\ Settled(f, w)
      BY <1>2, <1>6 DEF Serving, Settled
    <3> QED BY <3>1, <3>2, <1>6
  <2>2. CASE m.tail # Idle
    <3>1. PICK op : op = m.tail
      OBVIOUS
    <3>2. /\ {op.caller, m.head.caller} = {"checkpoint", "view_change"}
          /\ Legal(op.state) /\ WouldBeUpdatedBy(Last(w), op.state) /\ AtMost(op.state, v, l)
          /\ op.caller = "checkpoint" => /\ op.state.view = Last(w).view
                                         /\ op.state.log_view = Last(w).log_view
      BY <1>1, <2>2, <3>1 DEF Serving, Queued
    <3>3. op \in Requests /\ op.caller \in {"checkpoint", "view_change"}
      BY <1>2, <2>2, <3>1, <3>2 DEF Memories
    <3>4. next = Start(f, op)
      BY <2>2, <1>4, <1>7, <3>1
    <3>5. /\ Serving(next, v, l) /\ next.head # Idle /\ next.head.phase = "write" /\ next.head.copy = 0
          /\ next.working = f.working /\ Last(next.staging) = op.state
      BY <1>2, <1>6, <3>2, <3>3, <3>4, ServingStarts
    <3>6. m.head.caller = "view_change" => op.caller = "checkpoint"
      BY <3>2
    <3> QED BY <1>6, <3>2, <3>5, <3>6 DEF Settled
  <2> QED BY <2>1, <2>2
<1>9. n = IF m.head.caller = "view_change" /\ (l > Last(w).log_view \/ v > Last(w).view)
          THEN ViewDurableUpdate(next, v, l) ELSE next
  <2>1. n = Release(k, v, l)
    BY <1>1, <1>3
  <2>2. f = [k EXCEPT !.head = Idle, !.tail = Idle, !.opened = @ \/ k.head.caller = "open"]
    BY <1>5 DEF Freed
  <2> QED BY <1>4, <1>7, <2>1, <2>2 DEF Release
<1>10. CASE ~(m.head.caller = "view_change" /\ (l > Last(w).log_view \/ v > Last(w).view))
  BY <1>1, <1>8, <1>9, <1>10
<1>11. CASE m.head.caller = "view_change" /\ (l > Last(w).log_view \/ v > Last(w).view)
  <2>1. Last(next.staging).view < v \/ Last(next.staging).log_view < l
    <3>1. Legal(Last(w))
      BY <1>2, Parents
    <3>2. Last(w).view \in Int /\ Last(w).log_view \in Int /\ v \in Int /\ l \in Int
      BY <3>1, Updated, BoundsAssumption
    <3> QED BY <1>8, <1>11, <3>2
  <2>2. n = ViewDurableUpdate(next, v, l)
    BY <1>9, <1>11
  <2>3. Serving(n, v, l) /\ Joins(next, n)
    BY <1>8, <2>1, <2>2, ServingViews
  <2>4. Settled(n, w)
    BY <1>8, <2>3 DEF Settled, Joins
  <2> QED BY <1>1, <2>3, <2>4
<1> QED BY <1>10, <1>11

\* format() is done.
LEMMA FormatReleases ==
  ASSUME NEW m, Formatting(m), NEW v, NEW l, NEW n, n = Release(Adopt(m, m.staging), v, l)
  PROVE  /\ n \in Memories /\ n.head = Idle /\ n.tail = Idle /\ ~n.opened /\ ~n.panicked
         /\ n.working = m.staging /\ n.staging = m.staging
<1>1. /\ m \in Memories /\ ~m.opened /\ ~m.panicked /\ m.head.caller = "format" /\ m.tail = Idle
      /\ m.staging \in Seq(States)
  BY DEF Formatting, Memories
<1>2. PICK k : k = Adopt(m, m.staging)
  OBVIOUS
<1>3. /\ k \in Memories /\ k.working = m.staging /\ k.staging = m.staging /\ k.head = m.head
      /\ k.tail = m.tail /\ k.opened = m.opened /\ k.panicked = m.panicked
  BY <1>1, <1>2, Adopted DEF Adoption
<1>4. n = Freed(k)
  BY <1>1, <1>2, <1>3 DEF Release, Freed
<1>5. Freeing(k, n)
  BY <1>3, <1>4, FreedFields
<1>6. (k.opened \/ k.head.caller = "open") = FALSE
  BY <1>1, <1>3
<1>7. n.opened = FALSE
  BY <1>5, <1>6 DEF Freeing
<1> QED BY <1>1, <1>3, <1>5, <1>7 DEF Freeing

\* open() is done: the replica starts in the views it has found.
LEMMA OpenReleases ==
  ASSUME NEW m, m \in Memories, ~m.opened, ~m.panicked, m.head # Idle, m.head.caller = "open",
         m.tail = Idle, Chain(m.working), m.working # <<>>, m.staging = m.working,
         NEW v, NEW l, NEW n, n = Release(m, v, l)
  PROVE  /\ Serving(n, Last(m.working).view, Last(m.working).log_view) /\ n.head = Idle
         /\ n.working = m.working
<1>1. n = Freed(m)
  BY DEF Release, Freed
<1>2. Freeing(m, n)
  BY <1>1, FreedFields
<1>3. (m.opened \/ m.head.caller = "open") = TRUE
  OBVIOUS
<1>4. n.opened = TRUE
  BY <1>2, <1>3 DEF Freeing
<1>5. /\ n \in Memories /\ n.head = Idle /\ n.tail = Idle /\ n.opened
      /\ n.working = m.working /\ n.staging = m.staging /\ ~n.panicked
  BY <1>2, <1>4 DEF Freeing
<1>6. Legal(Last(m.working))
  BY Parents
<1>7. AtMost(Last(m.working), Last(m.working).view, Last(m.working).log_view)
  BY <1>6, Updated DEF AtMost
<1>8. Pair(n.working, n.staging)
  BY <1>5 DEF Pair
<1> QED BY <1>5, <1>7, <1>8 DEF Serving

-----------------------------------------------------------------------------
(* The repairs *)

\* The next repair may be of a slot that open() counts as present.
LEMMA MendedLess ==
  ASSUME NEW r, NEW B, NEW D, NEW w, NEW S, NEW P, NEW F, Mended(r, B, D, w, S, P, F),
         NEW x, F = 0 => x \notin D
  PROVE  Mended(r, B, D \ {x}, w, S, P, F)
<1>1. F = 0 => D \ {x} = D
  OBVIOUS
<1>2. CASE F = 0
  <2>1. D \ {x} = D
    BY <1>1, <1>2
  <2> QED BY <2>1
<1>3. CASE F # 0
  BY <1>3 DEF Mended
<1> QED BY <1>2, <1>3

\* n repairs the next slot, or serves with w.
Mends(n, r, B, w, S, P, F) ==
  \/ n.working = w /\ Mending(n, r, B, S, P, F)
  \/ /\ n.working = w /\ Waiting(n, Last(w).view, Last(w).log_view, r, B, F)

\* repair: the next slot of the iterator, or the end of open().
LEMMA RepairGoesOn ==
  ASSUME NEW r \in Disks, NEW B \in SUBSET Slots, NEW S, NEW P, Pair(S, P), S # <<>>, NEW F,
         NEW m, m \in Memories, ~m.opened, ~m.panicked, m.tail = Idle, m.head # Idle,
         m.head.caller = "open", m.staging = m.working,
         NEW slots \in [Slots -> Slots \cup {None}],
         F = 0 => \A s \in Slots : slots[s] \in {s, None},
         NEW D, D = {s \in Slots : slots[s] # None},
         Mended(r, B, D, m.working, S, P, F), NEW v, NEW l
  PROVE  Mends(Repair(m, slots, v, l), r, B, m.working, S, P, F)
<1>1. PICK w : w = m.working
  OBVIOUS
<1>2. PICK s : s = NextRepair(slots)
  OBVIOUS
<1>3. /\ s = None => \A x \in Slots : slots[x] # None
      /\ s # None => s \in Slots /\ (F = 0 => slots[s] = None)
  BY <1>2, NextSlot
<1>4. w \in {S, P} /\ Chain(w) /\ w # <<>>
  BY <1>1 DEF Mended, Pair
<1>5. PICK n : n = Repair(m, slots, v, l)
  OBVIOUS
<1>6. CASE s = None
  <2>1. n = Release(m, v, l)
    BY <1>2, <1>5, <1>6 DEF Repair
  <2>2. Serving(n, Last(w).view, Last(w).log_view) /\ n.head = Idle /\ n.working = w
    BY <1>1, <1>4, <2>1, OpenReleases
  <2>3. D = Slots
    BY <1>3, <1>6
  <2>4. Passed(r, B, w, w, 0) /\ (F = 0 => B = {})
    <3>1. Mended(r, B, Slots, w, S, P, F)
      BY <1>1, <2>3
    <3> QED BY <3>1, MendedAll
  <2>5. Waiting(n, Last(w).view, Last(w).log_view, r, B, F)
    BY <2>2, <2>4 DEF Waiting
  <2> QED BY <1>1, <1>5, <2>2, <2>5 DEF Mends
<1>7. CASE s # None
  <2>1. PICK e : e = [slots EXCEPT ![s] = s]
    OBVIOUS
  <2>2. e \in [Slots -> Slots \cup {None}] /\ e[s] = s /\ \A x \in Slots \ {s} : e[x] = slots[x]
    BY <1>3, <1>7, <2>1
  <2>3. PICK h : h = Step(m.head, "repair", s, e)
    OBVIOUS
  <2>4. /\ h \in Steps /\ h # Idle /\ h.caller = "open" /\ h.phase = "repair"
        /\ h.copy = s /\ h.slots = e
    <3>1. m.head \in Steps
      BY DEF Memories
    <3>2. h \in Steps /\ h.caller = "open" /\ h.phase = "repair" /\ h.copy = s /\ h.slots = e
      BY <1>3, <1>7, <2>2, <2>3, <3>1 DEF Step, Steps
    <3> QED BY <3>2, DistinctAssumption
  <2>5. n = [m EXCEPT !.staging = m.working, !.head = h]
    BY <1>2, <1>5, <1>7, <2>1, <2>3 DEF Repair
  <2>6. /\ n \in Memories /\ n.head = h /\ n.staging = w /\ n.working = w /\ n.tail = Idle
        /\ n.opened = m.opened /\ n.panicked = m.panicked
    BY <1>1, <2>4, <2>5 DEF Memories
  <2>7. Repaired(n) = D \ {s}
    <3>1. Repaired(n) = {x \in Slots : e[x] # None} \ {s}
      BY <2>4, <2>6 DEF Repaired
    <3> QED BY <3>1, <2>2
  <2>8. F = 0 => s \notin D
    BY <1>3, <1>7
  <2>9. Mended(r, B, Repaired(n), w, S, P, F)
    BY <1>1, <2>7, <2>8, MendedLess
  <2>10. F = 0 => \A x \in Slots : e[x] \in {x, None}
    BY <2>2
  <2>11. Mending(n, r, B, S, P, F)
    BY <2>4, <2>6, <2>9, <2>10, <2>2 DEF Mending
  <2> QED BY <1>1, <1>5, <2>6, <2>11 DEF Mends
<1> QED BY <1>6, <1>7

\* A repair that has landed, or went astray.
LEMMA MendingWrites ==
  ASSUME NEW r, NEW B, NEW F, NEW q \in Disks, NEW C \in SUBSET Slots, NEW G,
         NEW S, NEW P, Pair(S, P), S # <<>>, NEW m, Mending(m, r, B, S, P, F),
         F = 0 \/ G # 0,
         Mended(q, C, Repaired(m) \cup {m.head.copy}, m.working, S, P, G), NEW v, NEW l
  PROVE  Mends(WriteDone(m, v, l), q, C, m.working, S, P, G)
<1>1. PICK slots : slots = m.head.slots
  OBVIOUS
<1>2. /\ m \in Memories /\ ~m.opened /\ ~m.panicked /\ m.tail = Idle
      /\ m.head # Idle /\ m.head.caller = "open" /\ m.staging = m.working
      /\ m.head.phase = "repair"
  BY DEF Mending
<1>3. m.head \in Steps
  BY <1>2 DEF Memories
<1>4. slots \in [Slots -> Slots \cup {None}] /\ m.head.copy \in Slots
  BY <1>1, <1>3 DEF Steps
<1>5. slots[m.head.copy] # None
  BY <1>1, <1>4, DistinctAssumption DEF Mending
<1>6. PICK D : D = {s \in Slots : slots[s] # None}
  OBVIOUS
<1>7. D = Repaired(m) \cup {m.head.copy}
  BY <1>1, <1>4, <1>5, <1>6 DEF Repaired
<1>8. G = 0 => \A s \in Slots : slots[s] \in {s, None}
  BY <1>1 DEF Mending
<1>9. WriteDone(m, v, l) = Repair(m, slots, v, l)
  BY <1>1, <1>2 DEF WriteDone
<1>10. Mended(q, C, D, m.working, S, P, G)
  BY <1>7
<1>11. Mends(Repair(m, slots, v, l), q, C, m.working, S, P, G)
  BY <1>2, <1>4, <1>6, <1>8, <1>10, RepairGoesOn
<1> QED BY <1>9, <1>11

-----------------------------------------------------------------------------
(* The steps of one operation *)

\* The update in flight stays the same when its head moves.
LEMMA SameUpdate ==
  ASSUME NEW m, NEW v, NEW l, Formatting(m) \/ Serving(m, v, l), m.head # Idle,
         NEW n, n \in Memories, n.head # Idle, n.head.caller = m.head.caller,
         n.head.phase \in {"write", "verify"},
         n.opened = m.opened, n.panicked = m.panicked, n.working = m.working,
         n.staging = m.staging, n.tail = m.tail
  PROVE  (Formatting(m) => Formatting(n)) /\ (Serving(m, v, l) => Serving(n, v, l))
<1>1. Formatting(m) => Formatting(n)
  BY DEF Formatting
<1>2. Serving(m, v, l) /\ m.tail # Idle => Queued(n, v, l)
  BY DEF Serving, Queued
<1>3. Serving(m, v, l) => Serving(n, v, l)
  BY <1>2 DEF Serving
<1> QED BY <1>1, <1>3

\* n is at another slot of the update of m.
Proceeds(m, n) ==
  /\ n.opened = m.opened /\ n.working = m.working /\ n.staging = m.staging
  /\ n.head # Idle /\ n.head.caller = m.head.caller

\* The operation in flight.
LEMMA HeadFields ==
  ASSUME NEW m, m \in Memories, m.head # Idle
  PROVE  /\ m.head \in Steps /\ m.head.copy \in Slots /\ m.head.caller \in Operations
         /\ m.head.state \in States /\ m.head.slots \in [Slots -> Slots \cup {None}]
BY DEF Memories, Steps

\* An update in flight extends what was promised.
LEMMA OverwritingMemory ==
  ASSUME NEW m, NEW v, NEW l, NEW r, NEW B, NEW F, Overwriting(m, v, l, r, B, F)
  PROVE  /\ m \in Memories /\ m.head # Idle /\ ~m.panicked /\ m.head.copy \in Slots
         /\ m.head.phase \in {"write", "verify"}
         /\ Pair(m.working, m.staging) /\ m.staging # m.working
         /\ m.working \in Seq(States) /\ m.staging \in Seq(States) /\ m.staging # <<>>
<1>1. m \in Memories /\ m.head # Idle /\ ~m.panicked /\ m.head.phase \in {"write", "verify"}
  BY DEF Overwriting, Formatting, Serving
<1>2. CASE Formatting(m)
  <2>1. Legal(Root) /\ Chain(<<>>)
    BY BoundsAssumption DEF Legal, Root, States, Chain
  <2>2. Pair(<<>>, Append(<<>>, Root)) /\ Append(<<>>, Root) # <<>>
    BY <2>1, Extended
  <2>3. Append(<<>>, Root) = <<Root>>
    OBVIOUS
  <2>4. Pair(m.working, m.staging) /\ m.staging # m.working
    BY <1>2, <2>2, <2>3 DEF Formatting
  <2> QED BY <1>1, <2>4, HeadFields DEF Pair, Chain
<1>3. CASE Serving(m, v, l)
  <2>1. Pair(m.working, m.staging) /\ m.staging # m.working
    BY <1>1, <1>3 DEF Serving
  <2> QED BY <1>1, <2>1, HeadFields DEF Pair, Chain
<1> QED BY <1>2, <1>3 DEF Overwriting

\* A write that has landed, or went astray.
LEMMA OverwritingWrites ==
  ASSUME NEW m, NEW v, NEW l, NEW r, NEW B, NEW F, Overwriting(m, v, l, r, B, F),
         m.head.phase = "write",
         NEW q \in Disks, NEW C, NEW G, G = 0 => C = {},
         Passed(q, C, m.working, m.staging, m.head.copy + 1)
  PROVE  /\ Overwriting(WriteDone(m, v, l), v, l, q, C, G)
         /\ Proceeds(m, WriteDone(m, v, l))
<1>1. /\ m \in Memories /\ m.head # Idle /\ ~m.panicked /\ m.head.copy \in Slots
      /\ m.head.caller \in Operations /\ m.head.state \in States
  BY OverwritingMemory, HeadFields
<1>2. Formatting(m) \/ Serving(m, v, l)
  BY DEF Overwriting
<1>3. PICK n : n = WriteDone(m, v, l)
  OBVIOUS
<1>4. CASE m.head.copy + 1 = Copies
  <2>1. n = Read(m, m.head, "verify")
    BY <1>3, <1>4 DEF WriteDone
  <2>2. Begun(m, m.head, "verify", n) /\ n.staging = m.staging
    BY <1>1, <2>1, ReadBegins
  <2>3. Formatting(n) \/ Serving(n, v, l)
    BY <1>1, <1>2, <2>2, SameUpdate DEF Begun
  <2>4. Progress(n) = Copies
    BY <2>2 DEF Progress, Begun
  <2>5. Merged(q, n) = q
    BY <2>2, MergeStart DEF Merged, Begun
  <2>6. Passed(q, C, n.working, n.staging, Copies)
    BY <1>4, <2>2 DEF Begun
  <2>7. Overwriting(n, v, l, q, C, G)
    BY <2>2, <2>3, <2>4, <2>5, <2>6 DEF Overwriting, Begun
  <2> QED BY <1>3, <2>2, <2>7 DEF Proceeds, Begun
<1>5. CASE m.head.copy + 1 # Copies
  <2>1. n = NextCopy(m)
    BY <1>3, <1>5 DEF WriteDone, NextCopy
  <2>2. m.head.copy + 1 \in Slots
    BY <1>1, <1>5, Halves
  <2>3. Advanced(m, n)
    BY <1>1, <2>1, <2>2, HeadAdvances
  <2>4. Formatting(n) \/ Serving(n, v, l)
    BY <1>1, <1>2, <2>3, SameUpdate DEF Advanced
  <2>5. Progress(n) = m.head.copy + 1 /\ n.head.phase = "write"
    BY <2>3 DEF Progress, Advanced
  <2>6. Overwriting(n, v, l, q, C, G)
    BY <2>3, <2>4, <2>5 DEF Overwriting, Advanced
  <2> QED BY <1>3, <2>3, <2>6 DEF Proceeds, Advanced
<1> QED BY <1>4, <1>5

\* A read, but for the last.
LEMMA OverwritingReads ==
  ASSUME NEW m, NEW v, NEW l, NEW r \in Disks, NEW B, NEW F, Overwriting(m, v, l, r, B, F),
         m.head.phase = "verify", m.head.copy + 1 \in Slots,
         NEW k, Grown(m, m.head.copy, r[m.head.copy], k)
  PROVE  /\ Overwriting(NextCopy(k), v, l, r, B, F)
         /\ Proceeds(m, NextCopy(k))
<1>1. m \in Memories /\ m.head # Idle /\ ~m.panicked /\ m.head.copy \in Slots /\ m.reading \in Disks
  BY OverwritingMemory DEF Memories
<1>3. Grown(m, m.head.copy, r[m.head.copy], k)
  OBVIOUS
<1>4. PICK n : n = NextCopy(k)
  OBVIOUS
<1>5. Advanced(k, n) /\ n.reading = k.reading
  BY <1>1, <1>3, <1>4, HeadAdvances DEF Grown
<1>6. /\ n \in Memories /\ n.head # Idle /\ n.head.caller = m.head.caller /\ n.head.phase = "verify"
      /\ n.opened = m.opened /\ n.panicked = m.panicked /\ n.working = m.working
      /\ n.staging = m.staging /\ n.tail = m.tail
  BY <1>3, <1>5 DEF Grown, Advanced
<1>7. Formatting(n) \/ Serving(n, v, l)
  BY <1>1, <1>6, SameUpdate DEF Overwriting
<1>8. Merged(r, n) = Merged(r, m)
  BY <1>1, <1>3, <1>5, MergeStep DEF Grown, Advanced, Merged
<1>9. Progress(n) = Progress(m)
  BY <1>6 DEF Progress
<1>10. Overwriting(n, v, l, r, B, F)
  BY <1>6, <1>7, <1>8, <1>9 DEF Overwriting
<1> QED BY <1>4, <1>6, <1>10 DEF Proceeds

\* What format() leaves.
Formatted(n, w) == /\ n \in Memories /\ n.head = Idle /\ n.tail = Idle
                   /\ ~n.opened /\ ~n.panicked /\ n.staging = w

\* The last read finds what was written.
LEMMA OverwritingEnds ==
  ASSUME NEW m, NEW v, v \in 0 .. MaxView, NEW l, l \in 0 .. v, NEW r \in Disks,
         NEW B, B \in SUBSET Slots, NEW F, Overwriting(m, v, l, r, B, F),
         m.head.phase = "verify", m.head.copy + 1 = Copies,
         NEW k, Grown(m, m.head.copy, r[m.head.copy], k),
         NEW w \in Working(k.reading, k.head.phase)
  PROVE  /\ w = m.staging /\ Decide(k, w, v, l).working = w
         /\ Formatting(m) => Formatted(Decide(k, w, v, l), w)
         /\ Serving(m, v, l) => \/ Overwriting(Decide(k, w, v, l), v, l, r, B, F)
                                \/ Waiting(Decide(k, w, v, l), v, l, r, B, F)
<1> SUFFICES ASSUME NEW n, n = Decide(k, w, v, l)
             PROVE  /\ w = m.staging /\ n.working = w
                    /\ Formatting(m) => Formatted(n, w)
                    /\ Serving(m, v, l) => Overwriting(n, v, l, r, B, F) \/ Waiting(n, v, l, r, B, F)
  OBVIOUS
<1>1. /\ m \in Memories /\ m.head # Idle /\ m.head.copy \in Slots /\ m.reading \in Disks
      /\ Pair(m.working, m.staging) /\ m.staging \in Seq(States) /\ m.staging # <<>>
  BY OverwritingMemory DEF Memories
<1>3. Grown(m, m.head.copy, r[m.head.copy], k)
  OBVIOUS
<1>4. k.reading = Merged(r, m) /\ k.reading \in Disks
  <2>1. k.reading = [m.reading EXCEPT ![m.head.copy] = r[m.head.copy]]
    BY <1>3 DEF Grown
  <2>2. [m.reading EXCEPT ![m.head.copy] = r[m.head.copy]] = Merge(r, m.head.copy, m.reading)
    BY <1>1, MergeEnd
  <2> QED BY <1>1, <2>1, <2>2, MergeType DEF Merged
<1>5. Working(k.reading, "verify") = {m.staging}
  BY <1>1, <1>4, Verified DEF Overwriting
<1>6. w = m.staging /\ k.head.phase = "verify"
  BY <1>3, <1>5 DEF Grown
<1>7. n = Release(Adopt(k, w), v, l)
  <2>1. w # NoQuorum /\ ~(k.head.phase = "verify" /\ w # k.staging) /\ k.head.phase # "open"
    BY <1>1, <1>3, <1>6 DEF Grown, NoQuorum
  <2> QED BY <2>1 DEF Decide, Adopt
<1>8. k.staging = m.staging /\ k.head = m.head
  BY <1>3 DEF Grown
<1>9. (Formatting(m) => Formatting(k)) /\ (Serving(m, v, l) => Serving(k, v, l))
  BY <1>1, <1>3, <1>6, SameUpdate DEF Grown, Overwriting
<1>10. CASE Formatting(m)
  <2>1. /\ n \in Memories /\ n.head = Idle /\ n.tail = Idle /\ ~n.opened /\ ~n.panicked
        /\ n.working = w /\ n.staging = w
    BY <1>6, <1>7, <1>8, <1>9, <1>10, FormatReleases
  <2>2. ~Serving(m, v, l)
    BY <1>10 DEF Formatting, Serving
  <2> QED BY <1>6, <2>1, <2>2 DEF Formatted
<1>11. CASE Serving(m, v, l)
  <2>1. Serving(n, v, l) /\ Settled(n, w)
    BY <1>1, <1>6, <1>7, <1>8, <1>9, <1>11, ServingReleases
  <2>2. Passed(r, B, w, w, 0)
    <3>1. Passed(r, B, m.working, m.staging, Copies)
      BY <1>6, <1>8 DEF Overwriting, Progress
    <3> QED BY <1>1, <1>6, <3>1, PassedOver
  <2>3. CASE n.head = Idle
    <3>1. n.working = w /\ n.staging = w
      BY <2>1, <2>3 DEF Settled
    <3>2. Waiting(n, v, l, r, B, F)
      BY <2>1, <2>2, <2>3, <3>1 DEF Waiting, Overwriting
    <3>3. ~Formatting(m)
      BY <1>11 DEF Formatting, Serving
    <3> QED BY <1>6, <3>1, <3>2, <3>3
  <2>4. CASE n.head # Idle
    <3>1. Pair(n.working, n.staging) /\ n.working # <<>> /\ n.staging # n.working /\ n.working = w
      BY <2>1, <2>4 DEF Serving, Settled
    <3>2. Passed(r, B, n.working, n.staging, 0)
      BY <2>2, <3>1, PassedStart
    <3>3. Progress(n) = 0 /\ n.head.phase = "write"
      BY <2>1, <2>4 DEF Settled, Progress
    <3>4. Overwriting(n, v, l, r, B, F)
      BY <2>1, <2>4, <3>2, <3>3 DEF Overwriting
    <3> QED BY <1>6, <1>11, <2>1, <3>4 DEF Settled, Formatting, Serving
  <2> QED BY <2>3, <2>4
<1> QED BY <1>10, <1>11 DEF Overwriting

\* open() reads a slot, but for the last.
LEMMA FindingReads ==
  ASSUME NEW m, NEW r \in Disks, NEW B, NEW S, NEW P, NEW F, Finding(m, r, B, S, P, F),
         m.head.copy + 1 \in Slots, NEW k, Grown(m, m.head.copy, r[m.head.copy], k)
  PROVE  Finding(NextCopy(k), r, B, S, P, F)
<1>1. m \in Memories /\ m.head # Idle /\ m.head.copy \in Slots /\ m.reading \in Disks
  BY HeadFields DEF Finding, Memories
<1>3. Grown(m, m.head.copy, r[m.head.copy], k)
  OBVIOUS
<1>4. PICK n : n = NextCopy(k)
  OBVIOUS
<1>5. Advanced(k, n) /\ n.reading = k.reading
  BY <1>1, <1>3, <1>4, HeadAdvances DEF Grown
<1>6. Merged(r, n) = Merged(r, m)
  BY <1>1, <1>3, <1>5, MergeStep DEF Grown, Advanced, Merged
<1>7. Finding(n, r, B, S, P, F)
  BY <1>3, <1>5, <1>6 DEF Finding, Grown, Advanced
<1> QED BY <1>4, <1>7

\* open() reads the last slot.
LEMMA FindingEnds ==
  ASSUME NEW m, NEW r \in Disks, NEW B \in SUBSET Slots, NEW S, NEW P, Pair(S, P), S # <<>>,
         NEW F, Finding(m, r, B, S, P, F), m.head.copy + 1 = Copies,
         NEW k, Grown(m, m.head.copy, r[m.head.copy], k),
         NEW w \in Working(k.reading, k.head.phase), NEW v, NEW l
  PROVE  w \in {S, P} /\ Mends(Decide(k, w, v, l), r, B, w, S, P, F)
<1>1. m \in Memories /\ m.head # Idle /\ m.head.copy \in Slots /\ m.reading \in Disks
  BY HeadFields DEF Finding, Memories
<1>3. Grown(m, m.head.copy, r[m.head.copy], k)
  OBVIOUS
<1>4. PICK q : q = k.reading
  OBVIOUS
<1>5. q = Merged(r, m) /\ q \in Disks
  <2>1. k.reading = [m.reading EXCEPT ![m.head.copy] = r[m.head.copy]]
    BY <1>3 DEF Grown
  <2>2. [m.reading EXCEPT ![m.head.copy] = r[m.head.copy]] = Merge(r, m.head.copy, m.reading)
    BY <1>1, MergeEnd
  <2> QED BY <1>1, <1>4, <2>1, <2>2, MergeType DEF Merged
<1>6. k.head.phase = "open"
  BY <1>3 DEF Grown, Finding
<1>7. w \in Working(q, "open")
  BY <1>4, <1>6
<1>8. PICK D : D = {s \in Slots : SlotsOf(q, w)[s] # None}
  OBVIOUS
<1>9. Mended(r, B, D, w, S, P, F) /\ (F = 0 => \A s \in Slots : SlotsOf(q, w)[s] \in {s, None})
  <2>1. Resting(r, B, S, P, F) /\ Reads(r, q, B, F) /\ Fits(q, B, S, P)
    BY <1>5 DEF Finding
  <2> QED BY ZenonT(60), <1>5, <1>7, <1>8, <2>1, MendedFound
<1>10. w \in {S, P} /\ w # <<>> /\ w \in Seq(States)
  BY <1>9 DEF Mended, Pair, Chain
<1>11. PICK a : a = Adopt(k, w)
  OBVIOUS
<1>12. Adoption(k, w, a)
  BY <1>3, <1>10, <1>11, Adopted DEF Grown
<1>13. Decide(k, w, v, l) = Repair(a, SlotsOf(q, w), v, l)
  <2>1. ~(w = NoQuorum \/ (k.head.phase = "verify" /\ w # k.staging))
    BY <1>6, <1>10 DEF NoQuorum
  <2> QED BY <1>4, <1>6, <1>11, <2>1 DEF Decide, Adopt
<1>14. /\ a \in Memories /\ ~a.opened /\ ~a.panicked /\ a.tail = Idle /\ a.head # Idle
       /\ a.head.caller = "open" /\ a.staging = a.working /\ a.working = w
  BY <1>3, <1>12 DEF Finding, Grown, Adoption
<1>15. SlotsOf(q, w) \in [Slots -> Slots \cup {None}]
  BY SlotsFound
<1>16. Mends(Repair(a, SlotsOf(q, w), v, l), r, B, a.working, S, P, F)
  BY <1>8, <1>9, <1>14, <1>15, RepairGoesOn
<1> QED BY <1>10, <1>13, <1>14, <1>16

\* An update that stops at any point, or has not begun, leaves what opens.
LEMMA PassedRests ==
  ASSUME NEW r \in Disks, NEW B, B \in SUBSET Slots, NEW S, NEW P, Pair(S, P), NEW F,
         NEW n, n \in 0 .. Copies, F = 0 => B = {}, Passed(r, B, S, P, n)
  PROVE  Resting(r, B, S, P, F)
<1>1. Fits(r, B, S, P)
  BY PassedFits
<1>2. \A s \in Slots \ B : r[s] = Holds(IF s < n THEN P ELSE S, s)
  BY DEF Passed, PassedAt
<1>3. F = 0 => \A s \in B : r[s] = Faulty /\ s = n
  OBVIOUS
<1>4. Early(r, B, S, P, F)
  BY <1>2, <1>3, PassedEarly
<1> QED BY <1>1, <1>4 DEF Resting


-----------------------------------------------------------------------------
(* The durable register *)

\* An update of the register.
LEMMA OneUpdate ==
  ASSUME NEW S, NEW P, Pair(S, P), P # S
  PROVE  \E x \in States : P = Append(S, x)
<1>1. /\ S \in Seq(States) /\ P \in Seq(States) /\ P # <<>> /\ Len(P) = Len(S) + 1 /\ Front(P) = S
  BY DEF Pair, Chain
<1>2. PICK x : x = P[Len(P)]
  OBVIOUS
<1>3. x \in States /\ \A i \in 1 .. Len(P) - 1 : S[i] = P[i]
  BY <1>1, <1>2, NotEmpty DEF Last
<1>4. PICK q : q = Append(S, x)
  OBVIOUS
<1>5. /\ q \in Seq(States) /\ Len(q) = Len(S) + 1 /\ q[Len(S) + 1] = x
      /\ \A i \in 1 .. Len(S) : q[i] = S[i]
  BY <1>1, <1>3, <1>4
<1>6. Len(S) \in Nat
  BY <1>1
<1>7. \A i \in 1 .. Len(P) : P[i] = q[i]
  BY <1>1, <1>2, <1>3, <1>5, <1>6
<1>8. P = q
  BY <1>1, <1>5, <1>7, SeqEqual
<1> QED BY <1>3, <1>4, <1>8

\* What was promised is extended by an update, and never changed.
LEMMA Grows ==
  ASSUME NEW S, NEW P, Pair(S, P), S # <<>>
  PROVE  Monotonic(Last(S), Last(P))
<1>1. Chain(P) /\ P # <<>> /\ Chain(S)
  BY DEF Pair
<1>2. CASE P = S
  <2>1. Legal(Last(S))
    BY <1>1, Parents
  <2> QED BY <1>2, <2>1, Updated DEF Monotonic
<1>3. CASE P # S
  <2>1. Len(P) = Len(S) + 1 /\ Front(P) = S
    BY <1>3 DEF Pair
  <2> QED BY <1>1, <2>1, Connected DEF Conflict
<1> QED BY <1>2, <1>3

\* A step of the register, or none.
Kept == \/ UNCHANGED <<stable, pending, sb.opened>>
        \/ Register!Next

\* The step that asks for an update, or for none.
LEMMA KeptUpdate ==
  ASSUME Pair(stable', pending'), stable' = stable, pending = stable \/ pending' = pending,
         sb'.opened = sb.opened
  PROVE  Kept
<1>1. CASE pending' = pending
  BY <1>1 DEF Kept
<1>2. CASE pending' # pending
  <2>1. pending = stable /\ pending' # stable'
    BY <1>2
  <2>2. PICK x \in States : pending' = Append(stable', x)
    BY <2>1, OneUpdate
  <2>3. Register!Update(x)
    BY <2>1, <2>2 DEF Register!Update
  <2> QED BY <2>3 DEF Kept, Register!Next
<1> QED BY <1>1, <1>2

\* The step that ends an update, and may begin the next one.
LEMMA KeptAcknowledge ==
  ASSUME Pair(stable', pending'), stable' = pending, pending # stable, sb'.opened = sb.opened
  PROVE  Kept
<1>1. CASE pending' = pending
  BY <1>1 DEF Kept, Register!Next, Register!Acknowledge
<1>2. CASE pending' # pending
  <2>1. PICK x \in States : pending' = Append(stable', x)
    BY <1>2, OneUpdate
  <2>2. Register!AcknowledgeAndUpdate(x)
    BY <2>1 DEF Register!AcknowledgeAndUpdate
  <2> QED BY <2>2 DEF Kept, Register!Next
<1> QED BY <1>1, <1>2
-----------------------------------------------------------------------------
(* The inductive invariant: the steps of the process *)

\* The quorums are made for one fault.  With two open() may fail: the repair of
\* a slot that a crash left with an older update is lost, the next write of the
\* slot lands in another one, and the two updates are a fork.
OneFault == MaxFaults <= 1

\* The end of open(), which may be the start of a replica.
LEMMA AfterMends ==
  ASSUME IInv, ~sb.opened, sb.head # Idle, sb.head.caller = "open", stable # <<>>,
         NEW w, w \in {stable, pending}, Mends(sb', disk', bad', w, stable, pending, faults'),
         Promise(sb'), Mount(sb'), disk' \in Disks, bad' \subseteq Slots,
         faults' \in 0 .. MaxFaults, crashes' \in 0 .. MaxCrashes
  PROVE  IInv' /\ Kept
<1>1. Pair(stable, pending)
  BY DEF IInv
<1>2. CASE Mending(sb', disk', bad', stable, pending, faults')
  <2>1. sb' \in Memories /\ ~sb'.opened
    BY <1>2 DEF Mending
  <2>2. stable' = stable /\ pending' = pending /\ view' = view /\ log_view' = log_view
    BY <2>1 DEF Promise, Mount
  <2>3. Repairing'
    BY <1>2, <2>2 DEF Repairing
  <2>4. TypeOK'
    BY <2>1, <2>2 DEF IInv, TypeOK
  <2>5. sb.opened \in BOOLEAN /\ sb'.opened \in BOOLEAN
    BY <2>1 DEF Memories, IInv, TypeOK
  <2>6. Kept
    BY <2>1, <2>2, <2>5 DEF Kept
  <2> QED BY <1>1, <2>2, <2>3, <2>4, <2>6 DEF IInv
<1>3. CASE sb'.working = w /\ Waiting(sb', Last(w).view, Last(w).log_view, disk', bad', faults')
  <2>1. /\ sb' \in Memories /\ sb'.opened /\ sb'.working = w /\ sb'.staging = w
        /\ Chain(w) /\ w # <<>> /\ w \in Seq(States)
    BY <1>3 DEF Waiting, Serving, Pair, Chain
  <2>2. /\ stable' = w /\ pending' = w
        /\ view' = Last(w).view /\ log_view' = Last(w).log_view
    BY <2>1 DEF Promise, Mount
  <2>3. Legal(Last(w))
    BY <2>1, Parents
  <2>4. view' \in 0 .. MaxView /\ log_view' \in 0 .. view'
    BY <2>2, <2>3, Updated, BoundsAssumption
  <2>5. TypeOK'
    BY <2>1, <2>2, <2>4 DEF TypeOK
  <2>6. Rests'
    BY <1>3, <2>1, <2>2 DEF Rests
  <2>7. stable' # <<>> /\ Pair(stable', pending')
    BY <2>1, <2>2 DEF Pair
  <2>8. Register!Recover
    <3>1. sb'.opened = TRUE
      BY <2>1 DEF Memories
    <3> QED BY <2>2, <3>1 DEF Register!Recover
  <2>9. Kept
    BY <2>8 DEF Kept, Register!Next
  <2> QED BY <2>5, <2>6, <2>7, <2>9 DEF IInv
<1> QED BY <1>2, <1>3 DEF Mends

\* A step of the update in flight, but for its end.
LEMMA AfterProceeds ==
  ASSUME IInv, Updates, Overwriting(sb', view, log_view, disk', bad', faults'),
         Proceeds(sb, sb'),
         Promise(sb'), Mount(sb'), disk' \in Disks, bad' \subseteq Slots,
         faults' \in 0 .. MaxFaults, crashes' \in 0 .. MaxCrashes
  PROVE  IInv' /\ Kept
<1>1. /\ sb'.opened = sb.opened /\ sb'.working = stable /\ sb'.staging = pending
  BY DEF Proceeds, Updates
<1>2. stable' = stable /\ pending' = pending
  BY <1>1 DEF Promise
<1>3. view' = view /\ log_view' = log_view
  BY <1>1 DEF Mount
<1>4. Updates'
  BY <1>1, <1>2, <1>3 DEF Updates
<1>5. sb' \in Memories
  BY OverwritingMemory
<1>6. TypeOK'
  BY <1>2, <1>3, <1>5 DEF IInv, TypeOK
<1>7. Kept
  BY <1>1, <1>2 DEF Kept
<1> QED BY <1>2, <1>4, <1>6, <1>7 DEF IInv

\* Format: all slots are empty.
LEMMA FormatStep ==
  ASSUME IInv, Format
  PROVE  IInv' /\ Kept
<1>1. Closed \in Memories
  <2>1. <<>> \in Seq(States) /\ [s \in Slots |-> Faulty] \in Disks
    BY DEF Disks
  <2> QED BY <2>1 DEF Closed, Memories
<1>2. PICK op : op = Operation("format", Root)
  OBVIOUS
<1>3. op.caller = "format" /\ op.state = Root /\ Root \in States
  BY <1>2, BoundsAssumption DEF Operation, Root, States
<1>4. sb' = Start(Closed, op)
  BY <1>2 DEF Format
<1>5. Begun(Closed, op, "write", sb') /\ sb'.staging = Append(Closed.working, op.state)
  BY <1>1, <1>3, <1>4, WriteBegins DEF Operations
<1>6. /\ Closed.opened = FALSE /\ Closed.panicked = FALSE /\ Closed.working = <<>>
      /\ Closed.tail = Idle
  BY DEF Closed
<1>7. sb'.staging = <<Root>> /\ sb'.working = <<>>
  BY <1>3, <1>5, <1>6 DEF Begun
<1>8. Formatting(sb')
  BY <1>3, <1>5, <1>6, <1>7 DEF Begun, Formatting
<1>9. stable' = <<>> /\ pending' = <<Root>> /\ bad' = {} /\ disk' = [s \in Slots |-> Faulty]
  BY DEF Format
<1>10. Passed(disk', bad', sb'.working, sb'.staging, 0)
  BY <1>7, <1>9, PassedFormat
<1>11. Progress(sb') = 0 /\ sb'.head # Idle /\ sb'.head.phase = "write"
  BY <1>5 DEF Progress, Begun
<1>12. Overwriting(sb', view', log_view', disk', bad', faults')
  BY <1>8, <1>9, <1>10, <1>11 DEF Overwriting
<1>13. Updates'
  BY <1>7, <1>9, <1>12 DEF Updates
<1>14. TypeOK'
  <2>1. disk' \in Disks /\ bad' \subseteq Slots /\ sb' \in Memories
    BY <1>5, <1>9 DEF Disks, Begun
  <2>2. stable' \in Seq(States) /\ pending' \in Seq(States)
    BY <1>3, <1>9
  <2> QED BY <2>1, <2>2 DEF IInv, TypeOK, Format
<1>15. Kept
  <2>1. Overwriting(sb', view', log_view', disk', bad', faults')
    BY <1>12
  <2>2. Pair(sb'.working, sb'.staging)
    BY <2>1, OverwritingMemory
  <2>3. Pair(stable', pending')
    BY <1>7, <1>9, <2>2
  <2>4. stable = <<>> /\ stable' = stable /\ (pending = stable \/ pending' = pending)
    BY <1>9 DEF Format, IInv
  <2>5. sb'.opened = sb.opened
    BY <1>5, <1>6 DEF Begun, Format
  <2> QED BY <2>3, <2>4, <2>5, KeptUpdate
<1> QED BY <1>9, <1>13, <1>14, <1>15 DEF IInv

\* Open: the slots will be found as they are.
LEMMA OpenStep ==
  ASSUME IInv, Open
  PROVE  IInv' /\ Kept
<1>1. /\ sb \in Memories /\ ~sb.opened /\ sb.head = Idle /\ stable # <<>>
      /\ disk \in Disks
  BY DEF Open, IInv, TypeOK
<1>2. Quiet /\ ~sb.panicked /\ sb.tail = Idle
  <2>1. Stopped \/ Blank
    BY <1>1 DEF IInv, Opening, Finding, Repairing, Mending, Updates, Overwriting, Rests,
                Waiting, Serving
  <2> QED BY <1>1, <2>1 DEF Stopped, Blank, Closed
<1>3. PICK op : op = Operation("open", Root)
  OBVIOUS
<1>4. op.caller = "open" /\ op.state = Root /\ Root \in States
  BY <1>3, BoundsAssumption DEF Operation, Root, States
<1>5. sb' = Read(sb, op, "open")
  BY <1>1, <1>3, <1>4 DEF Open, Acquire, Start
<1>6. Begun(sb, op, "open", sb')
  BY <1>1, <1>4, <1>5, ReadBegins DEF Operations
<1>7. Merged(disk, sb') = disk
  BY <1>1, <1>6, MergeStart DEF Merged, Begun
<1>8. Reads(disk, disk, bad, faults) /\ Fits(disk, bad, stable, pending)
  BY <1>2 DEF Reads, Quiet, Resting
<1>9. Finding(sb', disk, bad, stable, pending, faults)
  BY <1>1, <1>2, <1>4, <1>6, <1>7, <1>8 DEF Finding, Begun, Quiet
<1>10. UNCHANGED <<disk, bad, view, log_view, stable, pending, crashes, faults>>
  BY DEF Open
<1>11. Opening'
  BY <1>1, <1>9, <1>10 DEF Opening
<1>12. TypeOK'
  BY <1>6, <1>10 DEF IInv, TypeOK, Begun
<1>13. Kept
  BY <1>6, <1>10 DEF Begun, Kept
<1> QED BY <1>10, <1>11, <1>12, <1>13 DEF IInv

\* A replica that serves asks for an update, or has none to ask for.
LEMMA AfterJoins ==
  ASSUME IInv, sb.opened, view' \in 0 .. MaxView, log_view' \in 0 .. view',
         Serving(sb', view', log_view'), Joins(sb, sb'), Promise(sb'),
         UNCHANGED <<disk, bad, crashes, faults>>
  PROVE  IInv' /\ Kept
<1>1. Updates \/ Rests
  BY DEF IInv, Stopped, Closed, Blank, Opening, Finding, Repairing, Mending
<1>2. /\ sb' \in Memories /\ sb'.opened /\ Pair(sb'.working, sb'.staging) /\ sb'.working # <<>>
      /\ sb'.working \in Seq(States) /\ sb'.staging \in Seq(States)
  BY DEF Serving, Pair, Chain
<1>3. stable' = sb'.working /\ pending' = sb'.staging
  BY <1>2 DEF Promise
<1>4. TypeOK'
  BY <1>2, <1>3 DEF IInv, TypeOK
<1>5. Updates' \/ Rests'
  <2>1. CASE Rests
    <3>1. /\ sb.head = Idle /\ sb.staging = sb.working /\ sb'.working = sb.working
          /\ Passed(disk, bad, sb'.working, sb'.working, 0)
          /\ faults = 0 => bad = {}
      BY <2>1 DEF Rests, Waiting, Serving, Joins
    <3>2. CASE sb'.head = Idle
      <4>1. Waiting(sb', view', log_view', disk, bad, faults)
        BY <3>1, <3>2 DEF Waiting
      <4> QED BY <1>3, <4>1 DEF Rests
    <3>3. CASE sb'.head # Idle
      <4>1. sb'.staging # sb'.working /\ Progress(sb') = 0 /\ sb'.head.phase = "write"
        BY <3>1, <3>3 DEF Serving, Joins, Progress
      <4>2. Passed(disk, bad, sb'.working, sb'.staging, 0)
        <5>1. disk \in Disks /\ bad \in SUBSET Slots
          BY DEF IInv, TypeOK
        <5> QED BY <1>2, <3>1, <4>1, <5>1, PassedStart
      <4>3. Overwriting(sb', view', log_view', disk, bad, faults)
        BY <3>1, <3>3, <4>1, <4>2 DEF Overwriting
      <4> QED BY <1>3, <4>3 DEF Updates
    <3> QED BY <3>2, <3>3
  <2>2. CASE Updates
    <3>1. /\ Overwriting(sb, view, log_view, disk, bad, faults) /\ sb.head # Idle
      BY <2>2 DEF Updates, Overwriting
    <3>2. /\ sb'.head = sb.head /\ sb'.staging = sb.staging /\ sb'.reading = sb.reading
          /\ sb'.working = sb.working
      BY <3>1 DEF Joins
    <3>3. Progress(sb') = Progress(sb) /\ Merged(disk, sb') = Merged(disk, sb)
      BY <3>2 DEF Progress, Merged
    <3>4. Overwriting(sb', view', log_view', disk, bad, faults)
      BY <3>1, <3>2, <3>3 DEF Overwriting
    <3> QED BY <1>3, <3>4 DEF Updates
  <2> QED BY <1>1, <2>1, <2>2
<1>6. Kept
  <2>1. stable = sb.working /\ pending = sb.staging /\ sb'.working = sb.working
    BY <1>1 DEF Updates, Rests, Joins
  <2>2. pending = stable \/ pending' = pending
    BY <1>1, <1>3, <2>1 DEF Updates, Overwriting, Rests, Waiting, Serving, Joins
  <2>3. sb'.opened = sb.opened
    BY <1>2 DEF IInv, TypeOK, Memories
  <2> QED BY <1>2, <1>3, <2>1, <2>2, <2>3, KeptUpdate
<1> QED BY <1>2, <1>3, <1>4, <1>5, <1>6 DEF IInv

\* A superblock that is open serves, in the views of its replica.
LEMMA Serves ==
  ASSUME IInv, sb.opened
  PROVE  Serving(sb, view, log_view) /\ view \in 0 .. MaxView /\ log_view \in 0 .. view
<1>1. Updates \/ Rests
  BY DEF IInv, Stopped, Closed, Blank, Opening, Finding, Repairing, Mending
<1>2. Serving(sb, view, log_view)
  BY <1>1 DEF Updates, Overwriting, Rests, Waiting, Formatting
<1> QED BY <1>2 DEF IInv, TypeOK

\* EnterView: the view of the replica is above the one being written.
LEMMA EnterViewStep ==
  ASSUME IInv, EnterView
  PROVE  IInv' /\ Kept
<1>1. sb.opened /\ view < MaxView /\ view' = view + 1 /\ log_view' = log_view
  BY DEF EnterView
<1>2. Serving(sb, view, log_view) /\ view \in 0 .. MaxView /\ log_view \in 0 .. view
  BY <1>1, Serves
<1>3. view' \in 0 .. MaxView /\ log_view' \in 0 .. view' /\ view \in 0 .. view' /\ log_view \in 0 .. log_view'
  BY <1>1, <1>2, BoundsAssumption
<1>4. Serving(sb, view', log_view')
  BY <1>2, <1>3, ServingOlder
<1>5. Last(sb.staging).view < view'
  <2>1. Last(sb.staging).view <= view /\ Legal(Last(sb.staging))
    BY <1>2, Parents DEF Serving, AtMost, Pair
  <2> QED BY <1>1, <1>2, <2>1, Updated
<1>6. Serving(sb', view', log_view') /\ Joins(sb, sb')
  <2>1. sb' = ViewDurableUpdate(sb, view', log_view')
    BY DEF EnterView
  <2> QED BY <1>3, <1>4, <1>5, <2>1, ServingViews
<1>7. Promise(sb') /\ UNCHANGED <<disk, bad, crashes, faults>>
  BY DEF EnterView
<1> QED BY <1>1, <1>3, <1>6, <1>7, AfterJoins

\* EstablishView: the log_view of the replica is above the one being written.
LEMMA EstablishViewStep ==
  ASSUME IInv, EstablishView
  PROVE  IInv' /\ Kept
<1>1. sb.opened /\ log_view < view /\ view' = view /\ log_view' = view
  BY DEF EstablishView
<1>2. Serving(sb, view, log_view) /\ view \in 0 .. MaxView /\ log_view \in 0 .. view
  BY <1>1, Serves
<1>3. view' \in 0 .. MaxView /\ log_view' \in 0 .. view' /\ view \in 0 .. view' /\ log_view \in 0 .. log_view'
  BY <1>1, <1>2, BoundsAssumption
<1>4. Serving(sb, view', log_view')
  BY <1>2, <1>3, ServingOlder
<1>5. Last(sb.staging).log_view < log_view'
  <2>1. Last(sb.staging).log_view <= log_view /\ Legal(Last(sb.staging))
    BY <1>2, Parents DEF Serving, AtMost, Pair
  <2> QED BY <1>1, <1>2, <2>1, Updated
<1>6. Serving(sb', view', log_view') /\ Joins(sb, sb')
  <2>1. sb' = ViewDurableUpdate(sb, view', log_view')
    BY DEF EstablishView
  <2> QED BY <1>3, <1>4, <1>5, <2>1, ServingViews
<1>7. Promise(sb') /\ UNCHANGED <<disk, bad, crashes, faults>>
  BY DEF EstablishView
<1> QED BY <1>1, <1>3, <1>6, <1>7, AfterJoins

\* Checkpoint: an update is added to the one in flight, or begins.
LEMMA CheckpointStep ==
  ASSUME IInv, Checkpoint
  PROVE  IInv' /\ Kept
<1>1. /\ sb.opened /\ ~Updating(sb, "checkpoint") /\ Last(sb.staging).op < MaxCheckpoint
      /\ sb' = CheckpointUpdate(sb, Last(sb.staging).op + 1)
      /\ view' = view /\ log_view' = log_view
      /\ Promise(sb') /\ UNCHANGED <<disk, bad, crashes, faults>>
  BY DEF Checkpoint
<1>2. Serving(sb, view, log_view) /\ view \in 0 .. MaxView /\ log_view \in 0 .. view
  BY <1>1, Serves
<1>3. Serving(sb', view, log_view) /\ Joins(sb, sb')
  BY <1>1, <1>2, ServingCheckpoint
<1> QED BY <1>1, <1>2, <1>3, AfterJoins


\* The last read of open(), and of an update.
LEMMA OpeningEnds ==
  ASSUME disk \in Disks, bad \in SUBSET Slots, Pair(stable, pending), stable # <<>>,
         Finding(sb, disk, bad, stable, pending, faults), sb.head.copy + 1 = Copies,
         NEW k, Grown(sb, sb.head.copy, disk[sb.head.copy], k),
         NEW w \in Working(k.reading, k.head.phase)
  PROVE  /\ w \in {stable, pending}
         /\ Mends(Decide(k, w, view, log_view), disk, bad, w, stable, pending, faults)
BY FindingEnds

\* The last read that verifies an update.
LEMMA UpdateEnds ==
  ASSUME disk \in Disks, bad \in SUBSET Slots, view \in 0 .. MaxView, log_view \in 0 .. view,
         Overwriting(sb, view, log_view, disk, bad, faults), sb.head.phase = "verify",
         sb.head.copy + 1 = Copies,
         NEW k, Grown(sb, sb.head.copy, disk[sb.head.copy], k),
         NEW w \in Working(k.reading, k.head.phase)
  PROVE  /\ w = sb.staging /\ Decide(k, w, view, log_view).working = w
         /\ Formatting(sb) => Formatted(Decide(k, w, view, log_view), w)
         /\ Serving(sb, view, log_view) =>
              \/ Overwriting(Decide(k, w, view, log_view), view, log_view, disk, bad, faults)
              \/ Waiting(Decide(k, w, view, log_view), view, log_view, disk, bad, faults)
BY OverwritingEnds

\* ReadCompletes: of open(), which may begin to repair or to serve, or of verify,
\* which may begin the next update.
LEMMA ReadCompletesStep ==
  ASSUME IInv, ReadCompletes
  PROVE  IInv' /\ Kept
<1>1. /\ disk \in Disks /\ bad \in SUBSET Slots /\ bad' = bad /\ disk' = disk
      /\ faults' = faults /\ crashes' = crashes
      /\ faults' \in 0 .. MaxFaults /\ crashes' \in 0 .. MaxCrashes
      /\ view \in 0 .. MaxView /\ log_view \in 0 .. view
      /\ Promise(sb') /\ Mount(sb')
  BY DEF ReadCompletes, IInv, TypeOK
<1>2. sb.head # Idle /\ sb.head.phase \notin {"write", "repair"}
  BY DEF ReadCompletes, Writing
<1>3. sb \in Memories /\ sb.head.copy \in Slots
  BY <1>2, HeadFields DEF IInv, TypeOK
<1>4. PICK k : k = ReadSlot(sb, sb.head.copy, disk[sb.head.copy])
  OBVIOUS
<1>5. Grown(sb, sb.head.copy, disk[sb.head.copy], k)
  <2>1. disk[sb.head.copy] \in Headers \cup {Faulty}
    BY <1>1, <1>3 DEF Disks
  <2> QED BY <1>3, <1>4, <2>1, ReadingGrows
<1>6. IF sb.head.copy + 1 < Copies THEN sb' = NextCopy(k)
      ELSE \E w \in Working(k.reading, k.head.phase) : sb' = Decide(k, w, view, log_view)
  <2>1. k.head = sb.head
    BY <1>5 DEF Grown
  <2>2. IF k.head.copy + 1 < Copies THEN sb' = [k EXCEPT !.head.copy = @ + 1]
        ELSE \E w \in Working(k.reading, k.head.phase) : sb' = Decide(k, w, view, log_view)
    BY <1>4 DEF ReadCompletes, ReadSlot
  <2> QED BY <2>1, <2>2 DEF NextCopy
<1>7. sb.head.copy + 1 < Copies => sb.head.copy + 1 \in Slots
  BY <1>3, Halves
<1>8. ~(sb.head.copy + 1 < Copies) => sb.head.copy + 1 = Copies
  BY <1>3, Halves
<1>9. Opening \/ Updates
  BY <1>2 DEF IInv, Stopped, Closed, Blank, Repairing, Mending, Rests, Waiting
<1>10. CASE Opening
  <2>1. /\ stable # <<>> /\ Finding(sb, disk, bad, stable, pending, faults)
        /\ Pair(stable, pending)
    BY <1>10 DEF Opening, IInv
  <2>2. ~sb.opened /\ sb.head.caller = "open"
    BY <2>1 DEF Finding
  <2>3. CASE sb.head.copy + 1 < Copies
    <3>1. Finding(sb', disk, bad, stable, pending, faults)
      BY <1>1, <1>5, <1>6, <1>7, <2>1, <2>3, FindingReads
    <3>2. sb' \in Memories /\ ~sb'.opened
      BY <3>1 DEF Finding
    <3>3. stable' = stable /\ pending' = pending /\ view' = view /\ log_view' = log_view
      BY <1>1, <2>2, <3>2 DEF Promise, Mount
    <3>4. Opening'
      BY <1>1, <2>1, <3>1, <3>3 DEF Opening
    <3>5. TypeOK'
      BY <1>1, <3>2, <3>3 DEF IInv, TypeOK
    <3>6. Kept
      BY <2>2, <3>2, <3>3 DEF Kept, Memories, IInv, TypeOK
    <3> QED BY <2>1, <3>3, <3>4, <3>5, <3>6 DEF IInv
  <2>4. CASE ~(sb.head.copy + 1 < Copies)
    <3>1. PICK w \in Working(k.reading, k.head.phase) : sb' = Decide(k, w, view, log_view)
      BY <1>6, <2>4
    <3>2. w \in {stable, pending} /\ Mends(sb', disk, bad, w, stable, pending, faults)
      <4>1. disk \in Disks /\ bad \in SUBSET Slots
        BY <1>1
      <4>2. sb.head.copy + 1 = Copies
        BY <1>8, <2>4
      <4>3. w \in Working(k.reading, k.head.phase)
        BY <3>1
      <4>4. /\ w \in {stable, pending}
            /\ Mends(Decide(k, w, view, log_view), disk, bad, w, stable, pending, faults)
        BY <1>5, <2>1, <4>1, <4>2, <4>3, OpeningEnds
      <4> QED BY <3>1, <4>4
    <3>3. Mends(sb', disk', bad', w, stable, pending, faults')
      BY <1>1, <3>2
    <3>4. disk' \in Disks /\ bad' \subseteq Slots
      BY <1>1
    <3> QED BY <1>1, <1>2, <2>1, <2>2, <3>2, <3>3, <3>4, AfterMends
  <2> QED BY <2>3, <2>4
<1>11. CASE Updates
  <2>1. /\ Overwriting(sb, view, log_view, disk, bad, faults)
        /\ stable = sb.working /\ pending = sb.staging
    BY <1>11 DEF Updates
  <2>2. sb.head.phase = "verify"
    BY <1>2, <2>1, OverwritingMemory
  <2>3. CASE sb.head.copy + 1 < Copies
    <3>1. Overwriting(sb', view, log_view, disk, bad, faults) /\ Proceeds(sb, sb')
      BY <1>1, <1>5, <1>6, <1>7, <2>1, <2>2, <2>3, OverwritingReads
    <3>2. Overwriting(sb', view, log_view, disk', bad', faults')
      BY <1>1, <3>1
    <3>3. disk' \in Disks /\ bad' \subseteq Slots
      BY <1>1
    <3> QED BY <1>1, <1>11, <3>1, <3>2, <3>3, AfterProceeds
  <2>4. CASE ~(sb.head.copy + 1 < Copies)
    <3>1. PICK w \in Working(k.reading, k.head.phase) : sb' = Decide(k, w, view, log_view)
      BY <1>6, <2>4
    <3>2. /\ w = sb.staging /\ sb'.working = w
          /\ Formatting(sb) => /\ sb' \in Memories /\ sb'.head = Idle /\ sb'.tail = Idle
                               /\ ~sb'.opened /\ ~sb'.panicked /\ sb'.staging = w
          /\ Serving(sb, view, log_view) =>
               \/ Overwriting(sb', view, log_view, disk, bad, faults)
               \/ Waiting(sb', view, log_view, disk, bad, faults)
      <4>1. /\ disk \in Disks /\ bad \in SUBSET Slots
            /\ view \in 0 .. MaxView /\ log_view \in 0 .. view
        BY <1>1
      <4>2. sb.head.copy + 1 = Copies
        BY <1>8, <2>4
      <4>3. Overwriting(sb, view, log_view, disk, bad, faults)
        BY <2>1
      <4>4. w \in Working(k.reading, k.head.phase)
        BY <3>1
      <4>5. /\ w = sb.staging /\ Decide(k, w, view, log_view).working = w
            /\ Formatting(sb) => Formatted(Decide(k, w, view, log_view), w)
            /\ Serving(sb, view, log_view) =>
                 \/ Overwriting(Decide(k, w, view, log_view), view, log_view, disk, bad, faults)
                 \/ Waiting(Decide(k, w, view, log_view), view, log_view, disk, bad, faults)
        BY <1>5, <2>2, <4>1, <4>2, <4>3, <4>4, UpdateEnds
      <4> QED BY <3>1, <4>5 DEF Formatted
    <3>3. Pair(sb.working, w) /\ w # <<>> /\ w \in Seq(States)
      BY <2>1, <3>2, OverwritingMemory
    <3>4. CASE Formatting(sb)
      <4>1. /\ sb' \in Memories /\ sb'.head = Idle /\ sb'.tail = Idle
            /\ ~sb'.opened /\ ~sb'.panicked /\ sb'.staging = w /\ sb'.working = w
        BY <3>2, <3>4
      <4>2. stable' = w /\ pending' = w
        BY <1>1, <1>2, <3>4, <4>1 DEF Promise, Formatting
      <4>3. view' = view /\ log_view' = log_view
        BY <1>1, <4>1 DEF Mount
      <4>4. Pair(w, w)
        BY <3>3 DEF Pair
      <4>5. Resting(disk, bad, w, w, faults)
        <5>1. Passed(disk, bad, sb.working, w, Copies) /\ (faults = 0 => bad = {})
          BY <2>1, <2>2, <3>2 DEF Overwriting, Progress
        <5>2. Passed(disk, bad, w, w, 0)
          BY <1>1, <3>3, <5>1, PassedOver
        <5>3. PICK n : n = 0
          OBVIOUS
        <5>4. n \in 0 .. Copies
          BY <5>3, Halves
        <5>5. Passed(disk, bad, w, w, n)
          BY <5>2, <5>3
        <5>6. (faults = 0 => bad = {}) /\ disk \in Disks /\ bad \in SUBSET Slots
          BY <1>1, <5>1
        <5> QED BY <4>4, <5>4, <5>5, <5>6, PassedRests
      <4>6. Blank'
        BY <1>1, <3>3, <4>1, <4>2, <4>5 DEF Blank, Quiet
      <4>7. TypeOK'
        BY <1>1, <3>3, <4>1, <4>2, <4>3 DEF TypeOK
      <4>8. Kept
        <5>1. pending # stable
          BY <2>1, OverwritingMemory
        <5>2. sb'.opened = sb.opened
          BY <3>4, <4>1 DEF Formatting, Memories
        <5> QED BY <2>1, <3>2, <4>2, <4>4, <5>1, <5>2, KeptAcknowledge
      <4> QED BY <3>3, <4>2, <4>4, <4>6, <4>7, <4>8 DEF IInv
    <3>5. CASE Serving(sb, view, log_view)
      <4>1. \/ Overwriting(sb', view, log_view, disk, bad, faults)
            \/ Waiting(sb', view, log_view, disk, bad, faults)
        BY <3>2, <3>5
      <4>2. sb.opened /\ sb'.opened /\ sb' \in Memories /\ Pair(sb'.working, sb'.staging)
        <5>1. Serving(sb', view, log_view)
          BY <3>2, <3>3, <4>1 DEF Overwriting, Waiting, Formatting
        <5> QED BY <3>5, <5>1 DEF Serving
      <4>3. stable' = sb'.working /\ pending' = sb'.staging
        BY <1>1, <4>2 DEF Promise
      <4>4. view' = view /\ log_view' = log_view
        BY <1>1, <4>2 DEF Mount
      <4>5. Updates' \/ Rests'
        BY <1>1, <4>1, <4>3, <4>4 DEF Updates, Rests
      <4>6. TypeOK'
        <5>1. stable' \in Seq(States) /\ pending' \in Seq(States)
          BY <4>2, <4>3 DEF Pair, Chain
        <5> QED BY <1>1, <4>2, <4>4, <5>1 DEF TypeOK
      <4>7. stable' # <<>>
        BY <3>2, <3>3, <4>3
      <4>8. Kept
        <5>1. pending # stable
          BY <2>1, OverwritingMemory
        <5>2. sb'.opened = sb.opened
          BY <4>2 DEF IInv, TypeOK, Memories
        <5> QED BY <2>1, <3>2, <4>2, <4>3, <5>1, <5>2, KeptAcknowledge
      <4> QED BY <4>2, <4>3, <4>5, <4>6, <4>7, <4>8 DEF IInv
    <3> QED BY <2>1, <3>4, <3>5 DEF Overwriting
  <2> QED BY <2>3, <2>4
<1> QED BY <1>9, <1>10, <1>11

\* Who writes, and what.
LEMMA Writes ==
  ASSUME IInv, Writing
  PROVE  /\ sb.head.copy \in Slots /\ Written \in Headers
         /\ Written = Holds(sb.staging, sb.head.copy)
         /\ \/ Repairing /\ sb.staging = sb.working
            \/ Updates /\ sb.head.phase = "write"
<1>1. sb.head # Idle /\ sb.head.phase \in {"write", "repair"} /\ sb \in Memories
  BY DEF Writing, IInv, TypeOK
<1>2. Repairing \/ Updates
  BY <1>1 DEF IInv, Stopped, Closed, Blank, Opening, Finding, Rests, Waiting
<1>3. sb.head.copy \in Slots
  BY <1>1, HeadFields
<1>4. sb.staging \in Seq(States) /\ sb.staging # <<>>
  <2>1. CASE Repairing
    <3>1. sb.staging = sb.working /\ sb.working \in {stable, pending} /\ stable # <<>>
      BY <2>1 DEF Repairing, Mending, Mended
    <3>2. Pair(stable, pending)
      BY <3>1 DEF IInv
    <3> QED BY <3>1, <3>2 DEF Pair, Chain
  <2>2. CASE Updates
    BY <2>2, OverwritingMemory DEF Updates
  <2> QED BY <1>2, <2>1, <2>2
<1>5. Written = Holds(sb.staging, sb.head.copy)
  BY <1>4 DEF Written, Holds
<1>6. Written \in Headers
  BY <1>3, <1>4, <1>5, Held
<1>7. Updates => sb.head.phase = "write"
  <2>1. Updates => sb.head.phase \in {"write", "verify"}
    BY OverwritingMemory DEF Updates
  <2> QED BY <1>1, <2>1
<1>8. Repairing => sb.staging = sb.working
  BY DEF Repairing, Mending
<1> QED BY <1>2, <1>3, <1>5, <1>6, <1>7, <1>8

\* A repair that has landed, or went astray, has repaired its slot.
LEMMA AfterRepair ==
  ASSUME IInv, Repairing, Writing,
         Mended(disk', bad', Repaired(sb) \cup {sb.head.copy}, sb.working, stable, pending, faults'),
         faults = 0 \/ faults' # 0, WriteCompletes, disk' \in Disks, bad' \in SUBSET Slots,
         faults' \in 0 .. MaxFaults
  PROVE  IInv' /\ Kept
<1>1. /\ Mending(sb, disk, bad, stable, pending, faults) /\ stable # <<>> /\ Pair(stable, pending)
  BY DEF Repairing, IInv
<1>2. /\ ~sb.opened /\ sb.head # Idle /\ sb.head.caller = "open"
      /\ sb.working \in {stable, pending}
  BY <1>1 DEF Mending, Mended
<1>3. Mends(WriteDone(sb, view, log_view), disk', bad', sb.working, stable, pending, faults')
  BY <1>1, MendingWrites
<1>4. /\ sb' = WriteDone(sb, view, log_view) /\ Promise(sb') /\ Mount(sb')
      /\ crashes' \in 0 .. MaxCrashes
  BY DEF WriteCompletes, IInv, TypeOK
<1>5. Mends(sb', disk', bad', sb.working, stable, pending, faults')
  BY <1>3, <1>4
<1> QED BY <1>1, <1>2, <1>4, <1>5, AfterMends

\* A write of an update that has landed, or went astray.
LEMMA AfterWrite ==
  ASSUME IInv, Updates, sb.head.phase = "write",
         Passed(disk', bad', sb.working, sb.staging, sb.head.copy + 1),
         faults' = 0 => bad' = {}, WriteCompletes, disk' \in Disks, bad' \in SUBSET Slots,
         faults' \in 0 .. MaxFaults
  PROVE  IInv' /\ Kept
<1>1. Overwriting(sb, view, log_view, disk, bad, faults)
  BY DEF Updates
<1>2. /\ Overwriting(WriteDone(sb, view, log_view), view, log_view, disk', bad', faults')
      /\ Proceeds(sb, WriteDone(sb, view, log_view))
  BY <1>1, OverwritingWrites
<1>3. /\ sb' = WriteDone(sb, view, log_view) /\ Promise(sb') /\ Mount(sb')
      /\ crashes' \in 0 .. MaxCrashes
  BY DEF WriteCompletes, IInv, TypeOK
<1>4. Overwriting(sb', view, log_view, disk', bad', faults') /\ Proceeds(sb, sb')
  BY <1>2, <1>3
<1> QED BY <1>3, <1>4, AfterProceeds

\* The slot being repaired does not count as repaired.
LEMMA RepairedFields ==
  ASSUME NEW m, NEW r, NEW B, NEW S, NEW P, NEW F, Mending(m, r, B, S, P, F)
  PROVE  Repaired(m) \in SUBSET Slots /\ m.head.copy \in Slots \ Repaired(m)
BY HeadFields DEF Mending, Repaired

\* WriteLands: of a repair, or of an update.
LEMMA WriteLandsStep ==
  ASSUME IInv, WriteLands
  PROVE  IInv' /\ Kept
<1>1. /\ WriteCompletes /\ Writing /\ disk' = [disk EXCEPT ![sb.head.copy] = Written]
      /\ bad' = bad \ {sb.head.copy} /\ faults' = faults
      /\ disk \in Disks /\ bad \in SUBSET Slots /\ faults' \in 0 .. MaxFaults
  BY DEF WriteLands, WriteCompletes, IInv, TypeOK
<1>2. /\ sb.head.copy \in Slots /\ Written \in Headers
      /\ Written = Holds(sb.staging, sb.head.copy)
      /\ \/ Repairing /\ sb.staging = sb.working
         \/ Updates /\ sb.head.phase = "write"
  BY <1>1, Writes
<1>3. disk' \in Disks /\ bad' \in SUBSET Slots
  BY <1>1, <1>2 DEF Disks
<1>4. CASE Repairing /\ sb.staging = sb.working
  <2>1. Mending(sb, disk, bad, stable, pending, faults) /\ stable # <<>> /\ Pair(stable, pending)
    BY <1>4 DEF Repairing, IInv
  <2>2. Mended(disk, bad, Repaired(sb), sb.working, stable, pending, faults)
    BY <2>1 DEF Mending
  <2>3. Repaired(sb) \in SUBSET Slots /\ sb.head.copy \in Slots \ Repaired(sb)
    BY <2>1, RepairedFields
  <2>4. Mended([disk EXCEPT ![sb.head.copy] = Holds(sb.working, sb.head.copy)],
               bad \ {sb.head.copy}, Repaired(sb) \cup {sb.head.copy}, sb.working,
               stable, pending, faults)
    BY <1>1, <2>1, <2>2, <2>3, MendedLand
  <2>5. disk' = [disk EXCEPT ![sb.head.copy] = Holds(sb.working, sb.head.copy)]
    BY <1>1, <1>2, <1>4
  <2>6. Mended(disk', bad', Repaired(sb) \cup {sb.head.copy}, sb.working, stable, pending, faults')
    BY <1>1, <2>4, <2>5
  <2>7. faults = 0 \/ faults' # 0
    BY <1>1
  <2> QED BY <1>1, <1>3, <1>4, <2>6, <2>7, AfterRepair
<1>5. CASE Updates /\ sb.head.phase = "write"
  <2>1. Overwriting(sb, view, log_view, disk, bad, faults)
    BY <1>5 DEF Updates
  <2>2. Pair(sb.working, sb.staging)
    BY <2>1, OverwritingMemory
  <2>3. Passed(disk, bad, sb.working, sb.staging, sb.head.copy) /\ (faults = 0 => bad = {})
    BY <1>5, <2>1 DEF Overwriting, Progress
  <2>4. Passed([disk EXCEPT ![sb.head.copy] = Holds(sb.staging, sb.head.copy)],
               bad \ {sb.head.copy}, sb.working, sb.staging, sb.head.copy + 1)
    BY <1>1, <1>2, <2>2, <2>3, PassedLand
  <2>5. disk' = [disk EXCEPT ![sb.head.copy] = Holds(sb.staging, sb.head.copy)]
    BY <1>1, <1>2
  <2>6. Passed(disk', bad', sb.working, sb.staging, sb.head.copy + 1)
    BY <1>1, <2>4, <2>5
  <2>7. faults' = 0 => bad' = {}
    BY <1>1, <2>3
  <2> QED BY <1>1, <1>3, <1>5, <2>6, <2>7, AfterWrite
<1> QED BY <1>2, <1>4, <1>5

\* WriteGoesAstray: this is the one fault.
LEMMA WriteGoesAstrayStep ==
  ASSUME IInv, OneFault, NEW s \in Slots, WriteGoesAstray(s)
  PROVE  IInv' /\ Kept
<1>1. /\ WriteCompletes /\ Writing
      /\ disk' = (IF s = sb.head.copy THEN disk ELSE [disk EXCEPT ![s] = Written])
      /\ bad' = {s, sb.head.copy} /\ bad \in SUBSET {s, sb.head.copy}
      /\ disk \in Disks
  BY DEF WriteGoesAstray, WriteCompletes, MayFail, IInv, TypeOK
<1>2. faults = 0 /\ faults' = 1 /\ faults' \in 0 .. MaxFaults
  BY BoundsAssumption DEF WriteGoesAstray, OneFault, IInv, TypeOK
<1>3. /\ sb.head.copy \in Slots /\ Written \in Headers
      /\ Written = Holds(sb.staging, sb.head.copy)
      /\ \/ Repairing /\ sb.staging = sb.working
         \/ Updates /\ sb.head.phase = "write"
  BY <1>1, Writes
<1>4. disk' \in Disks /\ bad' \in SUBSET Slots
  BY <1>1, <1>3 DEF Disks
<1>5. CASE Repairing /\ sb.staging = sb.working
  <2>1. Mending(sb, disk, bad, stable, pending, faults) /\ stable # <<>> /\ Pair(stable, pending)
    BY <1>5 DEF Repairing, IInv
  <2>2. Mended(disk, bad, Repaired(sb), sb.working, stable, pending, 0)
    BY <1>2, <2>1 DEF Mending
  <2>3. Repaired(sb) \in SUBSET Slots /\ sb.head.copy \in Slots \ Repaired(sb)
    BY <2>1, RepairedFields
  <2>4. Mended(IF s = sb.head.copy THEN disk ELSE [disk EXCEPT ![s] = Holds(sb.working, sb.head.copy)],
               {s, sb.head.copy}, Repaired(sb) \cup {sb.head.copy}, sb.working,
               stable, pending, 1)
    BY <1>1, <2>1, <2>2, <2>3, MendedAstray
  <2>5. disk' = (IF s = sb.head.copy THEN disk
                 ELSE [disk EXCEPT ![s] = Holds(sb.working, sb.head.copy)])
    BY <1>1, <1>3, <1>5
  <2>6. Mended(disk', bad', Repaired(sb) \cup {sb.head.copy}, sb.working, stable, pending, faults')
    BY <1>1, <1>2, <2>4, <2>5
  <2>7. faults = 0 \/ faults' # 0
    BY <1>2
  <2> QED BY <1>1, <1>2, <1>4, <1>5, <2>6, <2>7, AfterRepair
<1>6. CASE Updates /\ sb.head.phase = "write"
  <2>1. Overwriting(sb, view, log_view, disk, bad, faults)
    BY <1>6 DEF Updates
  <2>2. Pair(sb.working, sb.staging)
    BY <2>1, OverwritingMemory
  <2>3. Passed(disk, {}, sb.working, sb.staging, sb.head.copy)
    BY <1>2, <1>6, <2>1 DEF Overwriting, Progress
  <2>4. Passed(IF s = sb.head.copy THEN disk ELSE [disk EXCEPT ![s] = Holds(sb.staging, sb.head.copy)],
               {s, sb.head.copy}, sb.working, sb.staging, sb.head.copy + 1)
    BY <1>1, <1>3, <2>2, <2>3, PassedAstray
  <2>5. disk' = (IF s = sb.head.copy THEN disk
                 ELSE [disk EXCEPT ![s] = Holds(sb.staging, sb.head.copy)])
    BY <1>1, <1>3
  <2>6. Passed(disk', bad', sb.working, sb.staging, sb.head.copy + 1)
    BY <1>1, <2>4, <2>5
  <2>7. faults' = 0 => bad' = {}
    BY <1>2
  <2> QED BY <1>1, <1>2, <1>4, <1>6, <2>6, <2>7, AfterWrite
<1> QED BY <1>3, <1>5, <1>6

\* A slot decays while nothing is written.
LEMMA RestingDecay ==
  ASSUME NEW r, NEW S, NEW P, Pair(S, P), S # <<>>, NEW s \in Slots, NEW B \in SUBSET {s},
         r[s] # Faulty, Resting(r, B, S, P, 0), NEW q, Decayed(r, q, s)
  PROVE  B = {} /\ Resting(q, {s}, S, P, 1)
<1>1. B = {}
  BY DEF Resting, Early
<1>2. Fits(r, {}, S, P)
  BY <1>1 DEF Resting
<1>3. Fits(q, {s}, S, P)
  BY <1>2, FitsDecay
<1>4. Early(q, {s}, S, P, 1)
  <2>1. ~(1 = 0)
    OBVIOUS
  <2> QED BY <2>1, Zenon DEF Early
<1> QED BY <1>1, <1>3, <1>4 DEF Resting

\* An update passes the slots in their order.
LEMMA ProgressType ==
  ASSUME NEW m, NEW v, NEW l, NEW r, NEW B, NEW F, Overwriting(m, v, l, r, B, F)
  PROVE  Progress(m) \in 0 .. Copies
BY OverwritingMemory, Halves DEF Progress

\* Decay: this is the one fault.
LEMMA DecayStep ==
  ASSUME IInv, OneFault, NEW s \in Slots, Decay(s)
  PROVE  IInv' /\ Kept
<1>1. /\ disk \in Disks /\ bad \in SUBSET {s} /\ disk[s] # Faulty /\ bad' = {s}
      /\ UNCHANGED <<sb, view, log_view, stable, pending, crashes>>
  BY DEF Decay, MayFail, IInv, TypeOK
<1>2. faults = 0 /\ faults' = 1 /\ faults' \in 0 .. MaxFaults
  BY BoundsAssumption DEF Decay, OneFault, IInv, TypeOK
<1>3. Decayed(disk, disk', s) /\ disk' \in Disks
  <2>1. disk[s] \in Headers
    BY <1>1, Placed
  <2>2. CASE disk' = [disk EXCEPT ![s] = Faulty]
    BY <1>1, <2>2 DEF Decayed, Disks
  <2>3. CASE \E i \in CopyIndexes : disk' = [disk EXCEPT ![s].copy = i]
    <3>1. PICK i \in CopyIndexes : disk' = [disk EXCEPT ![s].copy = i]
      BY <2>3
    <3>2. PICK h : h = [disk[s] EXCEPT !.copy = i]
      OBVIOUS
    <3>3. h \in Headers /\ h.chain = disk[s].chain
      BY <2>1, <3>2 DEF Headers
    <3>4. disk' = [disk EXCEPT ![s] = h]
      BY <3>1, <3>2
    <3> QED BY <1>1, <3>3, <3>4 DEF Decayed, Disks
  <2> QED BY <2>2, <2>3 DEF Decay
<1>4. TypeOK'
  BY <1>1, <1>2, <1>3 DEF IInv, TypeOK
<1>5. stable # <<>> => Pair(stable, pending)
  BY DEF IInv
<1>6. stable # <<>> /\ Quiet => Quiet'
  <2>1. ASSUME stable # <<>>, Resting(disk, bad, stable, pending, 0)
        PROVE  Resting(disk', {s}, stable, pending, 1)
    BY <1>1, <1>3, <1>5, <2>1, RestingDecay
  <2> QED BY <1>1, <1>2, <2>1 DEF Quiet
<1>7. \/ Stopped' \/ Blank' \/ Opening' \/ Repairing' \/ Updates' \/ Rests'
  <2>1. CASE Stopped
    BY <1>1, <1>6, <2>1 DEF Stopped
  <2>2. CASE Blank
    BY <1>1, <1>6, <2>2 DEF Blank
  <2>3. CASE Opening
    <3>1. Finding(sb, disk, bad, stable, pending, 0) /\ stable # <<>>
      BY <1>2, <2>3 DEF Opening
    <3>2. /\ Resting(disk, bad, stable, pending, 0) /\ Reads(disk, Merged(disk, sb), bad, 0)
          /\ Fits(Merged(disk, sb), bad, stable, pending)
      BY <3>1 DEF Finding
    <3>3. bad = {} /\ Resting(disk', {s}, stable, pending, 1)
      BY <1>1, <1>3, <1>5, <3>1, <3>2, RestingDecay
    <3>4. Reads(disk', Merged(disk', sb), {s}, 1)
      BY <1>1, <1>3, <3>2, ReadsDecay DEF Merged
    <3>5. Decayed(Merged(disk, sb), Merged(disk', sb), s)
      BY <1>3, MergeDecay DEF Merged
    <3>6. Fits(Merged(disk', sb), {s}, stable, pending)
      BY <1>5, <3>1, <3>2, <3>3, <3>5, FitsDecay
    <3>7. Finding(sb, disk', {s}, stable, pending, 1)
      BY <3>1, <3>3, <3>4, <3>6 DEF Finding
    <3> QED BY <1>1, <1>2, <3>1, <3>7 DEF Opening
  <2>4. CASE Repairing
    <3>1. Mending(sb, disk, bad, stable, pending, 0) /\ stable # <<>>
      BY <1>2, <2>4 DEF Repairing
    <3>2. Mended(disk, bad, Repaired(sb), sb.working, stable, pending, 0)
      BY <3>1 DEF Mending
    <3>3. Repaired(sb) \in SUBSET Slots
      BY <3>1, RepairedFields
    <3>4. Mended(disk', {s}, Repaired(sb), sb.working, stable, pending, 1)
      BY <1>1, <1>3, <1>5, <3>1, <3>2, <3>3, MendedDecay
    <3>5. ~(1 = 0)
      OBVIOUS
    <3>6. Mending(sb, disk', {s}, stable, pending, 1)
      BY <3>1, <3>4, <3>5, Zenon DEF Mending
    <3> QED BY <1>1, <1>2, <3>1, <3>6 DEF Repairing
  <2>5. CASE Updates
    <3>1. Overwriting(sb, view, log_view, disk, bad, 0)
      BY <1>2, <2>5 DEF Updates
    <3>2. Pair(sb.working, sb.staging) /\ Progress(sb) \in 0 .. Copies
      BY <3>1, OverwritingMemory, ProgressType
    <3>3. bad = {} /\ Passed(disk, {}, sb.working, sb.staging, Progress(sb))
      BY <3>1 DEF Overwriting
    <3>4. Passed(disk', {s}, sb.working, sb.staging, Progress(sb))
      BY <1>3, <3>2, <3>3, PassedDecay
    <3>5. ASSUME sb.head.phase = "verify"
          PROVE  Passed(Merged(disk', sb), {s}, sb.working, sb.staging, Copies)
      <4>1. Passed(Merged(disk, sb), {}, sb.working, sb.staging, Copies)
        BY <3>1, <3>3, <3>5 DEF Overwriting
      <4>2. Decayed(Merged(disk, sb), Merged(disk', sb), s)
        BY <1>3, MergeDecay DEF Merged
      <4>3. PICK n : n = Copies
        OBVIOUS
      <4>4. n \in 0 .. Copies
        BY <4>3, Halves
      <4>5. Passed(Merged(disk, sb), {}, sb.working, sb.staging, n)
        BY <4>1, <4>3
      <4>6. Passed(Merged(disk', sb), {s}, sb.working, sb.staging, n)
        BY <3>2, <4>2, <4>4, <4>5, PassedDecay
      <4> QED BY <4>3, <4>6
    <3>6. ~(1 = 0)
      OBVIOUS
    <3>7. Overwriting(sb, view, log_view, disk', {s}, 1)
      BY <3>1, <3>4, <3>5, <3>6, Zenon DEF Overwriting
    <3> QED BY <1>1, <1>2, <2>5, <3>7 DEF Updates
  <2>6. CASE Rests
    <3>1. Waiting(sb, view, log_view, disk, bad, 0)
      BY <1>2, <2>6 DEF Rests
    <3>2. bad = {} /\ Passed(disk, {}, sb.working, sb.working, 0) /\ Pair(sb.working, sb.working)
      BY <3>1 DEF Waiting, Serving
    <3>3. PICK n : n = 0
      OBVIOUS
    <3>4. n \in 0 .. Copies
      BY <3>3, Halves
    <3>5. Passed(disk, {}, sb.working, sb.working, n)
      BY <3>2, <3>3
    <3>6. Passed(disk', {s}, sb.working, sb.working, n)
      BY <1>3, <3>2, <3>4, <3>5, PassedDecay
    <3>7. ~(1 = 0) /\ Passed(disk', {s}, sb.working, sb.working, 0)
      BY <3>3, <3>6
    <3>8. Waiting(sb, view, log_view, disk', {s}, 1)
      BY <3>1, <3>7, Zenon DEF Waiting
    <3> QED BY <1>1, <1>2, <2>6, <3>8 DEF Rests
  <2> QED BY <2>1, <2>2, <2>3, <2>4, <2>5, <2>6 DEF IInv
<1>8. Kept
  BY <1>1 DEF Kept
<1> QED BY <1>1, <1>4, <1>7, <1>8 DEF IInv

\* What a crash does to the slots: nothing, or the write in flight takes place,
\* or is torn.
Lands(r, q, B, C, x, w) == q = [r EXCEPT ![x] = w] /\ C = B \ {x}
Tears(r, q, B, C, x) == B \subseteq {x} /\ q = [r EXCEPT ![x] = Faulty] /\ C = {x}

\* What a crash leaves opens.
LEMMA CrashRests ==
  ASSUME IInv, Crash, stable # <<>>
  PROVE  Resting(disk', bad', stable, pending, faults)
<1>1. /\ disk \in Disks /\ bad \in SUBSET Slots /\ Pair(stable, pending)
      /\ sb # Closed
  BY DEF Crash, IInv, TypeOK
<1>2. \/ disk' = disk /\ bad' = bad
      \/ Writing /\ Lands(disk, disk', bad, bad', sb.head.copy, Written)
      \/ Writing /\ Tears(disk, disk', bad, bad', sb.head.copy)
  BY DEF Crash, Lands, Tears, MayFail
<1>3. Writing => /\ sb.head.copy \in Slots /\ Written = Holds(sb.staging, sb.head.copy)
                 /\ \/ Repairing /\ sb.staging = sb.working
                    \/ Updates /\ sb.head.phase = "write"
  BY Writes
<1>4. Writing => sb.head # Idle /\ sb.head.phase \in {"write", "repair"}
  BY DEF Writing
<1>5. CASE Blank
  <2>1. ~Writing
    BY <1>5 DEF Blank, Writing
  <2> QED BY <1>2, <1>5, <2>1 DEF Blank, Quiet
<1>6. CASE Opening
  <2>1. Resting(disk, bad, stable, pending, faults) /\ sb.head.phase = "open"
    BY <1>6 DEF Opening, Finding
  <2>2. ~Writing
    BY <2>1 DEF Writing
  <2> QED BY <1>2, <2>1, <2>2
<1>7. CASE Repairing
  <2>1. Mending(sb, disk, bad, stable, pending, faults)
    BY <1>7 DEF Repairing
  <2>2. /\ Mended(disk, bad, Repaired(sb), sb.working, stable, pending, faults)
        /\ sb.staging = sb.working
    BY <2>1 DEF Mending
  <2>3. Repaired(sb) \in SUBSET Slots /\ sb.head.copy \in Slots \ Repaired(sb)
    BY <2>1, RepairedFields
  <2>4. CASE disk' = disk /\ bad' = bad
    BY <2>2, <2>4 DEF Mended
  <2>5. CASE Writing /\ Lands(disk, disk', bad, bad', sb.head.copy, Written)
    <3>1. Mended([disk EXCEPT ![sb.head.copy] = Holds(sb.working, sb.head.copy)],
                 bad \ {sb.head.copy}, Repaired(sb) \cup {sb.head.copy}, sb.working,
                 stable, pending, faults)
      BY <1>1, <2>2, <2>3, MendedLand
    <3>2. /\ disk' = [disk EXCEPT ![sb.head.copy] = Holds(sb.working, sb.head.copy)]
          /\ bad' = bad \ {sb.head.copy}
      BY <1>3, <2>2, <2>5 DEF Lands
    <3>3. Mended(disk', bad', Repaired(sb) \cup {sb.head.copy}, sb.working,
                 stable, pending, faults)
      BY <3>1, <3>2
    <3> QED BY <3>3 DEF Mended
  <2>6. CASE Writing /\ Tears(disk, disk', bad, bad', sb.head.copy)
    <3>1. bad \in SUBSET {sb.head.copy}
      BY <2>6 DEF Tears
    <3>2. Resting([disk EXCEPT ![sb.head.copy] = Faulty], {sb.head.copy}, stable, pending, faults)
      BY <1>1, <2>2, <2>3, <3>1, MendedTorn
    <3>3. disk' = [disk EXCEPT ![sb.head.copy] = Faulty] /\ bad' = {sb.head.copy}
      BY <2>6 DEF Tears
    <3> QED BY <3>2, <3>3
  <2> QED BY <1>2, <2>4, <2>5, <2>6
<1>8. CASE Updates
  <2>1. Overwriting(sb, view, log_view, disk, bad, faults) /\ stable = sb.working
        /\ pending = sb.staging
    BY <1>8 DEF Updates
  <2>2. PICK n : n = Progress(sb)
    OBVIOUS
  <2>3. /\ n \in 0 .. Copies /\ (faults = 0 => bad = {}) /\ Passed(disk, bad, stable, pending, n)
    <3>1. Progress(sb) \in 0 .. Copies
      BY <2>1, ProgressType
    <3>2. (faults = 0 => bad = {}) /\ Passed(disk, bad, stable, pending, Progress(sb))
      BY <2>1 DEF Overwriting
    <3> QED BY <2>2, <3>1, <3>2
  <2>4. CASE disk' = disk /\ bad' = bad
    <3>1. Resting(disk, bad, stable, pending, faults)
      BY <1>1, <2>3, PassedRests
    <3> QED BY <2>4, <3>1
  <2>5. ASSUME Writing
        PROVE  n \in Slots /\ n = sb.head.copy /\ Written = Holds(pending, n)
               /\ n + 1 \in 0 .. Copies
    <3>1. sb.head.phase = "write"
      <4>1. sb.head.phase \in {"write", "verify"}
        BY <2>1, OverwritingMemory
      <4> QED BY <1>4, <2>5, <4>1
    <3>2. n = sb.head.copy
      BY <2>2, <3>1 DEF Progress
    <3> QED BY <1>3, <2>1, <2>5, <3>2, Halves
  <2>6. CASE Writing /\ Lands(disk, disk', bad, bad', sb.head.copy, Written)
    <3>1. n \in Slots /\ n = sb.head.copy /\ Written = Holds(pending, n) /\ n + 1 \in 0 .. Copies
      BY <2>5, <2>6
    <3>2. Passed([disk EXCEPT ![n] = Holds(pending, n)], bad \ {n}, stable, pending, n + 1)
      BY <1>1, <2>3, <3>1, PassedLand
    <3>3. disk' = [disk EXCEPT ![n] = Holds(pending, n)] /\ bad' = bad \ {n}
      BY <2>6, <3>1 DEF Lands
    <3>4. Passed(disk', bad', stable, pending, n + 1)
      BY <3>2, <3>3
    <3>5. disk' \in Disks /\ bad' \in SUBSET Slots /\ (faults = 0 => bad' = {})
      <4>1. Written \in Headers
        BY <2>6, Writes
      <4> QED BY <1>1, <2>3, <3>1, <3>3, <4>1 DEF Disks
    <3>6. PICK k : k = n + 1
      OBVIOUS
    <3>7. k \in 0 .. Copies /\ Passed(disk', bad', stable, pending, k)
      BY <3>1, <3>4, <3>6
    <3> QED BY <1>1, <3>5, <3>7, PassedRests
  <2>7. CASE Writing /\ Tears(disk, disk', bad, bad', sb.head.copy)
    <3>1. n \in Slots /\ n = sb.head.copy
      BY <2>5, <2>7
    <3>2. bad \in SUBSET {n} /\ disk' = [disk EXCEPT ![n] = Faulty] /\ bad' = {n}
      BY <2>7, <3>1 DEF Tears
    <3>3. Resting([disk EXCEPT ![n] = Faulty], {n}, stable, pending, faults)
      BY <1>1, <2>3, <3>1, <3>2, PassedTorn
    <3> QED BY <3>2, <3>3
  <2> QED BY <1>2, <2>4, <2>6, <2>7
<1>9. CASE Rests
  <2>1. Waiting(sb, view, log_view, disk, bad, faults) /\ stable = sb.working
        /\ pending = sb.staging
    BY <1>9 DEF Rests
  <2>2. /\ sb.head = Idle /\ pending = stable /\ (faults = 0 => bad = {})
        /\ Passed(disk, bad, stable, pending, 0)
    BY <2>1 DEF Waiting, Serving
  <2>3. disk' = disk /\ bad' = bad
    BY <1>2, <1>4, <2>2
  <2>4. PICK n : n = 0
    OBVIOUS
  <2>5. n \in 0 .. Copies /\ Passed(disk, bad, stable, pending, n)
    BY <2>2, <2>4, Halves
  <2>6. Resting(disk, bad, stable, pending, faults)
    BY <1>1, <2>2, <2>5, PassedRests
  <2> QED BY <2>3, <2>6
<1> QED BY <1>1, <1>5, <1>6, <1>7, <1>8, <1>9 DEF IInv, Stopped

\* Crash: the memory is lost.
LEMMA CrashStep ==
  ASSUME IInv, Crash
  PROVE  IInv' /\ Kept
<1>1. /\ sb' = Closed /\ view' = 0 /\ log_view' = 0 /\ stable' = stable /\ pending' = pending
      /\ faults' = faults
  BY DEF Crash
<1>2. disk' \in Disks /\ bad' \subseteq Slots
  <2>1. disk \in Disks /\ bad \subseteq Slots
    BY DEF IInv, TypeOK
  <2>2. Writing => sb.head.copy \in Slots /\ Written \in Headers
    BY Writes
  <2> QED BY <2>1, <2>2 DEF Crash, Disks
<1>3. stable' # <<>> => Quiet'
  BY <1>1, CrashRests DEF Quiet
<1>4. Stopped'
  BY <1>1, <1>3 DEF Stopped
<1>5. Closed \in Memories
  <2>1. <<>> \in Seq(States) /\ [s \in Slots |-> Faulty] \in Disks
    BY DEF Disks
  <2> QED BY <2>1 DEF Closed, Memories
<1>6. TypeOK'
  BY <1>1, <1>2, <1>5, BoundsAssumption DEF IInv, TypeOK, Crash
<1>7. Kept
  BY <1>1 DEF Closed, Kept, Register!Next, Register!Crash
<1> QED BY <1>1, <1>4, <1>6, <1>7 DEF IInv

\* A step that changes nothing.
LEMMA Stutters ==
  ASSUME IInv, UNCHANGED vars
  PROVE  IInv' /\ Kept
<1>1. UNCHANGED <<disk, bad, sb, view, log_view, stable, pending, crashes, faults>>
  BY DEF vars
<1>2. TypeOK'
  BY <1>1 DEF IInv, TypeOK
<1>3. /\ Stopped' <=> Stopped
      /\ Blank' <=> Blank
      /\ Opening' <=> Opening
      /\ Repairing' <=> Repairing
      /\ Updates' <=> Updates
      /\ Rests' <=> Rests
  BY <1>1 DEF Stopped, Blank, Opening, Repairing, Updates, Rests, Quiet
<1>4. Kept
  BY <1>1 DEF Kept
<1> QED BY <1>1, <1>2, <1>3, <1>4 DEF IInv

\* The process is stopped at first.
LEMMA Starts ==
  ASSUME Init
  PROVE  IInv
<1>1. Closed \in Memories
  <2>1. <<>> \in Seq(States) /\ [s \in Slots |-> Faulty] \in Disks
    BY DEF Disks
  <2> QED BY <2>1 DEF Closed, Memories
<1>2. TypeOK
  BY <1>1, BoundsAssumption DEF Init, TypeOK, Disks
<1>3. Stopped
  BY DEF Init, Stopped
<1> QED BY <1>2, <1>3 DEF Init, IInv

\* Every step preserves the inductive invariant, and is one of the register.
LEMMA EveryStep ==
  ASSUME IInv, OneFault, [Next]_vars
  PROVE  IInv' /\ Kept
<1>1. CASE Next
  <2>1. \/ Format \/ Open \/ EnterView \/ EstablishView \/ Checkpoint
        \/ ReadCompletes \/ WriteLands \/ Crash
        \/ \E s \in Slots : WriteGoesAstray(s) \/ Decay(s)
    BY <1>1 DEF Next
  <2> QED BY <2>1, FormatStep, OpenStep, EnterViewStep, EstablishViewStep, CheckpointStep,
             ReadCompletesStep, WriteLandsStep, CrashStep, WriteGoesAstrayStep, DecayStep
<1>2. CASE UNCHANGED vars
  BY <1>2, Stutters
<1> QED BY <1>1, <1>2

-----------------------------------------------------------------------------
(* Theorems *)

\* TypeOK: the superblock's memory, the slots and the promises have their
\* types.
THEOREM TypeCorrect ==
  ASSUME OneFault
  PROVE  Spec => []TypeOK
<1>1. Init => IInv
  BY Starts
<1>2. IInv /\ [Next]_vars => IInv'
  BY EveryStep
<1>3. IInv => TypeOK
  BY DEF IInv
<1> QED BY <1>1, <1>2, <1>3, PTL DEF Spec

\* NeverPanics: with one faulty slot at most, no read of the slots ends in a
\* quorum error or a failed verification, and the asserts of view_change,
\* checkpoint and acquire hold, whatever crashes and view changes come between.
THEOREM PanicFree ==
  ASSUME OneFault
  PROVE  Spec => []NeverPanics
<1>1. Init => IInv
  BY Starts
<1>2. IInv /\ [Next]_vars => IInv'
  BY EveryStep
<1>3. IInv => NeverPanics
  <2>1. Updates => NeverPanics
    BY OverwritingMemory DEF Updates, NeverPanics
  <2>2. Rests => NeverPanics
    BY DEF Rests, Waiting, Serving, NeverPanics
  <2>3. Stopped \/ Blank \/ Opening \/ Repairing => NeverPanics
    BY DEF Stopped, Closed, Blank, Opening, Finding, Repairing, Mending, NeverPanics
  <2> QED BY <2>1, <2>2, <2>3 DEF IInv
<1> QED BY <1>1, <1>2, <1>3, PTL DEF Spec

\* What is on disk opens, at every instant.
LEMMA Opens ==
  ASSUME IInv, stable # <<>>
  PROVE  Fits(disk, bad, stable, pending)
<1>1. disk \in Disks /\ bad \in SUBSET Slots /\ Pair(stable, pending)
  BY DEF IInv, TypeOK
<1>2. CASE Stopped \/ Blank
  BY <1>2 DEF Stopped, Blank, Quiet, Resting
<1>3. CASE Opening
  BY <1>3 DEF Opening, Finding, Resting
<1>4. CASE Repairing
  BY <1>4 DEF Repairing, Mending, Mended, Resting
<1>5. CASE Updates
  <2>1. PICK n : n = Progress(sb)
    OBVIOUS
  <2>2. Progress(sb) \in 0 .. Copies
    BY <1>5, ProgressType DEF Updates
  <2>3. Passed(disk, bad, stable, pending, Progress(sb))
    BY <1>5 DEF Updates, Overwriting
  <2>4. n \in 0 .. Copies /\ Passed(disk, bad, stable, pending, n)
    BY <2>1, <2>2, <2>3
  <2> QED BY <1>1, <2>4, PassedFits
<1>6. CASE Rests
  <2>1. PICK n : n = 0
    OBVIOUS
  <2>2. Passed(disk, bad, stable, pending, 0)
    BY <1>6 DEF Rests, Waiting, Serving
  <2>3. n \in 0 .. Copies /\ Passed(disk, bad, stable, pending, n)
    BY <2>1, <2>2, Halves
  <2> QED BY <1>1, <2>3, PassedFits
<1> QED BY <1>2, <1>3, <1>4, <1>5, <1>6 DEF IInv

\* AlwaysRecoverable: between any two writes, of an update or of a repair, a
\* crash would find slots that open to the last state promised or to the one
\* being written.
THEOREM Recoverable ==
  ASSUME OneFault
  PROVE  Spec => []AlwaysRecoverable
<1>1. Init => IInv
  BY Starts
<1>2. IInv /\ [Next]_vars => IInv'
  BY EveryStep
<1>3. IInv => AlwaysRecoverable
  <2>1. ASSUME IInv, stable # <<>>
        PROVE  Working(disk, "open") \subseteq {stable, pending}
    <3>1. disk \in Disks /\ Pair(stable, pending)
      BY <2>1 DEF IInv, TypeOK
    <3>2. Fits(disk, bad, stable, pending)
      BY <2>1, Opens
    <3>3. Working(disk, "open") = {IF Valid(disk, "open", pending) THEN pending ELSE stable}
      BY <2>1, <3>1, <3>2, Chosen
    <3> QED BY <3>3
  <2> QED BY <2>1 DEF AlwaysRecoverable
<1> QED BY <1>1, <1>2, <1>3, PTL DEF Spec

\* Durable: the superblock, with its quorums and its repairs, implements a
\* register that survives crashes.
THEOREM Refines ==
  ASSUME OneFault
  PROVE  Spec => Durable
<1>1. Init => IInv /\ Register!Init
  BY Starts DEF Init, Closed, Register!Init
<1>2. IInv /\ [Next]_vars => IInv'
  BY EveryStep
<1>3. IInv /\ [Next]_vars => [Register!Next]_<<stable, pending, sb.opened>>
  BY EveryStep DEF Kept
<1> QED BY <1>1, <1>2, <1>3, PTL DEF Spec, Durable, Register!Spec

\* NoUpdateIsUndone: what a view change or a checkpoint made durable stays.
THEOREM NothingUndone ==
  ASSUME OneFault
  PROVE  Spec => NoUpdateIsUndone
<1> DEFINE Undoes == stable # <<>> => Monotonic(Last(stable), Last(stable'))
<1>1. Init => IInv
  BY Starts
<1>2. IInv /\ [Next]_vars => IInv'
  BY EveryStep
<1>3. IInv /\ [Next]_vars => [Undoes]_stable
  <2>1. ASSUME IInv, [Next]_vars, stable # <<>>
        PROVE  Undoes \/ stable' = stable
    <3>1. Kept
      BY <2>1, EveryStep
    <3>2. stable' \in {stable, pending}
      BY <3>1 DEF Kept, Register!Next, Register!Update, Register!AcknowledgeAndUpdate,
                  Register!Acknowledge, Register!Crash, Register!Recover
    <3>3. Pair(stable, pending)
      BY <2>1 DEF IInv
    <3>4. Monotonic(Last(stable), Last(pending))
      BY <2>1, <3>3, Grows
    <3> QED BY <3>2, <3>4
  <2> QED BY <2>1
<1> HIDE DEF Undoes
<1>4. Spec => [][Undoes]_stable
  BY <1>1, <1>2, <1>3, PTL DEF Spec
<1> QED BY <1>4 DEF NoUpdateIsUndone, Undoes
=============================================================================
