------------------------ MODULE ClientRepliesProofs ------------------------
(* The replies on disk, for any number of clients, slots, reads and ops,    *)
(* and up to two write operations, which is what the code has.              *)
EXTENDS ClientReplies, Extremes, FunctionTheorems, SequenceTheorems, TLAPS

-----------------------------------------------------------------------------
(* The inductive invariant                                                  *)

OnDisk == Replies \cup {None, Corrupt}

Memory ==
  [reads : [1 .. ReadsMax -> Reads \cup {None}], reads_in_flight : Seq(1 .. ReadsMax),
   writes : [1 .. WritesMax -> Writes \cup {None}], writes_in_flight : Seq(1 .. WritesMax),
   write_queue : Seq(1 .. WritesMax), writing : SUBSET Slots, faulty : SUBSET Slots,
   ready_waiting : BOOLEAN, checkpoint_waiting : BOOLEAN,
   panic : {None, "commit", "checkpoint"}]

Completions == [type : {"write"}] \cup [type : {"read"}, found : OnDisk]

Components == [m : Memory, disk : [Slots -> OnDisk], io : Seq(Completions)]

\* The completions of a kind that the storage has still to report.
Reports(c, type) == {k \in 1 .. Len(c) : c[k].type = type}

Count(c, type) == Cardinality(Reports(c, type))

\* The read and the write at a place of their order.
Read(m, k) == m.reads[m.reads_in_flight[k]]

Write(m, k) == m.writes[m.writes_in_flight[k]]

Live(m) == 1 .. Len(m.writes_in_flight)

\* Each completion of a read meets an operation that waits for it.
Reading(x) ==
  /\ \A k \in 1 .. Len(x.m.reads_in_flight) : Read(x.m, k) # None
  /\ \A k, l \in 1 .. Len(x.m.reads_in_flight) :
       x.m.reads_in_flight[k] = x.m.reads_in_flight[l] => k = l
  /\ Count(x.io, "read") = Len(x.m.reads_in_flight)

\* The second of two writes waits when it is for the slot of the first.
Waits(m) == Len(m.writes_in_flight) = 2 /\ Write(m, 1).slot = Write(m, 2).slot

\* The writes in flight are the operations that are taken; the storage reports
\* once what was started.
Writing(x) ==
  /\ Len(x.m.writes_in_flight) <= WritesMax
  /\ \A k \in Live(x.m) : Write(x.m, k) # None
  /\ \A k, l \in Live(x.m) : x.m.writes_in_flight[k] = x.m.writes_in_flight[l] => k = l
  /\ \A i \in 1 .. WritesMax :
       x.m.writes[i] # None => \E k \in Live(x.m) : x.m.writes_in_flight[k] = i
  /\ x.m.writing = {Write(x.m, k).slot : k \in Live(x.m)}
  /\ x.m.write_queue = IF Waits(x.m) THEN <<x.m.writes_in_flight[2]>> ELSE <<>>
  /\ Count(x.io, "write") = IF Waits(x.m) THEN 1 ELSE Len(x.m.writes_in_flight)

\* A write is of a reply of its slot's client, up to the latest one.
Recent(w, t, n, R) ==
  /\ w.reply.client \in R /\ w.reply.op <= n
  /\ \A s \in Slots : t[s] # None /\ t[s].client = w.reply.client =>
       /\ w.slot = s /\ w.reply.op <= t[s].op
       /\ w.reply.op = t[s].op => w.reply = t[s]

\* What is, or will be, in a slot that is not faulty is its latest reply.
Holds(x, s, r) ==
  IF s \in x.m.writing
  THEN \A k \in Live(x.m) :
         /\ Write(x.m, k).slot = s
         /\ \A l \in Live(x.m) : k < l => Write(x.m, l).slot # s
         => Write(x.m, k).reply = r
  ELSE x.disk[s] \in {r, Corrupt}

Contents(x, t, n, R) ==
  /\ \A k \in Live(x.m) : Recent(Write(x.m, k), t, n, R)
  /\ \A k \in Live(x.m) : k = 1 \/ ~Waits(x.m) =>
       x.disk[Write(x.m, k).slot] \in {Write(x.m, k).reply, Corrupt}
  /\ \A s \in Slots : t[s] # None /\ t[s].body /\ s \notin x.m.faulty => Holds(x, s, t[s])

\* A component that keeps the replies of a table t, of n ops and the clients R.
Keeps(x, t, n, R) ==
  x \in Components /\ Reading(x) /\ Writing(x) /\ Contents(x, t, n, R)

Table(t, n, R) ==
  /\ t \in [Slots -> Replies \cup {None}] /\ n \in Nat /\ R \subseteq Clients
  /\ \A s \in Slots : t[s] # None => t[s].client \in R /\ t[s].op <= n
  /\ \A s, e \in Slots : t[s] # None /\ t[e] # None /\ t[s].client = t[e].client => s = e

Parked == \E r \in NextReplies : commit = Setup(r)

Pipeline ==
  /\ commit = Idle \/ commit = Superblock \/ Parked
  /\ replies.ready_waiting => Parked

IInv ==
  /\ Table(sessions, op, registered)
  /\ Keeps(State, sessions, op, registered)
  /\ Pipeline

-----------------------------------------------------------------------------
(* Completions                                                              *)

\* What a completion is.
LEMMA Completion ==
  ASSUME NEW c \in Seq(Completions), NEW k \in 1 .. Len(c)
  PROVE  c[k] \in Completions /\ c[k].type \in {"read", "write"}
<1>1. c[k] \in Completions
  OBVIOUS
<1> QED BY <1>1 DEF Completions

\* Completions are counted.
LEMMA Counts ==
  ASSUME NEW c \in Seq(Completions), NEW type
  PROVE  IsFiniteSet(Reports(c, type)) /\ Count(c, type) \in Nat
<1>1. Reports(c, type) \subseteq 1 .. Len(c) /\ IsFiniteSet(1 .. Len(c))
  BY FS_Interval DEF Reports
<1>2. IsFiniteSet(Reports(c, type))
  BY <1>1, FS_Subset
<1> QED BY <1>2, FS_CardinalityType DEF Count

\* An I/O that starts adds a completion of its kind.
LEMMA CountAppend ==
  ASSUME NEW c \in Seq(Completions), NEW e \in Completions, NEW type
  PROVE  /\ Append(c, e) \in Seq(Completions)
         /\ Count(Append(c, e), type) = IF e.type = type THEN Count(c, type) + 1
                                        ELSE Count(c, type)
<1> DEFINE d == Append(c, e)
           n == Len(c) + 1
<1>1. /\ d \in Seq(Completions) /\ Len(d) = n /\ d[n] = e /\ Len(c) \in Nat
      /\ \A k \in 1 .. Len(c) : d[k] = c[k]
  OBVIOUS
<1>2. CASE e.type = type
  <2>1. Reports(d, type) = Reports(c, type) \cup {n} /\ n \notin Reports(c, type)
    <3> HIDE DEF d
    <3> QED BY <1>1, <1>2 DEF Reports
  <2>2. IsFiniteSet(Reports(c, type))
    BY Counts
  <2>3. Cardinality(Reports(c, type) \cup {n}) = Cardinality(Reports(c, type)) + 1
    <3> HIDE DEF n
    <3> QED BY <2>1, <2>2, FS_AddElement
  <2>4. Count(d, type) = Count(c, type) + 1
    BY <2>1, <2>3 DEF Count
  <2> QED BY <1>1, <1>2, <2>4
<1>3. CASE e.type # type
  <2>1. Reports(d, type) = Reports(c, type)
    <3> HIDE DEF d
    <3> QED BY <1>1, <1>3 DEF Reports
  <2> QED BY <1>1, <1>3, <2>1 DEF Count
<1> QED BY <1>2, <1>3

\* The first completion of a sequence is one of its kind, and the rest the others.
LEMMA CountTail ==
  ASSUME NEW c \in Seq(Completions), c # << >>, NEW type
  PROVE  /\ Head(c) \in Completions /\ Tail(c) \in Seq(Completions)
         /\ Count(c, type) = IF Head(c).type = type THEN Count(Tail(c), type) + 1
                             ELSE Count(Tail(c), type)
<1> DEFINE d == Tail(c)
           S == Reports(d, type)
           T == {k \in 2 .. Len(c) : c[k].type = type}
           f == [k \in S |-> k + 1]
<1>1. /\ d \in Seq(Completions) /\ Len(d) = Len(c) - 1 /\ Head(c) = c[1]
      /\ Len(c) \in Nat /\ Len(c) >= 1 /\ c[1] \in Completions
      /\ \A k \in 1 .. Len(d) : d[k] = c[k + 1]
  OBVIOUS
<1>2. IsFiniteSet(S) /\ Count(d, type) = Cardinality(S) /\ Cardinality(S) \in Nat
  BY <1>1, Counts DEF Count
<1>3. f \in Bijection(S, T)
  <2> HIDE DEF d
  <2>1. \A k \in S : k + 1 \in T /\ k \in Int
    BY <1>1 DEF Reports
  <2>2. \A k \in T : k - 1 \in S /\ f[k - 1] = k
    <3>1. ASSUME NEW k \in T
          PROVE  k - 1 \in 1 .. Len(d) /\ c[k].type = type /\ k \in Int
      BY <1>1
    <3>2. \A k \in T : k - 1 \in S
      <4> SUFFICES ASSUME NEW k \in T PROVE k - 1 \in S
        OBVIOUS
      <4>1. k - 1 \in 1 .. Len(d) /\ c[k].type = type /\ k \in Int /\ (k - 1) + 1 = k
        BY <3>1
      <4>2. d[k - 1] = c[k]
        BY <4>1, <1>1
      <4> QED BY <4>1, <4>2 DEF Reports
    <3> QED BY <3>1, <3>2
  <2> HIDE DEF T, S
  <2>3. f \in [S -> T] /\ \A k, l \in S : f[k] = f[l] => k = l
    BY <2>1
  <2>4. \A k \in T : \E l \in S : f[l] = k
    BY <2>2
  <2> HIDE DEF f
  <2> QED BY <2>3, <2>4, Fun_IsBij
<1>4. IsFiniteSet(T) /\ Cardinality(T) = Cardinality(S)
  <2> HIDE DEF S, T, f
  <2> QED BY <1>2, <1>3, FS_Bijection DEF ExistsBijection
<1>5. CASE c[1].type = type
  <2>1. Reports(c, type) = T \cup {1} /\ 1 \notin T
    BY <1>1, <1>5 DEF Reports
  <2> HIDE DEF T, S, d
  <2>2. Cardinality(T \cup {1}) = Cardinality(T) + 1
    BY <1>4, <2>1, FS_AddElement
  <2>3. Head(c).type = type
    BY <1>1, <1>5
  <2>4. Count(c, type) = Count(d, type) + 1
    BY <1>2, <1>4, <2>1, <2>2 DEF Count
  <2>5. Count(c, type) = Count(Tail(c), type) + 1
    BY <2>4 DEF d
  <2> QED BY <1>1, <2>3, <2>5 DEF d
<1>6. CASE c[1].type # type
  <2>1. Reports(c, type) = T
    BY <1>1, <1>6 DEF Reports
  <2> HIDE DEF T, S, d
  <2>2. Head(c).type # type
    BY <1>1, <1>6
  <2>3. Count(c, type) = Count(d, type)
    BY <1>2, <1>4, <2>1 DEF Count
  <2>4. Count(c, type) = Count(Tail(c), type)
    BY <2>3 DEF d
  <2> QED BY <1>1, <2>2, <2>4 DEF d
<1> QED BY <1>5, <1>6

-----------------------------------------------------------------------------
(* The pool of writes                                                       *)

\* The operations are not None.
LEMMA NotNone ==
  /\ None \notin Replies /\ None \notin Reads /\ None \notin Writes
  /\ None # "commit" /\ None # "checkpoint"
BY NoneAssumption

\* The fields of a component.
LEMMA Fields ==
  ASSUME NEW x \in Components
  PROVE  /\ x.m \in Memory /\ x.disk \in [Slots -> OnDisk] /\ x.io \in Seq(Completions)
         /\ x.m.reads \in [1 .. ReadsMax -> Reads \cup {None}]
         /\ x.m.reads_in_flight \in Seq(1 .. ReadsMax)
         /\ x.m.writes \in [1 .. WritesMax -> Writes \cup {None}]
         /\ x.m.writes_in_flight \in Seq(1 .. WritesMax)
         /\ x.m.write_queue \in Seq(1 .. WritesMax)
         /\ x.m.writing \subseteq Slots /\ x.m.faulty \subseteq Slots
         /\ x.m.panic \in {None, "commit", "checkpoint"}
BY DEF Components, Memory

\* The fields of the operations.
LEMMA WriteFields ==
  ASSUME NEW w \in Writes
  PROVE  /\ w.slot \in Slots /\ w.reply \in Replies
         /\ w.reply.client \in Clients /\ w.reply.op \in Nat
BY DEF Writes, Replies

\* The writes in flight are in the pool.
LEMMA LiveWrite ==
  ASSUME NEW x \in Components, Writing(x), NEW k \in Live(x.m)
  PROVE  /\ x.m.writes_in_flight[k] \in 1 .. WritesMax /\ Write(x.m, k) \in Writes
<1>1. k \in 1 .. Len(x.m.writes_in_flight) /\ Write(x.m, k) # None
  BY DEF Live, Writing
<1>2. x.m.writes_in_flight \in Seq(1 .. WritesMax)
  BY Fields
<1>3. x.m.writes_in_flight[k] \in 1 .. WritesMax
  BY <1>1, <1>2, ElementOfSeq
<1> QED BY <1>1, <1>3, Fields DEF Write

\* A free operation of a pool is found when there is one.
LEMMA FreeOne ==
  ASSUME NEW n \in Nat, NEW S, NEW p \in [1 .. n -> S], NEW k \in 1 .. n, p[k] = None
  PROVE  Free(p) \in 1 .. n /\ p[Free(p)] = None
<1> DEFINE U == {i \in DOMAIN p : p[i] = None}
<1>1. U \subseteq Nat /\ U # {} /\ U \subseteq 1 .. n
  OBVIOUS
<1>2. PICK b \in U : \A c \in U : b <= c
  <2> HIDE DEF U
  <2> QED BY <1>1, LeastElement
<1>3. Free(p) \in U
  <2>1. Free(p) = CHOOSE i \in U : \A c \in U : i <= c
    BY DEF Free, Min
  <2> HIDE DEF U
  <2> QED BY <1>2, <2>1
<1> QED BY <1>3

\* An IOP is ready as long as there are fewer writes than the pool has.
LEMMA FreeWrite ==
  ASSUME WritesMax <= 2, NEW x \in Components, Writing(x), ReadySync(x.m)
  PROVE  /\ Free(x.m.writes) \in 1 .. WritesMax /\ x.m.writes[Free(x.m.writes)] = None
         /\ x.m.write_queue = << >>
         /\ Len(x.m.writes_in_flight) \in 0 .. 1
<1>1. /\ WritesMax \in Nat /\ WritesMax >= 1 /\ Len(x.m.writes_in_flight) \in Nat
      /\ Len(x.m.writes_in_flight) < WritesMax
      /\ x.m.writes \in [1 .. WritesMax -> Writes \cup {None}]
  BY Fields, RepliesAssumption DEF ReadySync
<1>5. Len(x.m.writes_in_flight) \in 0 .. 1
  <2> DEFINE n == Len(x.m.writes_in_flight)
  <2>1. n \in Nat /\ n < WritesMax /\ WritesMax \in Nat
    BY <1>1
  <2> HIDE DEF n
  <2>2. n \in 0 .. 1
    BY <2>1
  <2> QED BY <2>2 DEF n
<1>2. \E k \in 1 .. WritesMax : x.m.writes[k] = None
  <2>1. CASE Len(x.m.writes_in_flight) = 0
    <3>1. x.m.writes[1] = None
      BY <1>1, <2>1 DEF Writing, Live
    <3> QED BY <1>1, <3>1
  <2>2. CASE Len(x.m.writes_in_flight) = 1
    <3> DEFINE i == x.m.writes_in_flight[1]
    <3>1. WritesMax = 2 /\ \A j \in 1 .. WritesMax : x.m.writes[j] # None => i = j
      <4>1. WritesMax = 2
        BY <1>1, <2>2
      <4>2. Live(x.m) = {1}
        BY <2>2 DEF Live
      <4>3. \A j \in 1 .. WritesMax :
              x.m.writes[j] # None => \E k \in {1} : x.m.writes_in_flight[k] = j
        BY <4>2 DEF Writing
      <4> QED BY <4>1, <4>3
    <3>2. x.m.writes[1] = None \/ x.m.writes[2] = None
      BY <3>1
    <3> QED BY <3>1, <3>2
  <2> QED BY <1>5, <2>1, <2>2
<1>3. Free(x.m.writes) \in 1 .. WritesMax /\ x.m.writes[Free(x.m.writes)] = None
  BY <1>1, <1>2, FreeOne
<1>4. x.m.write_queue = << >>
  <2>1. ~Waits(x.m)
    <3>1. \A n \in 0 .. 1 : n # 2
      OBVIOUS
    <3>2. Len(x.m.writes_in_flight) # 2
      BY <1>5, <3>1, Zenon
    <3> QED BY <3>2 DEF Waits
  <2> QED BY <2>1 DEF Writing
<1> QED BY <1>3, <1>4, <1>5

-----------------------------------------------------------------------------
(* write_reply_next                                                         *)

\* Of an empty queue nothing starts.
LEMMA StartableNone ==
  ASSUME NEW m, m.write_queue = << >>
  PROVE  Startable(m) = 0
<1> DEFINE P(n) == \A k \in 1 .. n : m.writes[m.write_queue[k]].slot \notin m.writing
<1>1. {n \in 0 .. Len(m.write_queue) : P(n)} = {0}
  <2>1. 0 .. Len(m.write_queue) = {0} /\ 1 .. 0 = {}
    OBVIOUS
  <2> QED BY <2>1
<1>2. Startable(m) = Max({n \in 0 .. Len(m.write_queue) : P(n)})
  BY DEF Startable
<1>3. Max({0}) = 0
  BY DEF Max
<1> QED BY <1>1, <1>2, <1>3

\* A write that is queued alone starts when its slot is not being written.
LEMMA StartableOne ==
  ASSUME NEW m, NEW i, m.write_queue = <<i>>
  PROVE  Startable(m) = IF m.writes[i].slot \in m.writing THEN 0 ELSE 1
<1> DEFINE P(n) == \A k \in 1 .. n : m.writes[m.write_queue[k]].slot \notin m.writing
           U == {n \in 0 .. Len(m.write_queue) : P(n)}
<1>1. 0 .. Len(m.write_queue) = {0, 1} /\ 1 .. 0 = {} /\ 1 .. 1 = {1} /\ m.write_queue[1] = i
  OBVIOUS
<1>2. Startable(m) = Max(U)
  BY DEF Startable
<1>3. P(0) /\ (P(1) <=> m.writes[i].slot \notin m.writing)
  BY <1>1
<1>4. CASE m.writes[i].slot \in m.writing
  <2>1. U = {0}
    BY <1>1, <1>3, <1>4
  <2>2. Max({0}) = 0
    BY DEF Max
  <2> QED BY <1>2, <1>4, <2>1, <2>2
<1>5. CASE m.writes[i].slot \notin m.writing
  <2>1. U = {0, 1}
    BY <1>1, <1>3, <1>5
  <2>2. Max({0, 1}) = 1
    BY DEF Max
  <2> QED BY <1>2, <1>5, <2>1, <2>2
<1> QED BY <1>4, <1>5

\* Nothing changes when nothing starts.
LEMMA NothingStarts ==
  ASSUME NEW x \in Components, Startable(x.m) = 0
  PROVE  WriteReplyNext(x) = x
<1> DEFINE q == x.m.write_queue
           first == {x.m.writes[q[k]] : k \in 1 .. 0}
           done == {w.slot : w \in first}
           c == [k \in 1 .. 0 |-> [type |-> "write"]]
<1>1. WriteReplyNext(x) =
        [m    |-> [x.m EXCEPT !.write_queue = SubSeq(@, 0 + 1, Len(@)), !.writing = @ \cup done],
         disk |-> [s \in Slots |-> IF s \in done THEN (CHOOSE w \in first : w.slot = s).reply
                                   ELSE x.disk[s]],
         io   |-> x.io \o c]
  BY DEF WriteReplyNext
<1>2. first = {} /\ done = {}
  OBVIOUS
<1>3. x.io \o c = x.io
  <2>1. x.io \in Seq(Completions)
    BY Fields
  <2>2. c = << >>
    OBVIOUS
  <2> HIDE DEF c
  <2> QED BY <2>1, <2>2
<1>4. SubSeq(q, 0 + 1, Len(q)) = q
  <2>1. q \in Seq(1 .. WritesMax)
    BY Fields
  <2> HIDE DEF q
  <2> QED BY <2>1
<1>5. [s \in Slots |-> IF s \in done THEN (CHOOSE w \in first : w.slot = s).reply
                       ELSE x.disk[s]] = x.disk
  <2>1. x.disk \in [Slots -> OnDisk]
    BY Fields
  <2> HIDE DEF first, done
  <2> QED BY <1>2, <2>1
<1>6. [x.m EXCEPT !.write_queue = SubSeq(@, 0 + 1, Len(@)), !.writing = @ \cup done] = x.m
  <2>1. x.m \in Memory
    BY Fields
  <2>2. x.m.writing \cup done = x.m.writing
    BY <1>2
  <2> HIDE DEF done
  <2> QED BY <1>4, <2>1, <2>2 DEF Memory
<1>7. x = [m |-> x.m, disk |-> x.disk, io |-> x.io]
  BY DEF Components
<1> HIDE DEF first, done, c
<1> QED BY <1>1, <1>3, <1>5, <1>6, <1>7

\* What the start of a write does.
Begun(x, w) ==
  [m    |-> [x.m EXCEPT !.write_queue = <<>>, !.writing = @ \cup {w.slot}],
   disk |-> [x.disk EXCEPT ![w.slot] = w.reply],
   io   |-> Append(x.io, [type |-> "write"])]

\* A write that is queued alone starts.
LEMMA OneStarts ==
  ASSUME NEW x \in Components, NEW i, x.m.write_queue = <<i>>,
         x.m.writes[i] \in Writes, x.m.writes[i].slot \notin x.m.writing
  PROVE  WriteReplyNext(x) = Begun(x, x.m.writes[i])
<1> DEFINE q == x.m.write_queue
           v == x.m.writes[i]
           first == {x.m.writes[q[k]] : k \in 1 .. 1}
           done == {w.slot : w \in first}
           c == [k \in 1 .. 1 |-> [type |-> "write"]]
           disks == [s \in Slots |-> IF s \in done THEN (CHOOSE w \in first : w.slot = s).reply
                                     ELSE x.disk[s]]
           mem == [x.m EXCEPT !.write_queue = SubSeq(@, 1 + 1, Len(@)), !.writing = @ \cup done]
<1>1. WriteReplyNext(x) = [m |-> mem, disk |-> disks, io |-> x.io \o c]
  <2>1. Startable(x.m) = 1
    BY StartableOne
  <2> QED BY <2>1 DEF WriteReplyNext
<1>2. first = {v} /\ done = {v.slot}
  <2>1. q[1] = i /\ 1 .. 1 = {1}
    OBVIOUS
  <2>2. first = {v}
    BY <2>1
  <2> QED BY <2>2
<1>3. x.io \o c = Append(x.io, [type |-> "write"])
  <2>1. x.io \in Seq(Completions)
    BY Fields
  <2>2. c = <<[type |-> "write"]>>
    OBVIOUS
  <2> HIDE DEF c
  <2> QED BY <2>1, <2>2
<1>4. SubSeq(q, 1 + 1, Len(q)) = << >>
  OBVIOUS
<1>5. disks = [x.disk EXCEPT ![v.slot] = v.reply]
  <2>1. x.disk \in [Slots -> OnDisk]
    BY Fields
  <2> HIDE DEF v, q
  <2>2. ASSUME NEW s \in Slots
        PROVE  disks[s] = IF s = v.slot THEN v.reply ELSE x.disk[s]
    <3>1. CASE s = v.slot
      <4>1. (CHOOSE w \in first : w.slot = s) = v
        BY <1>2, <3>1
      <4> QED BY <1>2, <3>1, <4>1
    <3>2. CASE s # v.slot
      BY <1>2, <3>2
    <3> QED BY <3>1, <3>2
  <2>3. disks = [s \in Slots |-> disks[s]]
    OBVIOUS
  <2> HIDE DEF disks
  <2> QED BY <2>1, <2>2, <2>3
<1>6. mem = [x.m EXCEPT !.write_queue = <<>>, !.writing = @ \cup {v.slot}]
  <2> HIDE DEF done, v
  <2> QED BY <1>2, <1>4
<1>7. x = [m |-> x.m, disk |-> x.disk, io |-> x.io]
  BY DEF Components
<1>8. Begun(x, v) = [m |-> [x.m EXCEPT !.write_queue = <<>>, !.writing = @ \cup {v.slot}],
                     disk |-> [x.disk EXCEPT ![v.slot] = v.reply],
                     io |-> Append(x.io, [type |-> "write"])]
  BY DEF Begun
<1> HIDE DEF disks, mem, c, v
<1>9. WriteReplyNext(x) = Begun(x, v)
  BY <1>1, <1>3, <1>5, <1>6, <1>8
<1> QED BY <1>9 DEF v

-----------------------------------------------------------------------------
(* write_reply                                                              *)

\* An assertion that holds does nothing.
LEMMA Passes ==
  ASSUME NEW x, NEW name
  PROVE  Check(x, name, TRUE) = x
BY DEF Check

\* The memory as a write of slot s finds it.
Answered(m, r, s) == [ResolveReads(m, r) EXCEPT !.faulty = @ \ {s}]

\* Reads that are answered from the write stay where they are.
LEMMA Resolved ==
  ASSUME NEW m \in Memory, NEW r, NEW s
  PROVE  LET n == Answered(m, r, s) IN
         /\ n \in Memory
         /\ n.reads_in_flight = m.reads_in_flight
         /\ \A i \in 1 .. ReadsMax : n.reads[i] = None <=> m.reads[i] = None
         /\ n.writes = m.writes /\ n.writes_in_flight = m.writes_in_flight
         /\ n.write_queue = m.write_queue /\ n.writing = m.writing
         /\ n.faulty = m.faulty \ {s} /\ n.panic = m.panic
         /\ n.ready_waiting = m.ready_waiting
         /\ n.checkpoint_waiting = m.checkpoint_waiting
<1> DEFINE a == m.reads
           f(v) == IF v # None /\ v.reply = r THEN [v EXCEPT !.wanted = FALSE] ELSE v
           b == [i \in DOMAIN a |-> f(a[i])]
           k == [m EXCEPT !.reads = b]
           n == [k EXCEPT !.faulty = @ \ {s}]
<1>1. ResolveReads(m, r) = k
  BY DEF ResolveReads
<1>2. a \in [1 .. ReadsMax -> Reads \cup {None}]
  BY DEF Memory
<1>3. ASSUME NEW v \in Reads \cup {None}
      PROVE  f(v) \in Reads \cup {None} /\ (f(v) = None <=> v = None)
  <2>1. CASE v = None
    BY <2>1
  <2>2. CASE v \in Reads
    <3>1. [v EXCEPT !.wanted = FALSE] \in Reads
      BY <2>2 DEF Reads
    <3> QED BY <2>2, <3>1, NotNone
  <2> QED BY <1>3, <2>1, <2>2
<1>4. /\ b \in [1 .. ReadsMax -> Reads \cup {None}]
      /\ \A i \in 1 .. ReadsMax : b[i] = None <=> a[i] = None
  <2> HIDE DEF a, f
  <2> QED BY <1>2, <1>3
<1> HIDE DEF b, a, f
<1>5. k \in Memory /\ k.reads = b
  BY <1>4 DEF Memory
<1>6. n \in Memory /\ n.reads = b
  <2> HIDE DEF k
  <2> QED BY <1>5 DEF Memory
<1>7. /\ n.reads_in_flight = m.reads_in_flight
      /\ n.writes = m.writes /\ n.writes_in_flight = m.writes_in_flight
      /\ n.write_queue = m.write_queue /\ n.writing = m.writing
      /\ n.faulty = m.faulty \ {s} /\ n.panic = m.panic
      /\ n.ready_waiting = m.ready_waiting
      /\ n.checkpoint_waiting = m.checkpoint_waiting
  BY DEF Memory
<1> HIDE DEF n, k
<1>8. n = Answered(m, r, s)
  BY <1>1 DEF n, Answered
<1> QED BY <1>4, <1>6, <1>7, <1>8 DEF a

\* In an empty queue a write takes nobody's place.
LEMMA Enqueued ==
  ASSUME NEW m \in Memory, m.write_queue = << >>, NEW i \in 1 .. WritesMax, NEW w \in Writes
  PROVE  LET n == Enqueue(m, i, w) IN
         /\ n \in Memory
         /\ n.writes = [m.writes EXCEPT ![i] = w]
         /\ n.writes_in_flight = Append(m.writes_in_flight, i) /\ n.write_queue = <<i>>
         /\ n.reads = m.reads /\ n.reads_in_flight = m.reads_in_flight
         /\ n.writing = m.writing /\ n.faulty = m.faulty /\ n.panic = m.panic
         /\ n.ready_waiting = m.ready_waiting
         /\ n.checkpoint_waiting = m.checkpoint_waiting
<1> DEFINE k == [m EXCEPT !.writes[i] = w, !.writes_in_flight = Append(@, i)]
           n == [k EXCEPT !.write_queue = Append(@, i)]
<1>1. Enqueue(m, i, w) = n
  <2>1. {j \in Range(m.write_queue) : m.writes[j].slot = w.slot} = {}
    BY DEF Range
  <2> QED BY <2>1 DEF Enqueue
<1>2. /\ [m.writes EXCEPT ![i] = w] \in [1 .. WritesMax -> Writes \cup {None}]
      /\ Append(m.writes_in_flight, i) \in Seq(1 .. WritesMax)
  BY DEF Memory
<1>3. /\ k \in Memory /\ k.writes = [m.writes EXCEPT ![i] = w]
      /\ k.writes_in_flight = Append(m.writes_in_flight, i) /\ k.write_queue = << >>
      /\ k.reads = m.reads /\ k.reads_in_flight = m.reads_in_flight
      /\ k.writing = m.writing /\ k.faulty = m.faulty /\ k.panic = m.panic
      /\ k.ready_waiting = m.ready_waiting
      /\ k.checkpoint_waiting = m.checkpoint_waiting
  BY <1>2 DEF Memory
<1> HIDE DEF k
<1>4. Append(<< >>, i) = <<i>> /\ <<i>> \in Seq(1 .. WritesMax)
  OBVIOUS
<1>5. /\ n \in Memory /\ n.write_queue = <<i>>
      /\ n.writes = k.writes /\ n.writes_in_flight = k.writes_in_flight
      /\ n.reads = k.reads /\ n.reads_in_flight = k.reads_in_flight
      /\ n.writing = k.writing /\ n.faulty = k.faulty /\ n.panic = k.panic
      /\ n.ready_waiting = k.ready_waiting
      /\ n.checkpoint_waiting = k.checkpoint_waiting
  BY <1>3, <1>4 DEF Memory
<1> HIDE DEF n
<1> QED BY <1>1, <1>3, <1>5

\* What a reply is.
LEMMA ReplyIsOnDisk == Replies \subseteq OnDisk
BY DEF OnDisk

\* What the start of a write leaves.
LEMMA BegunFields ==
  ASSUME NEW x \in Components, NEW w \in Writes
  PROVE  LET y == Begun(x, w) IN
         /\ y \in Components
         /\ y.m.write_queue = << >> /\ y.m.writing = x.m.writing \cup {w.slot}
         /\ y.disk = [x.disk EXCEPT ![w.slot] = w.reply]
         /\ y.io = Append(x.io, [type |-> "write"])
         /\ y.m.writes = x.m.writes /\ y.m.writes_in_flight = x.m.writes_in_flight
         /\ y.m.reads = x.m.reads /\ y.m.reads_in_flight = x.m.reads_in_flight
         /\ y.m.faulty = x.m.faulty /\ y.m.panic = x.m.panic
         /\ y.m.ready_waiting = x.m.ready_waiting
         /\ y.m.checkpoint_waiting = x.m.checkpoint_waiting
<1> DEFINE m == x.m
           n == [m EXCEPT !.write_queue = <<>>, !.writing = @ \cup {w.slot}]
           d == [x.disk EXCEPT ![w.slot] = w.reply]
           c == Append(x.io, [type |-> "write"])
<1>1. Begun(x, w) = [m |-> n, disk |-> d, io |-> c]
  BY DEF Begun
<1>2. m \in Memory /\ m.writing \cup {w.slot} \in SUBSET Slots
  BY Fields, WriteFields
<1>3. d \in [Slots -> OnDisk]
  <2>1. w.reply \in OnDisk /\ w.slot \in Slots
    BY WriteFields, ReplyIsOnDisk
  <2> QED BY <2>1, Fields
<1>4. c \in Seq(Completions)
  <2>1. [type |-> "write"] \in Completions
    BY DEF Completions
  <2> QED BY <2>1, Fields, CountAppend
<1> HIDE DEF m, d, c
<1>5. /\ n \in Memory /\ n.write_queue = << >> /\ n.writing = m.writing \cup {w.slot}
      /\ n.writes = m.writes /\ n.writes_in_flight = m.writes_in_flight
      /\ n.reads = m.reads /\ n.reads_in_flight = m.reads_in_flight
      /\ n.faulty = m.faulty /\ n.panic = m.panic
      /\ n.ready_waiting = m.ready_waiting
      /\ n.checkpoint_waiting = m.checkpoint_waiting
  <2>1. << >> \in Seq(1 .. WritesMax)
    OBVIOUS
  <2> QED BY <1>2, <2>1 DEF Memory
<1> HIDE DEF n
<1>6. [m |-> n, disk |-> d, io |-> c] \in Components
  BY <1>3, <1>4, <1>5 DEF Components
<1> QED BY <1>1, <1>5, <1>6 DEF m, d, c

\* A component with another memory.
LEMMA NewMemory ==
  ASSUME NEW x \in Components, NEW n \in Memory
  PROVE  LET z == [x EXCEPT !.m = n] IN
         z \in Components /\ z.m = n /\ z.disk = x.disk /\ z.io = x.io
BY DEF Components

\* What a write leaves that is under way when the call returns, or that waits
\* for the one of its slot.
Written(x, y, s, r, trigger) ==
  LET i == Free(x.m.writes)
  IN /\ y \in Components
     /\ y.m.reads_in_flight = x.m.reads_in_flight
     /\ \A k \in 1 .. ReadsMax : y.m.reads[k] = None <=> x.m.reads[k] = None
     /\ y.m.writes = [x.m.writes EXCEPT ![i] = [slot |-> s, reply |-> r, trigger |-> trigger]]
     /\ y.m.writes_in_flight = Append(x.m.writes_in_flight, i)
     /\ y.m.writing = x.m.writing \cup {s} /\ y.m.faulty = x.m.faulty \ {s}
     /\ y.m.panic = x.m.panic /\ y.m.ready_waiting = x.m.ready_waiting
     /\ y.m.checkpoint_waiting = x.m.checkpoint_waiting
     /\ IF s \in x.m.writing
        THEN y.m.write_queue = <<i>> /\ y.disk = x.disk /\ y.io = x.io
        ELSE /\ y.m.write_queue = << >> /\ y.disk = [x.disk EXCEPT ![s] = r]
             /\ y.io = Append(x.io, [type |-> "write"])

\* write_reply, when an IOP is ready and the trigger is right.
LEMMA WriteReplyWrites ==
  ASSUME WritesMax <= 2, NEW x \in Components, Writing(x), ReadySync(x.m), x.m.panic = None,
         NEW s \in Slots, NEW r \in Replies, NEW trigger \in {"commit", "repair"},
         IF trigger = "commit" THEN ~x.m.checkpoint_waiting ELSE s \in x.m.faulty
  PROVE  Written(x, WriteReply(x, s, r, trigger), s, r, trigger)
<1> DEFINE i == Free(x.m.writes)
           w == [slot |-> s, reply |-> r, trigger |-> trigger]
           n == Answered(x.m, r, s)
           e == Enqueue(n, i, w)
           z == [x EXCEPT !.m = e]
           y == WriteReplyNext(z)
<1>1. i \in 1 .. WritesMax /\ x.m.write_queue = << >>
  BY FreeWrite
<1>2. w \in Writes /\ w.slot = s /\ w.reply = r
  BY DEF Writes
<1>3. WriteReply(x, s, r, trigger) = y
  <2> DEFINE fits == IF trigger = "commit" THEN ~x.m.checkpoint_waiting ELSE s \in x.m.faulty
  <2>1. Check(x, "no write is free", ReadySync(x.m)) = x /\ Check(x, trigger, fits) = x
    BY DEF Check
  <2> HIDE DEF fits
  <2>2. WriteReply(x, s, r, trigger) =
          LET f == Check(Check(x, "no write is free", ReadySync(x.m)), trigger, fits)
              m == Answered(f.m, r, s)
          IN IF f.m.panic # None THEN f
             ELSE WriteReplyNext([f EXCEPT !.m = Enqueue(m, Free(m.writes), w)])
    BY DEF WriteReply, fits, Answered
  <2>3. Free(n.writes) = i
    <3>1. n.writes = x.m.writes
      BY Fields, Resolved
    <3> QED BY <3>1
  <2> QED BY <2>1, <2>2, <2>3
<1> HIDE DEF w
<1>4. /\ n \in Memory
      /\ n.reads_in_flight = x.m.reads_in_flight
      /\ \A k \in 1 .. ReadsMax : n.reads[k] = None <=> x.m.reads[k] = None
      /\ n.writes = x.m.writes /\ n.writes_in_flight = x.m.writes_in_flight
      /\ n.write_queue = << >> /\ n.writing = x.m.writing
      /\ n.faulty = x.m.faulty \ {s} /\ n.panic = x.m.panic
      /\ n.ready_waiting = x.m.ready_waiting
      /\ n.checkpoint_waiting = x.m.checkpoint_waiting
  BY <1>1, Fields, Resolved
<1> HIDE DEF n, i
<1>5. /\ e \in Memory
      /\ e.writes = [n.writes EXCEPT ![i] = w]
      /\ e.writes_in_flight = Append(n.writes_in_flight, i) /\ e.write_queue = <<i>>
      /\ e.reads = n.reads /\ e.reads_in_flight = n.reads_in_flight
      /\ e.writing = n.writing /\ e.faulty = n.faulty /\ e.panic = n.panic
      /\ e.ready_waiting = n.ready_waiting
      /\ e.checkpoint_waiting = n.checkpoint_waiting
  BY <1>1, <1>2, <1>4, Enqueued
<1> HIDE DEF e
<1>6. z \in Components /\ z.m = e /\ z.disk = x.disk /\ z.io = x.io
  BY <1>5, NewMemory
<1> HIDE DEF z
<1>7. z.m.writes[i] = w
  BY <1>1, <1>4, <1>5, <1>6, Fields
<1>8. CASE s \in x.m.writing
  <2>1. Startable(z.m) = 0
    BY <1>2, <1>4, <1>5, <1>6, <1>7, <1>8, StartableOne
  <2>2. y = z
    BY <1>6, <2>1, NothingStarts
  <2>3. x.m.writing \cup {s} = x.m.writing
    BY <1>8
  <2> HIDE DEF y
  <2> QED BY <1>3, <1>4, <1>5, <1>6, <1>8, <2>2, <2>3 DEF Written, i, w
<1>9. CASE s \notin x.m.writing
  <2>1. y = Begun(z, w)
    BY <1>2, <1>4, <1>5, <1>6, <1>7, <1>9, OneStarts
  <2> HIDE DEF y
  <2>2. /\ y \in Components
        /\ y.m.write_queue = << >> /\ y.m.writing = z.m.writing \cup {w.slot}
        /\ y.disk = [z.disk EXCEPT ![w.slot] = w.reply]
        /\ y.io = Append(z.io, [type |-> "write"])
        /\ y.m.writes = z.m.writes /\ y.m.writes_in_flight = z.m.writes_in_flight
        /\ y.m.reads = z.m.reads /\ y.m.reads_in_flight = z.m.reads_in_flight
        /\ y.m.faulty = z.m.faulty /\ y.m.panic = z.m.panic
        /\ y.m.ready_waiting = z.m.ready_waiting
        /\ y.m.checkpoint_waiting = z.m.checkpoint_waiting
    BY <1>2, <1>6, <2>1, BegunFields
  <2> QED BY <1>2, <1>3, <1>4, <1>5, <1>6, <1>9, <2>2 DEF Written, i, w
<1> QED BY <1>8, <1>9

\* The new write comes last, and the one before it stays.
Placed(x, y, w) ==
  LET n == Len(x.m.writes_in_flight)
  IN /\ n \in 0 .. 1 /\ n + 1 <= WritesMax
     /\ w \in Writes /\ Len(y.m.writes_in_flight) = n + 1
     /\ Live(x.m) = 1 .. n /\ Live(y.m) = Live(x.m) \cup {n + 1}
     /\ n + 1 \notin Live(x.m)
     /\ Write(y.m, n + 1) = w
     /\ y.m.writes_in_flight[n + 1] = Free(x.m.writes)
     /\ \A k \in Live(x.m) : /\ Write(y.m, k) = Write(x.m, k)
                             /\ y.m.writes_in_flight[k] = x.m.writes_in_flight[k]
                             /\ x.m.writes_in_flight[k] # Free(x.m.writes)

\* The operation that is free takes the new write.
LEMMA Places ==
  ASSUME WritesMax <= 2, NEW x \in Components, Writing(x), ReadySync(x.m),
         NEW s \in Slots, NEW r \in Replies, NEW trigger \in {"commit", "repair"},
         NEW y, Written(x, y, s, r, trigger)
  PROVE  Placed(x, y, [slot |-> s, reply |-> r, trigger |-> trigger])
<1> DEFINE q == x.m.writes_in_flight
           n == Len(q)
           i == Free(x.m.writes)
           w == [slot |-> s, reply |-> r, trigger |-> trigger]
           p == Append(q, i)
<1>1. /\ i \in 1 .. WritesMax /\ x.m.writes[i] = None /\ n \in 0 .. 1
      /\ q \in Seq(1 .. WritesMax)
      /\ n < WritesMax /\ WritesMax \in Nat
  BY FreeWrite, Fields, RepliesAssumption DEF ReadySync
<1>2. w \in Writes
  BY DEF Writes
<1>3. /\ Len(p) = n + 1 /\ p[n + 1] = i /\ \A k \in 1 .. n : p[k] = q[k]
      /\ 1 .. n + 1 = (1 .. n) \cup {n + 1} /\ n + 1 \notin 1 .. n /\ n + 1 <= WritesMax
  <2> HIDE DEF q, i
  <2> QED BY <1>1
<1>4. y.m.writes = [x.m.writes EXCEPT ![i] = w] /\ y.m.writes_in_flight = p
  BY DEF Written
<1>5. \A j \in 1 .. WritesMax : y.m.writes[j] = IF j = i THEN w ELSE x.m.writes[j]
  <2>1. x.m.writes \in [1 .. WritesMax -> Writes \cup {None}]
    BY Fields
  <2> HIDE DEF i, w
  <2> QED BY <1>4, <2>1
<1>6. ASSUME NEW k \in Live(x.m)
      PROVE  q[k] # i /\ q[k] \in 1 .. WritesMax
  <2>1. Write(x.m, k) # None /\ q[k] \in 1 .. WritesMax
    BY LiveWrite, NotNone
  <2>2. x.m.writes[q[k]] # None
    BY <2>1 DEF Write
  <2> QED BY <1>1, <2>1, <2>2
<1>7. Live(x.m) = 1 .. n /\ Live(y.m) = 1 .. n + 1
  BY <1>3, <1>4 DEF Live
<1> HIDE DEF q, n, i, w, p
<1>8. Write(y.m, n + 1) = w
  BY <1>1, <1>3, <1>4, <1>5 DEF Write
<1>9. \A k \in Live(x.m) : Write(y.m, k) = Write(x.m, k) /\ y.m.writes_in_flight[k] = q[k]
  BY <1>3, <1>4, <1>5, <1>6, <1>7 DEF Write, q
<1> QED BY <1>1, <1>2, <1>3, <1>4, <1>6, <1>7, <1>8, <1>9 DEF q, n, i, w, Placed

\* The reads do not notice.
LEMMA ReadingStays ==
  ASSUME NEW x \in Components, Reading(x), NEW y \in Components,
         y.m.reads_in_flight = x.m.reads_in_flight,
         \A k \in 1 .. ReadsMax : y.m.reads[k] = None <=> x.m.reads[k] = None,
         Count(y.io, "read") = Count(x.io, "read")
  PROVE  Reading(y)
<1>1. \A k \in 1 .. Len(x.m.reads_in_flight) : x.m.reads_in_flight[k] \in 1 .. ReadsMax
  BY Fields, ElementOfSeq
<1> QED BY <1>1 DEF Reading, Read

\* The pool after a write was added.
LEMMA WritingAdds ==
  ASSUME WritesMax <= 2, NEW x \in Components, Writing(x), ReadySync(x.m),
         NEW s \in Slots, NEW r \in Replies, NEW trigger \in {"commit", "repair"},
         NEW y, Written(x, y, s, r, trigger)
  PROVE  Writing(y)
<1> DEFINE n == Len(x.m.writes_in_flight)
           i == Free(x.m.writes)
           w == [slot |-> s, reply |-> r, trigger |-> trigger]
<1>1. /\ n \in 0 .. 1 /\ n + 1 <= WritesMax
      /\ w \in Writes /\ Len(y.m.writes_in_flight) = n + 1
      /\ Live(x.m) = 1 .. n /\ Live(y.m) = Live(x.m) \cup {n + 1}
      /\ n + 1 \notin Live(x.m)
      /\ Write(y.m, n + 1) = w
      /\ y.m.writes_in_flight[n + 1] = i
      /\ \A k \in Live(x.m) : /\ Write(y.m, k) = Write(x.m, k)
                              /\ y.m.writes_in_flight[k] = x.m.writes_in_flight[k]
                              /\ x.m.writes_in_flight[k] # i
  <2>1. Placed(x, y, w)
    BY Places
  <2> HIDE DEF w
  <2> QED BY <2>1 DEF Placed
<1>2. w # None /\ w.slot = s
  BY <1>1, NotNone
<1> HIDE DEF w
<1>3. \A k \in Live(y.m) : Write(y.m, k) # None
  <2>1. \A k \in Live(x.m) : Write(x.m, k) # None
    BY DEF Writing
  <2> HIDE DEF n
  <2> QED BY <1>1, <1>2, <2>1
<1>4. \A k, l \in Live(y.m) : y.m.writes_in_flight[k] = y.m.writes_in_flight[l] => k = l
  BY <1>1 DEF Writing
<1>5. i \in 1 .. WritesMax /\ x.m.write_queue = << >>
  BY FreeWrite
<1>6. \A j \in 1 .. WritesMax : y.m.writes[j] # None =>
        \E k \in Live(y.m) : y.m.writes_in_flight[k] = j
  <2>1. ASSUME NEW j \in 1 .. WritesMax, j # i, y.m.writes[j] # None
        PROVE  \E k \in Live(x.m) : x.m.writes_in_flight[k] = j
    <3>1. y.m.writes[j] = x.m.writes[j]
      BY <2>1, Fields DEF Written
    <3> QED BY <2>1, <3>1 DEF Writing
  <2> QED BY <1>1, <2>1
<1>7. x.m.writing = {Write(x.m, k).slot : k \in Live(x.m)} /\ y.m.writing = x.m.writing \cup {s}
  BY DEF Writing, Written
<1>8. y.m.writing = {Write(y.m, k).slot : k \in Live(y.m)}
  BY <1>1, <1>2, <1>7
<1>9. Waits(y.m) <=> s \in x.m.writing
  <2>1. CASE n = 0
    <3>1. Live(x.m) = {} /\ Len(y.m.writes_in_flight) = 1
      <4> HIDE DEF n
      <4> QED BY <1>1, <2>1
    <3> QED BY <1>1, <1>7, <2>1, <3>1 DEF Waits
  <2>2. CASE n = 1
    <3>1. Live(x.m) = {1} /\ 1 \in Live(x.m) /\ Len(y.m.writes_in_flight) = 2
      <4> HIDE DEF n
      <4> QED BY <1>1, <2>2
    <3>2. Write(y.m, 1) = Write(x.m, 1) /\ Write(y.m, 2) = w
      BY <1>1, <2>2, <3>1
    <3>3. x.m.writing = {Write(x.m, 1).slot}
      BY <1>7, <3>1
    <3> QED BY <1>2, <3>1, <3>2, <3>3 DEF Waits
  <2> QED BY <1>1, <2>1, <2>2
<1>10. ~Waits(x.m) /\ Count(x.io, "write") = n
  <2>1. n # 2
    <3> HIDE DEF n
    <3> QED BY <1>1
  <2>2. ~Waits(x.m)
    BY <2>1 DEF Waits
  <2> QED BY <2>2 DEF Writing
<1>11. CASE s \in x.m.writing
  <2>1. n = 1
    <3>1. n # 0
      <4> SUFFICES ASSUME n = 0 PROVE FALSE
        OBVIOUS
      <4>1. Live(x.m) = {}
        BY <1>1
      <4> QED BY <1>7, <1>11, <4>1
    <3> QED BY <1>1, <3>1
  <2>2. y.m.write_queue = <<i>> /\ Count(y.io, "write") = 1 /\ y.m.writes_in_flight[2] = i
    BY <1>1, <1>10, <1>11, <2>1 DEF Written
  <2> HIDE DEF n, i
  <2> QED BY <1>1, <1>3, <1>4, <1>6, <1>8, <1>9, <1>11, <2>2 DEF Writing
<1>12. CASE s \notin x.m.writing
  <2>1. y.m.write_queue = << >> /\ Count(y.io, "write") = n + 1
    <3>1. [type |-> "write"] \in Completions
      BY DEF Completions
    <3>2. y.io = Append(x.io, [type |-> "write"]) /\ x.io \in Seq(Completions)
      BY <1>12, Fields DEF Written
    <3>3. Count(y.io, "write") = Count(x.io, "write") + 1
      BY <3>1, <3>2, CountAppend
    <3> QED BY <1>10, <1>12, <3>3 DEF Written
  <2> HIDE DEF n, i
  <2> QED BY <1>1, <1>3, <1>4, <1>6, <1>8, <1>9, <1>12, <2>1 DEF Writing
<1> QED BY <1>11, <1>12

-----------------------------------------------------------------------------
(* What the slots hold                                                      *)

\* A write whose reply the table has in its slot is recent.
LEMMA NewIsRecent ==
  ASSUME NEW t, NEW n, NEW R, Table(t, n, R), NEW w \in Writes, t[w.slot] = w.reply
  PROVE  Recent(w, t, n, R)
<1>1. w.slot \in Slots /\ w.reply \in Replies /\ t[w.slot] # None
  BY WriteFields, NotNone
<1>2. w.reply.client \in R /\ w.reply.op <= n /\ w.reply.op \in Nat
  BY <1>1, WriteFields DEF Table
<1>3. ASSUME NEW s \in Slots, t[s] # None, t[s].client = w.reply.client
      PROVE  s = w.slot
  BY <1>1, <1>3 DEF Table
<1> QED BY <1>2, <1>3 DEF Recent

\* The slots after a write was added: those of other replies are as they were,
\* and the last write of its own slot is the new one.
LEMMA ContentsAdd ==
  ASSUME WritesMax <= 2, NEW x \in Components, Writing(x), ReadySync(x.m),
         NEW s \in Slots, NEW r \in Replies, NEW trigger \in {"commit", "repair"},
         NEW y, Written(x, y, s, r, trigger),
         NEW t, NEW n, NEW R, Contents(x, t, n, R),
         NEW u, NEW p, NEW Q, Table(u, p, Q), u[s] = r,
         \A e \in Slots : e # s => u[e] = t[e],
         \A k \in Live(x.m) : Recent(Write(x.m, k), u, p, Q)
  PROVE  Contents(y, u, p, Q)
<1> DEFINE l == Len(x.m.writes_in_flight)
           w == [slot |-> s, reply |-> r, trigger |-> trigger]
<1>1. Placed(x, y, w) /\ Writing(y)
  BY Places, WritingAdds
<1>2. w.slot = s /\ w.reply = r
  OBVIOUS
<1> HIDE DEF w
<1>3. /\ l \in 0 .. 1 /\ w \in Writes /\ Live(y.m) = Live(x.m) \cup {l + 1}
      /\ Live(x.m) = 1 .. l /\ l + 1 \notin Live(x.m)
      /\ Write(y.m, l + 1) = w
      /\ \A k \in Live(x.m) : Write(y.m, k) = Write(x.m, k)
  BY <1>1 DEF Placed
<1>4. \A k \in Live(y.m) : Recent(Write(y.m, k), u, p, Q)
  <2>1. Recent(w, u, p, Q)
    BY <1>2, <1>3, NewIsRecent
  <2> HIDE DEF l
  <2> QED BY <1>3, <2>1
<1>5. /\ x.m.writing = {Write(x.m, k).slot : k \in Live(x.m)} /\ y.m.writing = x.m.writing \cup {s}
      /\ IF s \in x.m.writing THEN y.disk = x.disk ELSE y.disk = [x.disk EXCEPT ![s] = r]
      /\ y.m.faulty = x.m.faulty \ {s} /\ x.disk \in [Slots -> OnDisk]
  BY Fields DEF Writing, Written
<1>6. ASSUME NEW k \in Live(y.m), k = 1 \/ ~Waits(y.m)
      PROVE  y.disk[Write(y.m, k).slot] \in {Write(y.m, k).reply, Corrupt}
  <2>1. CASE k \in Live(x.m)
    <3>1. k = 1
      <4> HIDE DEF l
      <4> QED BY <1>3, <2>1
    <3>2. /\ x.disk[Write(x.m, k).slot] \in {Write(x.m, k).reply, Corrupt}
          /\ Write(x.m, k).slot \in Slots
      BY <2>1, <3>1, LiveWrite, WriteFields DEF Contents
    <3>3. Write(x.m, k).slot \in x.m.writing
      BY <1>5, <2>1
    <3>4. y.disk[Write(x.m, k).slot] = x.disk[Write(x.m, k).slot]
      BY <1>5, <3>2, <3>3
    <3> QED BY <1>3, <2>1, <3>2, <3>4
  <2>2. CASE k = l + 1
    <3>1. s \notin x.m.writing
      <4> SUFFICES ASSUME s \in x.m.writing PROVE FALSE
        OBVIOUS
      <4>1. PICK j \in Live(x.m) : Write(x.m, j).slot = s
        BY <1>5
      <4>2. j = 1 /\ l = 1
        <5> HIDE DEF l
        <5> QED BY <1>3
      <4>3. Write(y.m, 1) = Write(x.m, 1) /\ Write(y.m, 2) = w /\ Len(y.m.writes_in_flight) = 2
        <5>1. Len(y.m.writes_in_flight) = l + 1
          BY <1>1 DEF Placed
        <5> HIDE DEF l
        <5> QED BY <1>3, <4>1, <4>2, <5>1
      <4>4. Waits(y.m)
        BY <1>2, <4>1, <4>2, <4>3 DEF Waits
      <4>5. k = 2
        BY <2>2, <4>2
      <4> QED BY <1>6, <4>4, <4>5
    <3>2. y.disk[s] = r
      BY <1>5, <3>1
    <3> HIDE DEF l
    <3> QED BY <1>2, <1>3, <2>2, <3>2
  <2> QED BY <1>3, <1>6, <2>1, <2>2
<1>7. ASSUME NEW e \in Slots, u[e] # None, u[e].body, e \notin y.m.faulty
      PROVE  Holds(y, e, u[e])
  <2>1. CASE e = s
    <3>1. s \in y.m.writing
      BY <1>5
    <3>2. ASSUME NEW k \in Live(y.m), Write(y.m, k).slot = s,
                 \A j \in Live(y.m) : k < j => Write(y.m, j).slot # s
          PROVE  Write(y.m, k).reply = r
      <4>1. k = l + 1
        <5> SUFFICES ASSUME k # l + 1 PROVE FALSE
          OBVIOUS
        <5>1. k < l + 1 /\ l + 1 \in Live(y.m)
          <6> HIDE DEF l
          <6> QED BY <1>3
        <5> QED BY <1>2, <1>3, <3>2, <5>1
      <4> QED BY <1>2, <1>3, <4>1
    <3> QED BY <2>1, <3>1, <3>2 DEF Holds
  <2>2. CASE e # s
    <3>1. u[e] = t[e] /\ e \notin x.m.faulty
      BY <1>5, <1>7, <2>2
    <3>2. Holds(x, e, t[e])
      BY <1>7, <3>1 DEF Contents
    <3>3. CASE e \in x.m.writing
      <4>1. ASSUME NEW k \in Live(y.m), Write(y.m, k).slot = e,
                   \A j \in Live(y.m) : k < j => Write(y.m, j).slot # e
            PROVE  Write(y.m, k).reply = t[e]
        <5>1. k \in Live(x.m) /\ Write(x.m, k) = Write(y.m, k)
          BY <1>2, <1>3, <2>2, <4>1
        <5>2. \A j \in Live(x.m) : k < j => Write(x.m, j).slot # e
          BY <1>3, <4>1
        <5> QED BY <3>2, <3>3, <4>1, <5>1, <5>2 DEF Holds
      <4> QED BY <1>5, <3>1, <3>3, <4>1 DEF Holds
    <3>4. CASE e \notin x.m.writing
      <4>1. e \notin y.m.writing /\ y.disk[e] = x.disk[e]
        BY <1>5, <2>2, <3>4
      <4> QED BY <3>1, <3>2, <3>4, <4>1 DEF Holds
    <3> QED BY <3>3, <3>4
  <2> QED BY <2>1, <2>2
<1> QED BY <1>4, <1>6, <1>7 DEF Contents

\* write_reply keeps the component, when the table has the reply.
LEMMA WriteReplyKeeps ==
  ASSUME WritesMax <= 2, NEW x, NEW t, NEW n, NEW R, Keeps(x, t, n, R),
         ReadySync(x.m), x.m.panic = None,
         NEW s \in Slots, NEW r \in Replies, NEW trigger \in {"commit", "repair"},
         IF trigger = "commit" THEN ~x.m.checkpoint_waiting ELSE s \in x.m.faulty,
         NEW u, NEW p, NEW Q, Table(u, p, Q), u[s] = r,
         \A e \in Slots : e # s => u[e] = t[e],
         \A k \in Live(x.m) : Recent(Write(x.m, k), u, p, Q)
  PROVE  LET y == WriteReply(x, s, r, trigger) IN
         /\ Keeps(y, u, p, Q) /\ y.m.panic = None
         /\ y.m.ready_waiting = x.m.ready_waiting
<1> DEFINE y == WriteReply(x, s, r, trigger)
<1>1. x \in Components /\ Reading(x) /\ Writing(x) /\ Contents(x, t, n, R)
  BY DEF Keeps
<1>2. Written(x, y, s, r, trigger)
  BY <1>1, WriteReplyWrites
<1> HIDE DEF y
<1>3. Writing(y) /\ Contents(y, u, p, Q)
  BY <1>1, <1>2, WritingAdds, ContentsAdd
<1>4. Count(y.io, "read") = Count(x.io, "read")
  <2>1. CASE s \in x.m.writing
    BY <1>2, <2>1 DEF Written
  <2>2. CASE s \notin x.m.writing
    <3>1. [type |-> "write"] \in Completions
      BY DEF Completions
    <3>2. y.io = Append(x.io, [type |-> "write"]) /\ x.io \in Seq(Completions)
      BY <1>1, <1>2, <2>2, Fields DEF Written
    <3> QED BY <3>1, <3>2, CountAppend
  <2> QED BY <2>1, <2>2
<1>5. y \in Components /\ Reading(y)
  BY <1>1, <1>2, <1>4, ReadingStays DEF Written
<1>6. Keeps(y, u, p, Q) /\ y.m.panic = None /\ y.m.ready_waiting = x.m.ready_waiting
  BY <1>2, <1>3, <1>5 DEF Keeps, Written
<1> QED BY <1>6 DEF y

-----------------------------------------------------------------------------
(* Completions that are polled                                              *)

\* The first element of a sequence, and the others.
LEMMA Rest ==
  ASSUME NEW S, NEW q \in Seq(S), q # << >>
  PROVE  /\ Tail(q) \in Seq(S) /\ q[1] \in S /\ Head(q) = q[1]
         /\ Len(q) >= 1 /\ Len(Tail(q)) = Len(q) - 1
         /\ \A k \in 1 .. Len(q) - 1 : Tail(q)[k] = q[k + 1]
OBVIOUS

\* What is left when the first write is over and the queue was not looked at.
WithoutFirst(x) ==
  LET i == x.m.writes_in_flight[1]
  IN [m    |-> [x.m EXCEPT !.writes[i] = None, !.writes_in_flight = Tail(@),
                           !.writing = @ \ {x.m.writes[i].slot}],
      disk |-> x.disk, io |-> Tail(x.io)]

\* A component with another memory and other completions.
LEMMA NewState ==
  ASSUME NEW x \in Components, NEW n, NEW c
  PROVE  [x EXCEPT !.m = n, !.io = c] = [m |-> n, disk |-> x.disk, io |-> c]
<1>1. [x EXCEPT !.m = n] = [m |-> n, disk |-> x.disk, io |-> x.io]
  BY DEF Components
<1>2. [[m |-> n, disk |-> x.disk, io |-> x.io] EXCEPT !.io = c]
        = [m |-> n, disk |-> x.disk, io |-> c]
  OBVIOUS
<1>3. [[x EXCEPT !.m = n] EXCEPT !.io = c] = [m |-> n, disk |-> x.disk, io |-> c]
  BY <1>1, <1>2
<1> QED BY <1>3

\* The fields of it.
LEMMA WithoutFirstFields ==
  ASSUME NEW x \in Components, x.io # << >>, x.m.writes_in_flight # << >>
  PROVE  LET z == WithoutFirst(x)
             i == x.m.writes_in_flight[1]
         IN /\ z \in Components
            /\ z.m.writes = [x.m.writes EXCEPT ![i] = None]
            /\ z.m.writes_in_flight = Tail(x.m.writes_in_flight)
            /\ z.m.writing = x.m.writing \ {x.m.writes[i].slot}
            /\ z.disk = x.disk /\ z.io = Tail(x.io)
            /\ z.m.write_queue = x.m.write_queue
            /\ z.m.reads = x.m.reads /\ z.m.reads_in_flight = x.m.reads_in_flight
            /\ z.m.faulty = x.m.faulty /\ z.m.panic = x.m.panic
            /\ z.m.ready_waiting = x.m.ready_waiting
<1> DEFINE m == x.m
           i == m.writes_in_flight[1]
           s == m.writes[i].slot
           a == [m EXCEPT !.writes[i] = None]
           b == [a EXCEPT !.writes_in_flight = Tail(@)]
           n == [b EXCEPT !.writing = @ \ {s}]
<1>1. WithoutFirst(x) = [m |-> n, disk |-> x.disk, io |-> Tail(x.io)]
  BY DEF WithoutFirst
<1>2. m \in Memory
  BY Fields
<1>3. Tail(m.writes_in_flight) \in Seq(1 .. WritesMax) /\ i \in 1 .. WritesMax
  <2> DEFINE q == m.writes_in_flight
  <2>1. q \in Seq(1 .. WritesMax) /\ q # << >>
    BY Fields DEF m
  <2> HIDE DEF q
  <2>2. Tail(q) \in Seq(1 .. WritesMax) /\ q[1] \in 1 .. WritesMax
    BY <2>1, Rest
  <2> QED BY <2>2 DEF q
<1> HIDE DEF s, i, m
<1>4. /\ a \in Memory /\ a.writes = [m.writes EXCEPT ![i] = None]
      /\ a.writes_in_flight = m.writes_in_flight /\ a.writing = m.writing
      /\ a.write_queue = m.write_queue /\ a.reads = m.reads
      /\ a.reads_in_flight = m.reads_in_flight /\ a.faulty = m.faulty /\ a.panic = m.panic
      /\ a.ready_waiting = m.ready_waiting
  <2>1. [m.writes EXCEPT ![i] = None] \in [1 .. WritesMax -> Writes \cup {None}]
    BY <1>2 DEF Memory
  <2> QED BY <1>2, <2>1 DEF Memory
<1> HIDE DEF a
<1>5. /\ b \in Memory /\ b.writes = a.writes
      /\ b.writes_in_flight = Tail(a.writes_in_flight) /\ b.writing = a.writing
      /\ b.write_queue = a.write_queue /\ b.reads = a.reads
      /\ b.reads_in_flight = a.reads_in_flight /\ b.faulty = a.faulty /\ b.panic = a.panic
      /\ b.ready_waiting = a.ready_waiting
  BY <1>3, <1>4 DEF Memory
<1> HIDE DEF b
<1>6. /\ n \in Memory /\ n.writes = b.writes
      /\ n.writes_in_flight = b.writes_in_flight /\ n.writing = b.writing \ {s}
      /\ n.write_queue = b.write_queue /\ n.reads = b.reads
      /\ n.reads_in_flight = b.reads_in_flight /\ n.faulty = b.faulty /\ n.panic = b.panic
      /\ n.ready_waiting = b.ready_waiting
  BY <1>5 DEF Memory
<1> HIDE DEF n
<1>7. x.disk \in [Slots -> OnDisk] /\ Tail(x.io) \in Seq(Completions)
  BY Fields, CountTail
<1>8. [m |-> n, disk |-> x.disk, io |-> Tail(x.io)] \in Components
  BY <1>6, <1>7 DEF Components
<1> QED BY <1>1, <1>4, <1>5, <1>6, <1>8 DEF m, i, s

\* A completed write is the first in flight, and its slot is being written.
LEMMA FirstIsLive ==
  ASSUME NEW x \in Components, Writing(x), x.io # << >>, Head(x.io).type = "write"
  PROVE  /\ Len(x.m.writes_in_flight) >= 1 /\ 1 \in Live(x.m)
         /\ x.m.writes_in_flight # << >>
         /\ Head(x.m.writes_in_flight) = x.m.writes_in_flight[1]
<1> DEFINE q == x.m.writes_in_flight
<1>1. q \in Seq(1 .. WritesMax)
  BY Fields
<1>2. Count(x.io, "write") >= 1
  <2>1. Count(x.io, "write") = Count(Tail(x.io), "write") + 1 /\ Tail(x.io) \in Seq(Completions)
    BY Fields, CountTail
  <2>2. Count(Tail(x.io), "write") \in Nat
    BY <2>1, Counts
  <2> QED BY <2>1, <2>2
<1>3. Len(q) # 0
  <2>1. CASE Waits(x.m)
    <3>1. Len(q) = 2
      BY <2>1 DEF Waits
    <3> HIDE DEF q
    <3> QED BY <3>1
  <2>2. CASE ~Waits(x.m)
    <3>1. Count(x.io, "write") = Len(q)
      BY <2>2 DEF Writing
    <3> HIDE DEF q
    <3> QED BY <1>2, <3>1
  <2> QED BY <2>1, <2>2
<1> HIDE DEF q
<1>4. Len(q) >= 1 /\ 1 \in 1 .. Len(q) /\ q # << >> /\ Head(q) = q[1]
  BY <1>1, <1>3
<1> QED BY <1>4 DEF q, Live

\* write_reply_next after a completed write starts the one that waited for it.
LEMMA WriteDoneIs ==
  ASSUME WritesMax <= 2, NEW x \in Components, Writing(x),
         x.io # << >>, Head(x.io).type = "write", x.m.panic = None
  PROVE  /\ WithoutFirst(x) \in Components
         /\ WriteDone(x) = IF Waits(x.m) THEN Begun(WithoutFirst(x), Write(x.m, 2))
                           ELSE WithoutFirst(x)
<1> DEFINE z == WithoutFirst(x)
           q == x.m.writes_in_flight
           v == Write(x.m, 1)
           w == Write(x.m, 2)
<1>1. /\ Len(q) >= 1 /\ 1 \in Live(x.m) /\ q # << >> /\ Head(q) = q[1]
      /\ v \in Writes /\ v # None /\ v = x.m.writes[q[1]]
  BY FirstIsLive, LiveWrite, NotNone DEF Write
<1>2. v.slot \in x.m.writing
  BY <1>1 DEF Writing
<1>3. WriteDone(x) = WriteReplyNext(z)
  <2> DEFINE i == Head(q)
             f == x.m.writes[i]
             y == Check(Check(x, "in-flight write is not live", f # None),
                        "slot is not being written", f # None => f.slot \in x.m.writing)
             m == [y.m EXCEPT !.writes[i] = None, !.writes_in_flight = Tail(@),
                              !.writing = @ \ {f.slot}]
  <2>1. y = x
    <3>1. f # None /\ f.slot \in x.m.writing
      BY <1>1, <1>2
    <3> HIDE DEF f
    <3> QED BY <3>1 DEF Check
  <2>2. WriteDone(x) = WriteReplyNext([x EXCEPT !.m = z.m, !.io = Tail(@)])
    <3>1. WriteDone(x) = IF y.m.panic # None THEN y
                         ELSE WriteReplyNext([y EXCEPT !.m = m, !.io = Tail(@)])
      BY Zenon DEF WriteDone
    <3> HIDE DEF y
    <3>2. m = z.m
      <4> DEFINE g(c) == [c EXCEPT !.writes[q[1]] = None, !.writes_in_flight = Tail(@),
                                   !.writing = @ \ {x.m.writes[q[1]].slot}]
      <4>1. z.m = g(x.m)
        BY DEF WithoutFirst
      <4>2. m = g(y.m)
        BY <1>1
      <4> HIDE DEF g
      <4> QED BY <2>1, <4>1, <4>2
    <3> HIDE DEF m, z
    <3> QED BY <2>1, <3>1, <3>2
  <2>3. [x EXCEPT !.m = z.m, !.io = Tail(@)] = z
    <3>1. z = [m |-> z.m, disk |-> x.disk, io |-> Tail(x.io)]
      BY DEF WithoutFirst
    <3>2. [x EXCEPT !.m = z.m, !.io = Tail(x.io)] = [m |-> z.m, disk |-> x.disk, io |-> Tail(x.io)]
      <4> DEFINE a == z.m
                 c == Tail(x.io)
      <4> HIDE DEF a, c
      <4>1. [x EXCEPT !.m = a, !.io = c] = [m |-> a, disk |-> x.disk, io |-> c]
        BY NewState, Zenon
      <4> QED BY <4>1, Zenon DEF a, c
    <3> QED BY <3>1, <3>2
  <2> QED BY <2>2, <2>3
<1>4. /\ z \in Components /\ z.m.writes = [x.m.writes EXCEPT ![q[1]] = None]
      /\ z.m.writing = x.m.writing \ {v.slot} /\ z.m.write_queue = x.m.write_queue
  BY <1>1, WithoutFirstFields DEF Write
<1>5. CASE Waits(x.m)
  <2>1. x.m.write_queue = <<q[2]>> /\ v.slot = w.slot /\ Len(q) = 2
    <3>1. v.slot = w.slot /\ Len(q) = 2
      BY <1>5, Zenon DEF Waits
    <3>2. x.m.write_queue = IF Waits(x.m) THEN <<q[2]>> ELSE << >>
      BY Zenon DEF Writing
    <3> QED BY <1>5, <3>1, <3>2
  <2>2. 2 \in Live(x.m) /\ q[2] # q[1] /\ q[2] \in 1 .. WritesMax /\ w \in Writes
    <3>1. 2 \in Live(x.m)
      BY <2>1 DEF Live
    <3> QED BY <1>1, <3>1, LiveWrite DEF Writing
  <2>3. z.m.writes[q[2]] = w
    BY <1>4, <2>2, Fields DEF Write
  <2> HIDE DEF z, q, v, w
  <2>4. WriteReplyNext(z) = Begun(z, w)
    <3>1. z.m.write_queue = <<q[2]>> /\ w.slot \notin z.m.writing
      BY <1>4, <2>1
    <3>2. z.m.writes[q[2]] \in Writes /\ z.m.writes[q[2]].slot \notin z.m.writing
      BY <2>2, <2>3, <3>1
    <3>3. WriteReplyNext(z) = Begun(z, z.m.writes[q[2]])
      BY <1>4, <3>1, <3>2, OneStarts
    <3> QED BY <2>3, <3>3
  <2> QED BY <1>3, <1>4, <1>5, <2>4 DEF z, w
<1>6. CASE ~Waits(x.m)
  <2>1. z.m.write_queue = << >>
    BY <1>4, <1>6 DEF Writing
  <2>2. Startable(z.m) = 0
    BY <2>1, StartableNone
  <2> HIDE DEF z
  <2>3. WriteReplyNext(z) = z
    BY <1>4, <2>2, NothingStarts
  <2> QED BY <1>3, <1>4, <1>6, <2>3 DEF z
<1> QED BY <1>5, <1>6

\* The component after a completed write: the second write, if there is one, is
\* the first, and under way.
Finished(x, y) ==
  LET n == Len(x.m.writes_in_flight)
      v == Write(x.m, 1)
      w == Write(x.m, 2)
  IN /\ y \in Components /\ n \in 1 .. 2 /\ v \in Writes
     /\ y.m.writes = [x.m.writes EXCEPT ![x.m.writes_in_flight[1]] = None]
     /\ Len(y.m.writes_in_flight) = n - 1 /\ y.m.write_queue = << >>
     /\ y.m.faulty = x.m.faulty /\ y.m.panic = x.m.panic
     /\ y.m.ready_waiting = x.m.ready_waiting
     /\ y.m.reads = x.m.reads /\ y.m.reads_in_flight = x.m.reads_in_flight
     /\ x.m.writing = IF n = 1 THEN {v.slot} ELSE {v.slot, w.slot}
     /\ y.m.writing = IF n = 1 THEN {} ELSE {w.slot}
     /\ n = 2 => /\ w \in Writes /\ y.m.writes_in_flight[1] = x.m.writes_in_flight[2]
                 /\ Write(y.m, 1) = w
     /\ y.disk = IF Waits(x.m) THEN [x.disk EXCEPT ![w.slot] = w.reply] ELSE x.disk
     /\ Count(y.io, "write") = n - 1 /\ Count(y.io, "read") = Count(x.io, "read")

\* A completed write leaves such a component.
LEMMA WriteFinishes ==
  ASSUME WritesMax <= 2, NEW x \in Components, Writing(x),
         x.io # << >>, Head(x.io).type = "write", x.m.panic = None
  PROVE  Finished(x, WriteDone(x))
<1> DEFINE z == WithoutFirst(x)
           y == WriteDone(x)
           q == x.m.writes_in_flight
           n == Len(q)
           v == Write(x.m, 1)
           w == Write(x.m, 2)
<1>1. /\ 1 \in Live(x.m) /\ q # << >> /\ v \in Writes
      /\ v = x.m.writes[q[1]]
  BY FirstIsLive, LiveWrite DEF Write
<1>2. /\ z.m.writes = [x.m.writes EXCEPT ![q[1]] = None]
      /\ z.m.writes_in_flight = Tail(q) /\ z.m.writing = x.m.writing \ {v.slot}
      /\ z.disk = x.disk /\ z.io = Tail(x.io) /\ z.m.write_queue = x.m.write_queue
      /\ z.m.reads = x.m.reads /\ z.m.reads_in_flight = x.m.reads_in_flight
      /\ z.m.faulty = x.m.faulty /\ z.m.panic = x.m.panic
      /\ z.m.ready_waiting = x.m.ready_waiting
  BY <1>1, WithoutFirstFields
<1>3. z \in Components /\ y = IF Waits(x.m) THEN Begun(z, w) ELSE z
  BY WriteDoneIs
<1>4. /\ n \in 1 .. 2 /\ Len(Tail(q)) = n - 1
      /\ \A k \in 1 .. n - 1 : Tail(q)[k] = q[k + 1]
  <2>1. q \in Seq(1 .. WritesMax) /\ n <= WritesMax /\ WritesMax \in Nat
    BY Fields, RepliesAssumption DEF Writing
  <2>2. n >= 1 /\ Len(Tail(q)) = n - 1 /\ \A k \in 1 .. n - 1 : Tail(q)[k] = q[k + 1]
    BY <1>1, <2>1, Rest
  <2>3. n \in Nat
    BY <2>1
  <2> HIDE DEF n
  <2> QED BY <2>1, <2>2, <2>3
<1>5. /\ Count(z.io, "write") = Count(x.io, "write") - 1
      /\ Count(z.io, "read") = Count(x.io, "read") /\ z.io \in Seq(Completions)
  <2>1. /\ Tail(x.io) \in Seq(Completions)
        /\ Count(x.io, "write") = Count(Tail(x.io), "write") + 1
        /\ Count(x.io, "read") = Count(Tail(x.io), "read")
    BY Fields, CountTail
  <2>2. Count(Tail(x.io), "write") \in Nat
    BY <2>1, Counts
  <2> QED BY <1>2, <2>1, <2>2
<1>6. x.m.writing = {Write(x.m, k).slot : k \in Live(x.m)} /\ Live(x.m) = 1 .. n
  BY DEF Writing, Live
<1>7. n = 2 => /\ 2 \in Live(x.m) /\ w \in Writes /\ q[2] # q[1] /\ q[2] \in 1 .. WritesMax
               /\ w = x.m.writes[q[2]]
  <2>1. n = 2 => 2 \in Live(x.m)
    <3> HIDE DEF n
    <3> QED BY <1>6
  <2>2. 2 \in Live(x.m) => w \in Writes /\ q[2] \in 1 .. WritesMax
    BY LiveWrite
  <2>3. 2 \in Live(x.m) => q[2] # q[1]
    BY <1>1 DEF Writing
  <2> QED BY <2>1, <2>2, <2>3 DEF Write
<1>8. x.m.writing = IF n = 1 THEN {v.slot} ELSE {v.slot, w.slot}
  <2>1. CASE n = 1
    <3>1. Live(x.m) = {1}
      <4> HIDE DEF n
      <4> QED BY <1>6, <2>1
    <3> QED BY <1>6, <2>1, <3>1
  <2>2. CASE n = 2
    <3>1. Live(x.m) = {1, 2}
      <4> HIDE DEF n
      <4> QED BY <1>6, <2>2
    <3> QED BY <1>6, <2>2, <3>1
  <2> HIDE DEF n
  <2> QED BY <1>4, <2>1, <2>2
<1>9. x.m.write_queue = (IF Waits(x.m) THEN <<q[2]>> ELSE << >>)
      /\ Count(x.io, "write") = (IF Waits(x.m) THEN 1 ELSE n)
      /\ (Waits(x.m) <=> n = 2 /\ v.slot = w.slot)
  <2>1. Waits(x.m) <=> n = 2 /\ v.slot = w.slot
    BY Zenon DEF Waits
  <2>2. x.m.write_queue = (IF Waits(x.m) THEN <<q[2]>> ELSE << >>)
        /\ Count(x.io, "write") = (IF Waits(x.m) THEN 1 ELSE n)
    BY Zenon DEF Writing
  <2> QED BY <2>1, <2>2
<1>12. n = 2 => Tail(q)[1] = q[2] /\ z.m.writes[q[2]] = w
  <2>1. n = 2 => 1 \in 1 .. n - 1 /\ 1 + 1 = 2
    <3> HIDE DEF n
    <3> QED OBVIOUS
  <2>2. n = 2 => Tail(q)[1] = q[2]
    <3> HIDE DEF n, q
    <3> QED BY <1>4, <2>1
  <2>3. n = 2 => z.m.writes[q[2]] = w
    <3>1. x.m.writes \in [1 .. WritesMax -> Writes \cup {None}]
      BY Fields
    <3> HIDE DEF n, q, w, z
    <3> QED BY <1>2, <1>7, <3>1
  <2> QED BY <2>2, <2>3
<1> HIDE DEF z
<1>10. CASE Waits(x.m)
  <2>1. y = Begun(z, w) /\ w \in Writes /\ n = 2 /\ v.slot = w.slot
    BY <1>3, <1>7, <1>9, <1>10
  <2> HIDE DEF y
  <2>2. /\ y \in Components
        /\ y.m.write_queue = << >> /\ y.m.writing = z.m.writing \cup {w.slot}
        /\ y.disk = [z.disk EXCEPT ![w.slot] = w.reply]
        /\ y.io = Append(z.io, [type |-> "write"])
        /\ y.m.writes = z.m.writes /\ y.m.writes_in_flight = z.m.writes_in_flight
        /\ y.m.reads = z.m.reads /\ y.m.reads_in_flight = z.m.reads_in_flight
        /\ y.m.faulty = z.m.faulty /\ y.m.panic = z.m.panic
        /\ y.m.ready_waiting = z.m.ready_waiting
    BY <1>3, <2>1, BegunFields
  <2>3. y.m.writing = {w.slot}
    BY <1>2, <1>8, <2>1, <2>2
  <2>4. Count(y.io, "write") = 1 /\ Count(y.io, "read") = Count(x.io, "read")
    <3>1. [type |-> "write"] \in Completions
      BY DEF Completions
    <3>2. /\ Count(y.io, "write") = Count(z.io, "write") + 1
          /\ Count(y.io, "read") = Count(z.io, "read")
      BY <1>5, <2>2, <3>1, CountAppend
    <3> QED BY <1>5, <1>9, <1>10, <3>2
  <2>5. y.m.writes_in_flight = Tail(q) /\ y.m.writes_in_flight[1] = q[2]
    BY <1>2, <1>12, <2>1, <2>2
  <2>6. Write(y.m, 1) = w
    <3> HIDE DEF n, q, w
    <3> QED BY <1>12, <2>1, <2>2, <2>5 DEF Write
  <2> HIDE DEF q, v, w, n
  <2>7. Len(y.m.writes_in_flight) = n - 1 /\ n - 1 = 1
    BY <1>2, <1>4, <2>1, <2>5
  <2> USE DEF q, n, v, w
  <2>8. /\ y.m.writes = [x.m.writes EXCEPT ![q[1]] = None]
        /\ y.disk = [x.disk EXCEPT ![w.slot] = w.reply]
    BY <1>2, <2>2
  <2>9. n \in 1 .. 2 /\ v \in Writes /\ w \in Writes
    BY <1>1, <1>4, <2>1
  <2> QED BY <1>2, <1>8, <1>10, <2>1, <2>2, <2>3, <2>4, <2>5, <2>6, <2>7, <2>8, <2>9 DEF Finished, y
<1>11. CASE ~Waits(x.m)
  <2>1. y = z
    BY <1>3, <1>11
  <2> HIDE DEF y
  <2>2. y.m.write_queue = << >> /\ Count(y.io, "write") = n - 1
        /\ Count(y.io, "read") = Count(x.io, "read")
    BY <1>2, <1>5, <1>9, <1>11, <2>1
  <2>3. y.m.writing = IF n = 1 THEN {} ELSE {w.slot}
    <3>1. CASE n = 1
      BY <1>2, <1>8, <2>1, <3>1
    <3>2. CASE n = 2
      <4>1. v.slot # w.slot
        BY <1>9, <1>11, <3>2
      <4> QED BY <1>2, <1>8, <2>1, <3>2, <4>1
    <3> QED BY <1>4, <3>1, <3>2
  <2>4. n = 2 => y.m.writes_in_flight[1] = q[2]
    BY <1>2, <1>12, <2>1
  <2>5. n = 2 => Write(y.m, 1) = w
    <3> HIDE DEF n, q, w
    <3> QED BY <1>12, <2>1, <2>4 DEF Write
  <2>6. Len(y.m.writes_in_flight) = n - 1
    BY <1>2, <1>4, <2>1
  <2> QED BY <1>1, <1>2, <1>3, <1>4, <1>7, <1>8, <1>11,
            <2>1, <2>2, <2>3, <2>4, <2>5, <2>6 DEF Finished, y
<1> QED BY <1>10, <1>11

\* The pool after a completed write.
LEMMA WritingFinishes ==
  ASSUME WritesMax <= 2, NEW x \in Components, Writing(x), NEW y, Finished(x, y)
  PROVE  Writing(y) /\ ~Waits(y.m)
<1> DEFINE n == Len(x.m.writes_in_flight)
           w == Write(x.m, 2)
           q == x.m.writes_in_flight
           p == y.m.writes_in_flight
<1>1. /\ y \in Components /\ n \in 1 .. 2 /\ Len(p) = n - 1
      /\ y.m.write_queue = << >> /\ Count(y.io, "write") = n - 1
      /\ y.m.writing = IF n = 1 THEN {} ELSE {w.slot}
      /\ n = 2 => w \in Writes /\ p[1] = q[2] /\ Write(y.m, 1) = w
      /\ y.m.writes = [x.m.writes EXCEPT ![q[1]] = None]
  BY Zenon DEF Finished
<1>2. Live(x.m) = 1 .. n /\ Live(y.m) = 1 .. n - 1
  BY <1>1 DEF Live
<1>3. WritesMax \in Nat /\ n <= WritesMax
  BY RepliesAssumption DEF Writing
<1>4. \A j \in 1 .. WritesMax : x.m.writes[j] # None => \E k \in Live(x.m) : q[k] = j
  BY Zenon DEF Writing
<1>5. \A j \in 1 .. WritesMax : y.m.writes[j] = IF j = q[1] THEN None ELSE x.m.writes[j]
  <2>1. x.m.writes \in [1 .. WritesMax -> Writes \cup {None}]
    BY Fields
  <2> HIDE DEF q
  <2> QED BY <1>1, <2>1
<1> HIDE DEF n, w, q, p
<1>6. \A k \in Live(y.m) : k = 1 /\ n = 2 /\ Write(y.m, k) = w /\ w \in Writes
  BY <1>1, <1>2
<1>7. \A k \in Live(y.m) : Write(y.m, k) # None
  BY <1>6, NotNone
<1>8. \A k, l \in Live(y.m) : p[k] = p[l] => k = l
  BY <1>6
<1>9. \A j \in 1 .. WritesMax : y.m.writes[j] # None => \E k \in Live(y.m) : p[k] = j
  <2> SUFFICES ASSUME NEW j \in 1 .. WritesMax, y.m.writes[j] # None
               PROVE  \E k \in Live(y.m) : p[k] = j
    OBVIOUS
  <2>1. j # q[1] /\ x.m.writes[j] # None
    BY <1>5
  <2>2. PICK k \in Live(x.m) : q[k] = j
    BY <1>4, <2>1
  <2>3. k = 2 /\ n = 2
    BY <1>1, <1>2, <2>1, <2>2
  <2>4. p[1] = j /\ 1 \in Live(y.m)
    BY <1>1, <1>2, <2>2, <2>3
  <2> QED BY <2>4
<1>10. y.m.writing = {Write(y.m, k).slot : k \in Live(y.m)}
  <2>1. CASE n = 1
    <3>1. Live(y.m) = {}
      BY <1>2, <2>1
    <3> QED BY <1>1, <2>1, <3>1
  <2>2. CASE n = 2
    <3>1. Live(y.m) = {1}
      BY <1>2, <2>2
    <3> QED BY <1>1, <2>2, <3>1
  <2>3. n = 1 \/ n = 2
    BY <1>1
  <2> QED BY <2>1, <2>2, <2>3
<1>11. Len(p) # 2 /\ Len(p) <= WritesMax
  BY <1>1, <1>3
<1>12. ~Waits(y.m)
  BY <1>11 DEF Waits, p
<1> QED BY <1>1, <1>7, <1>8, <1>9, <1>10, <1>11, <1>12 DEF Writing, p

\* The slots after a completed write: the one it was for holds its reply, or
\* that of the write that begins.
LEMMA ContentsFinish ==
  ASSUME WritesMax <= 2, NEW x \in Components, Writing(x), NEW y, Finished(x, y),
         NEW t, NEW n, NEW R, Contents(x, t, n, R)
  PROVE  Contents(y, t, n, R)
<1> DEFINE l == Len(x.m.writes_in_flight)
           v == Write(x.m, 1)
           w == Write(x.m, 2)
<1>1. /\ y \in Components /\ l \in 1 .. 2 /\ v \in Writes
      /\ Len(y.m.writes_in_flight) = l - 1 /\ y.m.faulty = x.m.faulty
      /\ x.m.writing = IF l = 1 THEN {v.slot} ELSE {v.slot, w.slot}
      /\ y.m.writing = IF l = 1 THEN {} ELSE {w.slot}
      /\ l = 2 => w \in Writes /\ Write(y.m, 1) = w
      /\ y.disk = IF Waits(x.m) THEN [x.disk EXCEPT ![w.slot] = w.reply] ELSE x.disk
  BY Zenon DEF Finished
<1>2. Live(x.m) = 1 .. l /\ Live(y.m) = 1 .. l - 1
  BY <1>1 DEF Live
<1>3. Waits(x.m) <=> l = 2 /\ v.slot = w.slot
  BY Zenon DEF Waits
<1> HIDE DEF l, v, w
<1>4. /\ \A k \in Live(y.m) : k = 1 /\ l = 2 /\ Write(y.m, k) = w /\ w \in Writes
      /\ 1 \in Live(x.m) /\ (l = 2 => 2 \in Live(x.m) /\ 1 \in Live(y.m))
  BY <1>1, <1>2
<1>5. \A k \in Live(y.m) : Recent(Write(y.m, k), t, n, R)
  BY <1>4 DEF Contents, w
<1>6. /\ x.disk \in [Slots -> OnDisk] /\ x.disk[v.slot] \in {v.reply, Corrupt}
      /\ l = 2 /\ ~Waits(x.m) => x.disk[w.slot] \in {w.reply, Corrupt}
  BY <1>4, Fields DEF Contents, v, w
<1>7. ASSUME l = 2
      PROVE  y.disk[w.slot] \in {w.reply, Corrupt}
  <2>1. w.slot \in Slots
    BY <1>1, <1>7, WriteFields
  <2> QED BY <1>1, <1>6, <1>7, <2>1
<1>8. \A k \in Live(y.m) : y.disk[Write(y.m, k).slot] \in {Write(y.m, k).reply, Corrupt}
  BY <1>4, <1>7
<1>9. ASSUME NEW s \in Slots, t[s] # None, t[s].body, s \notin y.m.faulty
      PROVE  Holds(y, s, t[s])
  <2>1. Holds(x, s, t[s])
    BY <1>1, <1>9 DEF Contents
  <2>2. CASE s \in y.m.writing
    <3>1. l = 2 /\ s = w.slot /\ s \in x.m.writing
      BY <1>1, <2>2
    <3>2. \A j \in Live(x.m) : ~ (2 < j)
      BY <1>2, <3>1
    <3>3. w.reply = t[s]
      BY <1>4, <2>1, <3>1, <3>2 DEF Holds, w
    <3> QED BY <1>4, <2>2, <3>3 DEF Holds
  <2>3. CASE s \notin y.m.writing
    <3>1. y.disk[s] = x.disk[s]
      <4>1. l = 2 => s # w.slot
        BY <1>1, <2>3
      <4> QED BY <1>1, <1>3, <1>6, <4>1
    <3>2. CASE s = v.slot
      <4>1. s \in x.m.writing
        BY <1>1, <3>2
      <4>2. \A j \in Live(x.m) : 1 < j => Write(x.m, j).slot # s
        <5>1. \A j \in Live(x.m) : 1 < j => j = 2 /\ l = 2
          BY <1>1, <1>2
        <5> QED BY <1>1, <2>3, <5>1 DEF w
      <4>3. v.reply = t[s]
        BY <1>4, <2>1, <3>2, <4>1, <4>2 DEF Holds, v
      <4> QED BY <1>6, <2>3, <3>1, <3>2, <4>3 DEF Holds
    <3>3. CASE s # v.slot
      <4>1. s \notin x.m.writing
        BY <1>1, <2>3, <3>3
      <4> QED BY <2>1, <2>3, <3>1, <4>1 DEF Holds
    <3> QED BY <3>2, <3>3
  <2> QED BY <2>2, <2>3
<1> QED BY <1>5, <1>8, <1>9 DEF Contents

\* A completed write keeps the component.
LEMMA WriteDoneKeeps ==
  ASSUME WritesMax <= 2, NEW x, NEW t, NEW n, NEW R, Keeps(x, t, n, R),
         x.io # << >>, Head(x.io).type = "write", x.m.panic = None
  PROVE  LET y == WriteDone(x) IN
         /\ Keeps(y, t, n, R) /\ y.m.panic = None
         /\ y.m.ready_waiting = x.m.ready_waiting
<1> DEFINE y == WriteDone(x)
<1>1. x \in Components /\ Reading(x) /\ Writing(x) /\ Contents(x, t, n, R)
  BY DEF Keeps
<1>2. Finished(x, y)
  BY <1>1, WriteFinishes
<1> HIDE DEF y
<1>3. Writing(y) /\ Contents(y, t, n, R)
  BY <1>1, <1>2, WritingFinishes, ContentsFinish
<1>4. y \in Components /\ Reading(y) /\ y.m.panic = None /\ y.m.ready_waiting = x.m.ready_waiting
  BY <1>1, <1>2, ReadingStays DEF Finished
<1>5. Keeps(y, t, n, R)
  BY <1>3, <1>4 DEF Keeps
<1> QED BY <1>4, <1>5 DEF y

\* A completed read leaves the writes and the disk, and perhaps one slot more
\* that is faulty.
HasRead(x, y) ==
  LET i == x.m.reads_in_flight[1]
  IN /\ y \in Components
     /\ y.m.reads = [x.m.reads EXCEPT ![i] = None]
     /\ y.m.reads_in_flight = Tail(x.m.reads_in_flight)
     /\ y.m.writes = x.m.writes /\ y.m.writes_in_flight = x.m.writes_in_flight
     /\ y.m.write_queue = x.m.write_queue /\ y.m.writing = x.m.writing
     /\ x.m.faulty \subseteq y.m.faulty
     /\ y.m.panic = x.m.panic /\ y.m.ready_waiting = x.m.ready_waiting
     /\ y.disk = x.disk /\ y.io = Tail(x.io)

\* A completed read meets the operation that asked for it.
LEMMA ReadIsLive ==
  ASSUME NEW x \in Components, Reading(x), x.io # << >>, Head(x.io).type = "read"
  PROVE  /\ x.m.reads_in_flight # << >>
         /\ x.m.reads[x.m.reads_in_flight[1]] \in Reads
<1> DEFINE q == x.m.reads_in_flight
<1>1. q \in Seq(1 .. ReadsMax)
  BY Fields
<1>2. q # << >>
  <2>1. /\ Count(x.io, "read") = Count(Tail(x.io), "read") + 1
        /\ Tail(x.io) \in Seq(Completions)
    BY Fields, CountTail
  <2>2. Count(Tail(x.io), "read") \in Nat
    BY <2>1, Counts
  <2>3. Len(q) # 0
    BY <2>1, <2>2 DEF Reading
  <2> HIDE DEF q
  <2> QED BY <2>3
<1>3. 1 \in 1 .. Len(q) /\ q[1] \in 1 .. ReadsMax
  <2> HIDE DEF q
  <2>1. Len(q) >= 1 /\ q[1] \in 1 .. ReadsMax
    BY <1>1, <1>2, Rest
  <2>2. Len(q) \in Nat
    BY <1>1
  <2> QED BY <2>1, <2>2
<1>4. Read(x.m, 1) # None
  BY <1>3 DEF Reading
<1> QED BY <1>2, <1>3, <1>4, Fields DEF Read

\* The fields after a completed read.
LEMMA ReadDoneIs ==
  ASSUME NEW x \in Components, Reading(x), x.io # << >>, Head(x.io).type = "read"
  PROVE  HasRead(x, ReadDone(x))
<1> DEFINE m == x.m
           i == Head(m.reads_in_flight)
           v == m.reads[i]
           lost == v.wanted /\ Head(x.io).found # v.reply
           a == [m EXCEPT !.reads[i] = None]
           b == [a EXCEPT !.reads_in_flight = Tail(@)]
           d == [b EXCEPT !.faulty = IF lost THEN @ \cup {v.slot} ELSE @]
           c == Tail(x.io)
<1>1. ReadDone(x) = [x EXCEPT !.m = d, !.io = c]
  BY DEF ReadDone
<1>2. m \in Memory /\ m.reads_in_flight # << >> /\ m.reads[m.reads_in_flight[1]] \in Reads
  BY Fields, ReadIsLive
<1>3. /\ Tail(m.reads_in_flight) \in Seq(1 .. ReadsMax) /\ i \in 1 .. ReadsMax
      /\ i = m.reads_in_flight[1]
  <2> DEFINE q == m.reads_in_flight
  <2>1. q \in Seq(1 .. ReadsMax) /\ q # << >>
    BY <1>2 DEF Memory
  <2> HIDE DEF q
  <2>2. Tail(q) \in Seq(1 .. ReadsMax) /\ Head(q) \in 1 .. ReadsMax /\ Head(q) = q[1]
    BY <2>1, Rest
  <2> QED BY <2>2 DEF q
<1>4. v \in Reads /\ v.slot \in Slots
  BY <1>2, <1>3 DEF Reads
<1> HIDE DEF lost, v, i, m
<1>5. /\ a \in Memory /\ a.reads = [m.reads EXCEPT ![i] = None]
      /\ a.reads_in_flight = m.reads_in_flight
      /\ a.writes = m.writes /\ a.writes_in_flight = m.writes_in_flight
      /\ a.writing = m.writing /\ a.write_queue = m.write_queue
      /\ a.faulty = m.faulty /\ a.panic = m.panic /\ a.ready_waiting = m.ready_waiting
  <2>1. [m.reads EXCEPT ![i] = None] \in [1 .. ReadsMax -> Reads \cup {None}]
    BY <1>2 DEF Memory
  <2> QED BY <1>2, <2>1 DEF Memory
<1> HIDE DEF a
<1>6. /\ b \in Memory /\ b.reads = a.reads
      /\ b.reads_in_flight = Tail(a.reads_in_flight)
      /\ b.writes = a.writes /\ b.writes_in_flight = a.writes_in_flight
      /\ b.writing = a.writing /\ b.write_queue = a.write_queue
      /\ b.faulty = a.faulty /\ b.panic = a.panic /\ b.ready_waiting = a.ready_waiting
  BY <1>3, <1>5 DEF Memory
<1> HIDE DEF b
<1>7. /\ d \in Memory /\ d.reads = b.reads
      /\ d.reads_in_flight = b.reads_in_flight
      /\ d.writes = b.writes /\ d.writes_in_flight = b.writes_in_flight
      /\ d.writing = b.writing /\ d.write_queue = b.write_queue
      /\ b.faulty \subseteq d.faulty
      /\ d.panic = b.panic /\ d.ready_waiting = b.ready_waiting
  <2> DEFINE f == IF lost THEN b.faulty \cup {v.slot} ELSE b.faulty
  <2>1. b.faulty \subseteq f /\ f \in SUBSET Slots
    <3>1. b.faulty \in SUBSET Slots
      BY <1>6 DEF Memory
    <3>2. b.faulty \cup {v.slot} \in SUBSET Slots
      BY <1>4, <3>1
    <3>3. CASE lost
      BY <3>2, <3>3
    <3>4. CASE ~lost
      BY <3>1, <3>4
    <3> QED BY <3>3, <3>4
  <2> QED BY <1>6, <2>1 DEF Memory
<1> HIDE DEF d
<1>8. x.disk \in [Slots -> OnDisk] /\ c \in Seq(Completions)
  BY Fields, CountTail
<1>9. ReadDone(x) = [m |-> d, disk |-> x.disk, io |-> c]
  <2> HIDE DEF c
  <2> QED BY <1>1, NewState
<1> DEFINE y == [m |-> d, disk |-> x.disk, io |-> c]
<1>10. y \in Components /\ y.m = d /\ y.disk = x.disk /\ y.io = c
  BY <1>7, <1>8 DEF Components
<1> HIDE DEF y
<1>11. HasRead(x, y)
  BY <1>3, <1>5, <1>6, <1>7, <1>10 DEF HasRead, m
<1> QED BY <1>9, <1>11 DEF y

\* A completed read keeps the component.
LEMMA ReadDoneKeeps ==
  ASSUME NEW x, NEW t, NEW n, NEW R, Keeps(x, t, n, R),
         x.io # << >>, Head(x.io).type = "read", x.m.panic = None
  PROVE  LET y == ReadDone(x) IN
         /\ Keeps(y, t, n, R) /\ y.m.panic = None
         /\ y.m.ready_waiting = x.m.ready_waiting
<1> DEFINE y == ReadDone(x)
           q == x.m.reads_in_flight
           p == y.m.reads_in_flight
<1>1. x \in Components /\ Reading(x) /\ Writing(x) /\ Contents(x, t, n, R)
  BY DEF Keeps
<1>2. HasRead(x, y) /\ q # << >>
  BY <1>1, ReadDoneIs, ReadIsLive
<1>3. q \in Seq(1 .. ReadsMax) /\ x.m.reads \in [1 .. ReadsMax -> Reads \cup {None}]
  BY <1>1, Fields
<1> HIDE DEF y
<1>4. /\ p = Tail(q) /\ q[1] \in 1 .. ReadsMax
      /\ Len(q) \in Nat /\ Len(q) >= 1 /\ Len(p) = Len(q) - 1
      /\ \A k \in 1 .. Len(q) - 1 : p[k] = q[k + 1]
  <2>1. p = Tail(q)
    BY <1>2 DEF HasRead
  <2> HIDE DEF p, q
  <2>2. /\ Tail(q) \in Seq(1 .. ReadsMax) /\ q[1] \in 1 .. ReadsMax
        /\ Len(q) >= 1 /\ Len(Tail(q)) = Len(q) - 1
        /\ \A k \in 1 .. Len(q) - 1 : Tail(q)[k] = q[k + 1]
    BY <1>2, <1>3, Rest
  <2>3. Len(q) \in Nat
    BY <1>3
  <2> QED BY <2>1, <2>2, <2>3
<1>5. y.m.reads = [x.m.reads EXCEPT ![q[1]] = None]
  BY <1>2 DEF HasRead
<1>6. /\ \A k \in 1 .. Len(q) : q[k] \in 1 .. ReadsMax /\ x.m.reads[q[k]] # None
      /\ \A k, l \in 1 .. Len(q) : q[k] = q[l] => k = l
  <2>1. \A k \in 1 .. Len(q) : q[k] \in 1 .. ReadsMax
    BY <1>3, ElementOfSeq
  <2>2. \A k \in 1 .. Len(q) : Read(x.m, k) # None
    BY <1>1 DEF Reading
  <2>3. \A k, l \in 1 .. Len(q) : q[k] = q[l] => k = l
    BY <1>1 DEF Reading
  <2> QED BY <2>1, <2>2, <2>3 DEF Read
<1>7. /\ Count(y.io, "read") = Count(x.io, "read") - 1
      /\ Count(y.io, "write") = Count(x.io, "write")
  <2>1. /\ Count(x.io, "read") = Count(Tail(x.io), "read") + 1
        /\ Count(x.io, "write") = Count(Tail(x.io), "write")
        /\ Tail(x.io) \in Seq(Completions)
    BY <1>1, Fields, CountTail
  <2>2. Count(Tail(x.io), "read") \in Nat
    BY <2>1, Counts
  <2>3. y.io = Tail(x.io)
    BY <1>2 DEF HasRead
  <2> QED BY <2>1, <2>2, <2>3
<1>8. Reading(y)
  <2>1. ASSUME NEW k \in 1 .. Len(p)
        PROVE  /\ k + 1 \in 1 .. Len(q) /\ p[k] = q[k + 1]
               /\ y.m.reads[p[k]] # None
    <3> HIDE DEF p, q
    <3>1. k + 1 \in 1 .. Len(q) /\ p[k] = q[k + 1] /\ k + 1 # 1 /\ 1 \in 1 .. Len(q)
      BY <1>4, <2>1
    <3>2. q[k + 1] # q[1]
      BY <1>6, <3>1
    <3>3. x.m.reads[q[k + 1]] # None /\ q[k + 1] \in 1 .. ReadsMax
      BY <1>6, <3>1
    <3> QED BY <1>3, <1>5, <3>1, <3>2, <3>3
  <2>2. ASSUME NEW k \in 1 .. Len(p), NEW l \in 1 .. Len(p), p[k] = p[l]
        PROVE  k = l
    <3>1. k + 1 = l + 1
      BY <1>6, <2>1, <2>2
    <3> HIDE DEF p
    <3>2. k \in Int /\ l \in Int
      BY <1>4
    <3> QED BY <3>1, <3>2
  <2>3. Count(y.io, "read") = Len(p)
    <3>1. Count(x.io, "read") = Len(q)
      BY <1>1 DEF Reading
    <3> QED BY <1>4, <1>7, <3>1
  <2>4. \A k \in 1 .. Len(p) : Read(y.m, k) # None
    BY <2>1 DEF Read
  <2>5. \A k, l \in 1 .. Len(p) : p[k] = p[l] => k = l
    BY <2>2
  <2> QED BY <2>3, <2>4, <2>5, Zenon DEF Reading
<1>9. /\ y \in Components /\ y.m.writes = x.m.writes
      /\ y.m.writes_in_flight = x.m.writes_in_flight
      /\ y.m.write_queue = x.m.write_queue /\ y.m.writing = x.m.writing
      /\ x.m.faulty \subseteq y.m.faulty /\ y.disk = x.disk
      /\ y.m.panic = x.m.panic /\ y.m.ready_waiting = x.m.ready_waiting
  BY <1>2 DEF HasRead
<1>10. Live(y.m) = Live(x.m) /\ (Waits(y.m) <=> Waits(x.m)) /\ \A k : Write(y.m, k) = Write(x.m, k)
  BY <1>9 DEF Live, Waits, Write
<1>11. Writing(y)
  BY <1>1, <1>7, <1>9, <1>10 DEF Writing
<1>12. Contents(y, t, n, R)
  <2>1. \A s \in Slots : Holds(x, s, t[s]) => Holds(y, s, t[s])
    BY <1>9, <1>10 DEF Holds
  <2> QED BY <1>1, <1>9, <1>10, <2>1 DEF Contents
<1> QED BY <1>8, <1>9, <1>11, <1>12 DEF Keeps, y

\* A component that did nothing but finish what the storage reported.
LEMMA CompletedKeeps ==
  ASSUME WritesMax <= 2, NEW x, NEW t, NEW n, NEW R, Keeps(x, t, n, R), x.m.panic = None
  PROVE  LET y == Completed(x) IN
         /\ Keeps(y, t, n, R) /\ y.m.panic = None
         /\ y.m.ready_waiting = x.m.ready_waiting
<1>1. CASE x.io = << >>
  BY <1>1 DEF Completed
<1>2. CASE x.io # << >>
  <2>1. x \in Components
    BY DEF Keeps
  <2>2. Head(x.io) \in Completions
    BY <1>2, <2>1, Fields, CountTail
  <2>3. Head(x.io).type \in {"read", "write"}
    BY <2>2 DEF Completions
  <2>4. CASE Head(x.io).type = "read"
    <3>1. Completed(x) = ReadDone(x)
      BY <1>2, <2>4 DEF Completed
    <3> QED BY <1>2, <2>4, <3>1, ReadDoneKeeps
  <2>5. CASE Head(x.io).type = "write"
    <3>1. Completed(x) = WriteDone(x)
      BY <1>2, <2>5 DEF Completed
    <3> QED BY <1>2, <2>5, <3>1, WriteDoneKeeps
  <2> QED BY <2>3, <2>4, <2>5
<1> QED BY <1>1, <1>2

\* The states of a component on the way to one that has seen j completions.
Drains(d, x, j) == d = [k \in 0 .. j |-> IF k = 0 THEN x ELSE Completed(d[k - 1])]

\* There are such states: the least number for which there were none would come
\* after one for which there are.
LEMMA DrainsExists ==
  ASSUME NEW x, NEW n \in Nat
  PROVE  \E d : Drains(d, x, n)
<1> DEFINE U == {j \in 0 .. n : ~ \E d : Drains(d, x, j)}
<1>1. U = {}
  <2> SUFFICES ASSUME U # {} PROVE FALSE
    OBVIOUS
  <2>1. PICK b \in U : \A c \in U : b <= c
    <3>1. U \subseteq Nat
      OBVIOUS
    <3> HIDE DEF U
    <3> QED BY <3>1, LeastElement
  <2>2. b \in 0 .. n /\ ~ \E d : Drains(d, x, b)
    BY <2>1
  <2>3. b # 0
    <3>1. Drains([k \in 0 .. 0 |-> x], x, 0)
      <4>1. \A k \in 0 .. 0 : k = 0
        OBVIOUS
      <4> QED BY <4>1 DEF Drains
    <3> QED BY <2>2, <3>1
  <2>4. b - 1 \in 0 .. n /\ b - 1 \notin U
    BY <2>1, <2>2, <2>3
  <2>5. PICK d : Drains(d, x, b - 1)
    BY <2>4
  <2> DEFINE e == [k \in 0 .. b |-> IF k = b THEN Completed(d[b - 1]) ELSE d[k]]
  <2>6. ASSUME NEW k \in 0 .. b
        PROVE  e[k] = IF k = 0 THEN x ELSE Completed(e[k - 1])
    <3>1. CASE k = b
      <4>1. k # 0 /\ k - 1 \in 0 .. b /\ k - 1 # b
        BY <2>2, <2>3, <3>1
      <4> QED BY <3>1, <4>1
    <3>2. CASE k # b
      <4>1. k \in 0 .. b - 1 /\ e[k] = d[k]
        BY <2>2, <3>2
      <4>2. d[k] = IF k = 0 THEN x ELSE Completed(d[k - 1])
        BY <2>5, <4>1 DEF Drains
      <4>3. k # 0 => k - 1 \in 0 .. b /\ k - 1 # b /\ e[k - 1] = d[k - 1]
        BY <2>2, <4>1
      <4> QED BY <4>1, <4>2, <4>3
    <3> QED BY <3>1, <3>2
  <2>7. Drains(e, x, b)
    <3>1. e = [k \in 0 .. b |-> e[k]]
      OBVIOUS
    <3> HIDE DEF e
    <3> QED BY <2>6, <3>1 DEF Drains
  <2> QED BY <2>2, <2>7
<1>2. n \in 0 .. n
  OBVIOUS
<1> QED BY <1>1, <1>2

\* Any number of completions keeps the component.
LEMMA DrainedKeeps ==
  ASSUME WritesMax <= 2, NEW x, NEW t, NEW n, NEW R, Keeps(x, t, n, R), x.m.panic = None,
         NEW l \in Nat
  PROVE  LET y == Drained(x, l) IN
         /\ Keeps(y, t, n, R) /\ y.m.panic = None
         /\ y.m.ready_waiting = x.m.ready_waiting
<1> DEFINE d == CHOOSE d : Drains(d, x, l)
           Good(y) == /\ Keeps(y, t, n, R) /\ y.m.panic = None
                      /\ y.m.ready_waiting = x.m.ready_waiting
           U == {j \in 0 .. l : ~ Good(d[j])}
<1>1. Drained(x, l) = d[l]
  BY DEF Drained, Drains
<1>2. Drains(d, x, l)
  BY DrainsExists
<1> HIDE DEF d
<1>3. \A k \in 0 .. l : d[k] = IF k = 0 THEN x ELSE Completed(d[k - 1])
  BY <1>2 DEF Drains
<1>4. Good(x)
  OBVIOUS
<1>5. \A y : Good(y) => Good(Completed(y))
  BY CompletedKeeps
<1> HIDE DEF Good
<1>6. U = {}
  <2> SUFFICES ASSUME U # {} PROVE FALSE
    OBVIOUS
  <2>1. PICK b \in U : \A c \in U : b <= c
    <3>1. U \subseteq Nat
      OBVIOUS
    <3> HIDE DEF U
    <3> QED BY <3>1, LeastElement
  <2>2. b \in 0 .. l /\ ~Good(d[b])
    BY <2>1
  <2>3. b # 0
    BY <1>3, <1>4, <2>2
  <2>4. b - 1 \in 0 .. l /\ b - 1 \notin U
    BY <2>1, <2>2, <2>3
  <2>5. Good(Completed(d[b - 1]))
    BY <1>5, <2>4
  <2> QED BY <1>3, <2>2, <2>3, <2>5
<1>7. Good(d[l])
  BY <1>6
<1> QED BY <1>1, <1>7 DEF Good

-----------------------------------------------------------------------------
(* What leaves the work of the component as it is                           *)

\* Another component with the same operations, queue, disk and completions.
SameWork(x, y) ==
  /\ y \in Components
  /\ y.m.reads = x.m.reads /\ y.m.reads_in_flight = x.m.reads_in_flight
  /\ y.m.writes = x.m.writes /\ y.m.writes_in_flight = x.m.writes_in_flight
  /\ y.m.write_queue = x.m.write_queue /\ y.m.writing = x.m.writing
  /\ y.disk = x.disk /\ y.io = x.io

\* It keeps a table in which the slots that must hold a reply hold an old one.
LEMMA SameWorkKeeps ==
  ASSUME NEW x, NEW t, NEW n, NEW R, Keeps(x, t, n, R), NEW y, SameWork(x, y),
         NEW u, NEW p, NEW Q,
         \A k \in Live(x.m) : Recent(Write(x.m, k), u, p, Q),
         \A s \in Slots : u[s] # None /\ u[s].body /\ s \notin y.m.faulty =>
                            u[s] = t[s] /\ s \notin x.m.faulty
  PROVE  Keeps(y, u, p, Q)
<1>1. /\ y \in Components /\ Live(y.m) = Live(x.m)
      /\ \A k : Write(y.m, k) = Write(x.m, k)
      /\ \A k : Read(y.m, k) = Read(x.m, k)
      /\ Waits(y.m) <=> Waits(x.m)
  BY DEF SameWork, Live, Write, Read, Waits
<1>2. Reading(y)
  BY <1>1 DEF Keeps, Reading, SameWork
<1>3. Writing(y)
  BY <1>1 DEF Keeps, Writing, SameWork
<1>4. \A s, r : Holds(x, s, r) => Holds(y, s, r)
  BY <1>1 DEF Holds, SameWork
<1>5. Contents(x, t, n, R) /\ y.disk = x.disk
  BY DEF Keeps, SameWork
<1>6. /\ \A k \in Live(y.m) : Recent(Write(y.m, k), u, p, Q)
      /\ \A k \in Live(y.m) : k = 1 \/ ~Waits(y.m) =>
           y.disk[Write(y.m, k).slot] \in {Write(y.m, k).reply, Corrupt}
  BY <1>1, <1>5 DEF Contents
<1>7. ASSUME NEW s \in Slots, u[s] # None, u[s].body, s \notin y.m.faulty
      PROVE  Holds(y, s, u[s])
  <2>1. u[s] = t[s] /\ s \notin x.m.faulty
    BY <1>7
  <2>2. Holds(x, s, t[s])
    BY <1>5, <1>7, <2>1 DEF Contents
  <2> QED BY <1>4, <2>1, <2>2
<1>8. Contents(y, u, p, Q)
  BY <1>6, <1>7 DEF Contents
<1> QED BY <1>1, <1>2, <1>3, <1>8 DEF Keeps

\* An assertion that fails.
LEMMA Fails ==
  ASSUME NEW x \in Components, x.m.panic = None, NEW name \in {"commit", "checkpoint"}
  PROVE  LET y == Check(x, name, FALSE) IN
         SameWork(x, y) /\ y.m.panic = name /\ y.m.faulty = x.m.faulty
         /\ y.m.ready_waiting = x.m.ready_waiting
<1> DEFINE n == [x.m EXCEPT !.panic = name]
           y == [x EXCEPT !.m = n]
<1>1. Check(x, name, FALSE) = y
  BY DEF Check
<1>2. x.m \in Memory
  BY Fields
<1>3. /\ n \in Memory /\ n.panic = name
      /\ n.reads = x.m.reads /\ n.reads_in_flight = x.m.reads_in_flight
      /\ n.writes = x.m.writes /\ n.writes_in_flight = x.m.writes_in_flight
      /\ n.write_queue = x.m.write_queue /\ n.writing = x.m.writing
      /\ n.faulty = x.m.faulty /\ n.ready_waiting = x.m.ready_waiting
  BY <1>2 DEF Memory
<1> HIDE DEF n
<1>4. y \in Components /\ y.m = n /\ y.disk = x.disk /\ y.io = x.io
  BY <1>3, NewMemory
<1> HIDE DEF y
<1>5. SameWork(x, y)
  BY <1>3, <1>4 DEF SameWork
<1> QED BY <1>1, <1>3, <1>4, <1>5

\* A reply without a body makes its slot durable.
LEMMA Cleared ==
  ASSUME NEW x \in Components, NEW s
  PROVE  LET y == [x EXCEPT !.m.faulty = @ \ {s}] IN
         SameWork(x, y) /\ y.m.panic = x.m.panic /\ y.m.faulty = x.m.faulty \ {s}
         /\ y.m.ready_waiting = x.m.ready_waiting
<1> DEFINE n == [x.m EXCEPT !.faulty = @ \ {s}]
           y == [x EXCEPT !.m = n]
<1>1. [x EXCEPT !.m.faulty = @ \ {s}] = y
  OBVIOUS
<1>2. x.m \in Memory /\ x.m.faulty \ {s} \in SUBSET Slots
  BY Fields
<1>3. /\ n \in Memory /\ n.panic = x.m.panic
      /\ n.reads = x.m.reads /\ n.reads_in_flight = x.m.reads_in_flight
      /\ n.writes = x.m.writes /\ n.writes_in_flight = x.m.writes_in_flight
      /\ n.write_queue = x.m.write_queue /\ n.writing = x.m.writing
      /\ n.faulty = x.m.faulty \ {s} /\ n.ready_waiting = x.m.ready_waiting
  BY <1>2 DEF Memory
<1> HIDE DEF n
<1>4. y \in Components /\ y.m = n /\ y.disk = x.disk /\ y.io = x.io
  BY <1>3, NewMemory
<1> HIDE DEF y
<1>5. SameWork(x, y)
  BY <1>3, <1>4 DEF SameWork
<1> QED BY <1>1, <1>3, <1>4, <1>5

\* The component when it is waited for, or no longer.
Flagged(x, ready, checkpoint) ==
  [x EXCEPT !.m = [x.m EXCEPT !.ready_waiting = ready, !.checkpoint_waiting = checkpoint]]

\* Its work is the same.
LEMMA FlaggedWorks ==
  ASSUME NEW x \in Components, NEW ready \in BOOLEAN, NEW checkpoint \in BOOLEAN
  PROVE  LET y == Flagged(x, ready, checkpoint) IN
         SameWork(x, y) /\ y.m.panic = x.m.panic /\ y.m.faulty = x.m.faulty
         /\ y.m.ready_waiting = ready /\ y.m.checkpoint_waiting = checkpoint
<1> DEFINE m == [x.m EXCEPT !.ready_waiting = ready]
           n == [m EXCEPT !.checkpoint_waiting = checkpoint]
           y == [x EXCEPT !.m = n]
<1>2. x.m \in Memory
  BY Fields
<1>1. [x.m EXCEPT !.ready_waiting = ready, !.checkpoint_waiting = checkpoint] = n
  BY <1>2 DEF Memory
<1>3. /\ m \in Memory /\ m.panic = x.m.panic
      /\ m.reads = x.m.reads /\ m.reads_in_flight = x.m.reads_in_flight
      /\ m.writes = x.m.writes /\ m.writes_in_flight = x.m.writes_in_flight
      /\ m.write_queue = x.m.write_queue /\ m.writing = x.m.writing
      /\ m.faulty = x.m.faulty /\ m.ready_waiting = ready
  BY <1>2 DEF Memory
<1> HIDE DEF m
<1>4. /\ n \in Memory /\ n.panic = m.panic
      /\ n.reads = m.reads /\ n.reads_in_flight = m.reads_in_flight
      /\ n.writes = m.writes /\ n.writes_in_flight = m.writes_in_flight
      /\ n.write_queue = m.write_queue /\ n.writing = m.writing
      /\ n.faulty = m.faulty /\ n.ready_waiting = m.ready_waiting
      /\ n.checkpoint_waiting = checkpoint
  BY <1>3 DEF Memory
<1> HIDE DEF n
<1>5. y \in Components /\ y.m = n /\ y.disk = x.disk /\ y.io = x.io
  BY <1>4, NewMemory
<1> HIDE DEF y
<1>6. SameWork(x, y)
  BY <1>3, <1>4, <1>5 DEF SameWork
<1> QED BY <1>1, <1>3, <1>4, <1>5, <1>6 DEF y, Flagged

-----------------------------------------------------------------------------
(* The session table                                                        *)

\* The reply of the next op.
LEMMA NextReply ==
  ASSUME Table(sessions, op, registered), NEW r \in NextReplies
  PROVE  r \in Replies /\ r.op = op + 1 /\ r.client \in Clients
<1>1. op \in Nat /\ op + 1 \in Nat /\ registered \subseteq Clients
  BY DEF Table
<1>2. r \in [client : Clients, op : {op + 1}, body : BOOLEAN]
  BY <1>1 DEF NextReplies
<1> QED BY <1>1, <1>2 DEF Replies

\* There is a slot for a client without a session.
LEMMA NewSlotIsSlot ==
  ASSUME Table(sessions, op, registered)
  PROVE  NewSlot \in Slots
<1> DEFINE F == Slots \ Occupied
<1>1. Slots \subseteq Nat /\ 0 \in Slots
  BY RepliesAssumption DEF Slots
<1>2. CASE Occupied # Slots
  <2>1. F # {} /\ F \subseteq Nat /\ F \subseteq Slots
    BY <1>1, <1>2 DEF Occupied
  <2>2. PICK b \in F : \A c \in F : b <= c
    <3> HIDE DEF F
    <3> QED BY <2>1, LeastElement
  <2>3. NewSlot = CHOOSE d \in F : \A c \in F : d <= c
    BY <1>2 DEF NewSlot, Min
  <2> HIDE DEF F
  <2> QED BY <2>1, <2>2, <2>3
<1>3. CASE Occupied = Slots
  <2> DEFINE U == {sessions[s].op : s \in Slots}
  <2>1. \A s \in Slots : sessions[s] \in Replies
    BY <1>3 DEF Occupied, Table
  <2>2. U \subseteq Nat /\ U # {}
    BY <1>1, <2>1 DEF Replies
  <2>3. PICK b \in U : \A c \in U : b <= c
    <3> HIDE DEF U
    <3> QED BY <2>2, LeastElement
  <2>4. \E s \in Slots : \A e \in Slots : sessions[s].op <= sessions[e].op
    BY <2>3
  <2>5. NewSlot = CHOOSE s \in Slots : \A e \in Slots : sessions[s].op <= sessions[e].op
    BY <1>3 DEF NewSlot
  <2> QED BY <2>4, <2>5
<1> QED BY <1>2, <1>3

\* The entry of a reply is a new one, or that of its client, unless the session
\* was evicted.
LEMMA Entry ==
  ASSUME Table(sessions, op, registered), NEW r \in NextReplies
  PROVE  /\ EntryOf(r) \subseteq Slots
         /\ \A s, e \in EntryOf(r) : s = e
         /\ r.client \in registered =>
              EntryOf(r) = {s \in Slots : sessions[s] # None /\ sessions[s].client = r.client}
<1>1. CASE r.client \in registered
  <2>1. EntryOf(r) = {s \in Slots : sessions[s] # None /\ sessions[s].client = r.client}
    BY <1>1 DEF EntryOf, SlotOf, Occupied
  <2> QED BY <2>1 DEF Table
<1>2. CASE r.client \notin registered
  BY <1>2, NewSlotIsSlot DEF EntryOf
<1> QED BY <1>1, <1>2

\* The table after the reply.
Entered(r) == [s \in Slots |-> IF s \in EntryOf(r) THEN r ELSE sessions[s]]

\* It is a table, and the writes in flight are of its replies or of older ones.
LEMMA NewTable ==
  ASSUME Table(sessions, op, registered), NEW r \in NextReplies
  PROVE  /\ Table(Entered(r), op + 1, registered \cup {r.client})
         /\ \A w \in Writes : Recent(w, sessions, op, registered) =>
              Recent(w, Entered(r), op + 1, registered \cup {r.client})
<1> DEFINE u == Entered(r)
           Q == registered \cup {r.client}
           E == EntryOf(r)
<1>1. r \in Replies /\ r.op = op + 1 /\ r.client \in Clients /\ op \in Nat /\ r # None
  BY NextReply, NotNone DEF Table
<1>2. /\ E \subseteq Slots /\ \A s, e \in E : s = e
      /\ r.client \in registered =>
           E = {s \in Slots : sessions[s] # None /\ sessions[s].client = r.client}
  BY Entry
<1>3. \A s \in Slots : u[s] = IF s \in E THEN r ELSE sessions[s]
  BY DEF Entered
<1>4. u \in [Slots -> Replies \cup {None}]
  BY <1>1 DEF Entered, Table
<1>5. ASSUME NEW s \in Slots, u[s] # None, s \notin E
      PROVE  /\ u[s] = sessions[s] /\ sessions[s].client \in registered
             /\ sessions[s].op <= op /\ sessions[s].op \in Nat
             /\ sessions[s].client # r.client
  <2>1. u[s] = sessions[s] /\ sessions[s] # None
    BY <1>3, <1>5
  <2>2. sessions[s].client \in registered /\ sessions[s].op <= op /\ sessions[s] \in Replies
    BY <2>1 DEF Table
  <2>3. sessions[s].client # r.client
    BY <1>2, <1>5, <2>1, <2>2
  <2> QED BY <2>1, <2>2, <2>3 DEF Replies
<1> HIDE DEF u, E
<1>6. Table(u, op + 1, Q)
  <2>1. \A s \in Slots : u[s] # None => u[s].client \in Q /\ u[s].op <= op + 1
    BY <1>1, <1>3, <1>5
  <2>2. \A s, e \in Slots : u[s] # None /\ u[e] # None /\ u[s].client = u[e].client => s = e
    <3> SUFFICES ASSUME NEW s \in Slots, NEW e \in Slots, u[s] # None, u[e] # None,
                        u[s].client = u[e].client
                 PROVE  s = e
      OBVIOUS
    <3>1. CASE s \in E /\ e \in E
      BY <1>2, <3>1
    <3>2. CASE s \in E /\ e \notin E
      BY <1>3, <1>5, <3>2
    <3>3. CASE s \notin E /\ e \in E
      BY <1>3, <1>5, <3>3
    <3>4. CASE s \notin E /\ e \notin E
      BY <1>5, <3>4 DEF Table
    <3> QED BY <3>1, <3>2, <3>3, <3>4
  <2>3. registered \subseteq Clients
    BY DEF Table
  <2> QED BY <1>1, <1>4, <2>1, <2>2, <2>3 DEF Table
<1>7. ASSUME NEW w \in Writes, Recent(w, sessions, op, registered)
      PROVE  Recent(w, u, op + 1, Q)
  <2>1. w.reply.client \in registered /\ w.reply.op <= op /\ w.reply.op \in Nat
    BY <1>7, WriteFields DEF Recent
  <2>2. ASSUME NEW s \in Slots, u[s] # None, u[s].client = w.reply.client
        PROVE  /\ w.slot = s /\ w.reply.op <= u[s].op
               /\ w.reply.op = u[s].op => w.reply = u[s]
    <3>1. CASE s \in E
      <4>1. u[s] = r /\ r.client \in registered
        BY <1>3, <2>1, <2>2, <3>1
      <4>2. sessions[s] # None /\ sessions[s].client = w.reply.client
        BY <1>2, <2>2, <3>1, <4>1
      <4>3. w.slot = s
        BY <1>7, <4>2 DEF Recent
      <4> QED BY <1>1, <2>1, <4>1, <4>3
    <3>2. CASE s \notin E
      <4>1. u[s] = sessions[s]
        BY <1>5, <2>2, <3>2
      <4> QED BY <1>7, <2>2, <4>1 DEF Recent
    <3> QED BY <3>1, <3>2
  <2> QED BY <1>1, <2>1, <2>2 DEF Recent
<1> QED BY <1>6, <1>7 DEF u

-----------------------------------------------------------------------------
(* commit_execute                                                           *)

\* An assertion of the commit pipeline has failed.
Stopped(x) == x.m.panic \in {"commit", "checkpoint"}

\* Room for a reply, and the writes in flight are recent in the new table.
LEMMA RecordedKeeps ==
  ASSUME WritesMax <= 2, Table(sessions, op, registered),
         NEW x, Keeps(x, sessions, op, registered), x.m.panic = None, ReadySync(x.m),
         NEW r \in NextReplies, NEW s \in EntryOf(r)
  PROVE  LET y == Recorded(x, s, r) IN
         /\ y \in Components /\ y.m.ready_waiting = x.m.ready_waiting
         /\ \/ Stopped(y)
            \/ /\ y.m.panic = None
               /\ Keeps(y, Entered(r), op + 1, registered \cup {r.client})
<1> DEFINE u == Entered(r)
           Q == registered \cup {r.client}
<1>1. /\ s \in Slots /\ r \in Replies /\ r # None
      /\ u[s] = r /\ \A e \in Slots : e # s => u[e] = sessions[e]
  <2>1. s \in Slots /\ r \in Replies /\ \A e \in EntryOf(r) : e = s
    BY Entry, NextReply
  <2> QED BY <2>1, NotNone DEF Entered
<1>2. x \in Components /\ Writing(x)
  BY DEF Keeps
<1>3. /\ Table(u, op + 1, Q)
      /\ \A k \in Live(x.m) : Recent(Write(x.m, k), u, op + 1, Q)
  BY <1>2, NewTable, LiveWrite DEF Keeps, Contents
<1> HIDE DEF u, Q
<1>4. CASE r.body /\ ~x.m.checkpoint_waiting
  <2>1. Recorded(x, s, r) = WriteReply(x, s, r, "commit")
    BY <1>4 DEF Recorded
  <2>2. LET y == WriteReply(x, s, r, "commit") IN
        /\ Keeps(y, u, op + 1, Q) /\ y.m.panic = None
        /\ y.m.ready_waiting = x.m.ready_waiting
    BY <1>1, <1>3, <1>4, WriteReplyKeeps
  <2> QED BY <2>1, <2>2 DEF Keeps, u, Q
<1>5. CASE r.body /\ x.m.checkpoint_waiting
  <2> DEFINE y == Check(x, "commit", FALSE)
  <2>1. SameWork(x, y) /\ y.m.panic = "commit" /\ y.m.ready_waiting = x.m.ready_waiting
    BY <1>2, Fails
  <2>2. Check(x, "no write is free", ReadySync(x.m)) = x
    BY DEF Check
  <2>3. Check(x, "commit", ~x.m.checkpoint_waiting) = y
    BY <1>5
  <2> HIDE DEF y
  <2>4. y.m.panic # None
    BY <2>1, NotNone
  <2>5. WriteReply(x, s, r, "commit") = y
    BY <2>2, <2>3, <2>4 DEF WriteReply
  <2>6. Recorded(x, s, r) = y
    BY <1>5, <2>5 DEF Recorded
  <2> QED BY <2>1, <2>6 DEF Stopped, SameWork
<1>6. CASE ~r.body
  <2> DEFINE y == [x EXCEPT !.m.faulty = @ \ {s}]
  <2>1. /\ SameWork(x, y) /\ y.m.panic = x.m.panic /\ y.m.faulty = x.m.faulty \ {s}
        /\ y.m.ready_waiting = x.m.ready_waiting
    BY <1>2, Cleared
  <2>2. Recorded(x, s, r) = y
    BY <1>6 DEF Recorded
  <2> HIDE DEF y
  <2>3. ASSUME NEW e \in Slots, u[e] # None, u[e].body, e \notin y.m.faulty
        PROVE  u[e] = sessions[e] /\ e \notin x.m.faulty
    <3>1. e # s
      BY <1>1, <1>6, <2>3
    <3> QED BY <1>1, <2>1, <2>3, <3>1
  <2>4. Keeps(y, u, op + 1, Q)
    BY <1>3, <2>1, <2>3, SameWorkKeeps
  <2> QED BY <2>1, <2>2, <2>4 DEF Keeps, u, Q
<1> QED BY <1>4, <1>5, <1>6

\* The table of a reply that has no entry holds nothing new.
LEMMA UnrecordedKeeps ==
  ASSUME Table(sessions, op, registered),
         NEW x, Keeps(x, sessions, op, registered),
         NEW r \in NextReplies, EntryOf(r) = {}
  PROVE  Keeps(x, Entered(r), op + 1, registered \cup {r.client})
<1> DEFINE u == Entered(r)
           Q == registered \cup {r.client}
<1>1. x \in Components /\ Writing(x) /\ SameWork(x, x)
  BY DEF Keeps, SameWork
<1>2. \A k \in Live(x.m) : Recent(Write(x.m, k), u, op + 1, Q)
  BY <1>1, NewTable, LiveWrite DEF Keeps, Contents
<1>3. \A s \in Slots : u[s] = sessions[s]
  BY DEF Entered
<1> HIDE DEF u, Q
<1>4. Keeps(x, u, op + 1, Q)
  BY <1>1, <1>2, <1>3, SameWorkKeeps
<1> QED BY <1>4 DEF u, Q

\* A checkpoint does not touch the replies.
LEMMA CheckpointedKeeps ==
  ASSUME NEW x \in Components, x.m.panic = None \/ Stopped(x)
  PROVE  LET y == Checkpointed(x) IN
         /\ SameWork(x, y) /\ y.m.faulty = x.m.faulty
         /\ y.m.ready_waiting = x.m.ready_waiting
         /\ Stopped(y) \/ (y.m.panic = None /\ x.m.panic = None)
<1>1. CASE ~AtCheckpoint
  <2>1. Checkpointed(x) = x
    BY <1>1 DEF Checkpointed
  <2> QED BY <2>1 DEF SameWork
<1>2. CASE AtCheckpoint
  <2> DEFINE z == Check(x, "checkpoint", ~x.m.checkpoint_waiting)
             y == [z EXCEPT !.m.checkpoint_waiting = TRUE]
  <2>1. Checkpointed(x) = y
    BY <1>2 DEF Checkpointed
  <2>2. /\ SameWork(x, z) /\ z.m.faulty = x.m.faulty
        /\ z.m.ready_waiting = x.m.ready_waiting
        /\ Stopped(z) \/ (z.m.panic = None /\ x.m.panic = None)
    <3>1. CASE x.m.panic = None /\ x.m.checkpoint_waiting
      <4>1. z = Check(x, "checkpoint", FALSE)
        BY <3>1
      <4> HIDE DEF z
      <4> QED BY <3>1, <4>1, Fails DEF Stopped
    <3>2. CASE ~(x.m.panic = None /\ x.m.checkpoint_waiting)
      <4>1. z = x
        BY <3>2 DEF Check
      <4> HIDE DEF z
      <4> QED BY <4>1 DEF SameWork
    <3> QED BY <3>1, <3>2
  <2> HIDE DEF z
  <2> DEFINE n == [z.m EXCEPT !.checkpoint_waiting = TRUE]
  <2>3. z \in Components /\ z.m \in Memory
    BY <2>2, Fields DEF SameWork
  <2>4. y = [z EXCEPT !.m = n]
    OBVIOUS
  <2>5. /\ n \in Memory /\ n.panic = z.m.panic
        /\ n.reads = z.m.reads /\ n.reads_in_flight = z.m.reads_in_flight
        /\ n.writes = z.m.writes /\ n.writes_in_flight = z.m.writes_in_flight
        /\ n.write_queue = z.m.write_queue /\ n.writing = z.m.writing
        /\ n.faulty = z.m.faulty /\ n.ready_waiting = z.m.ready_waiting
    BY <2>3 DEF Memory
  <2> HIDE DEF n, y
  <2>6. y \in Components /\ y.m = n /\ y.disk = z.disk /\ y.io = z.io
    BY <2>3, <2>4, <2>5, NewMemory
  <2> QED BY <2>1, <2>2, <2>5, <2>6 DEF SameWork, Stopped
<1> QED BY <1>1, <1>2

-----------------------------------------------------------------------------
(* The steps                                                                *)

\* The next state of the component.
LEMMA Becomes ==
  ASSUME NEW y \in Components, Become(y)
  PROVE  State' = y
BY DEF Become, State, Components

\* A pipeline whose parts stay is one.
LEMMA PipelineStays ==
  ASSUME Pipeline, UNCHANGED <<op, registered, commit>>,
         replies'.ready_waiting => replies.ready_waiting
  PROVE  Pipeline'
BY DEF Pipeline, Parked, NextReplies, Setup, Idle, Superblock

\* The process stops with the component as it was.
LEMMA PanicStep ==
  ASSUME IInv, NEW z, Stopped(z), Panic(z)
  PROVE  IInv'
<1> DEFINE n == [replies EXCEPT !.panic = z.m.panic]
           x == State
           y == [x EXCEPT !.m = n]
<1>1. x \in Components /\ Keeps(x, sessions, op, registered) /\ x.m = replies
      /\ x.disk = disk /\ x.io = io
  BY DEF IInv, Keeps, State
<1>2. replies \in Memory
  BY <1>1, Fields
<1>3. /\ n \in Memory
      /\ n.reads = replies.reads /\ n.reads_in_flight = replies.reads_in_flight
      /\ n.writes = replies.writes /\ n.writes_in_flight = replies.writes_in_flight
      /\ n.write_queue = replies.write_queue /\ n.writing = replies.writing
      /\ n.faulty = replies.faulty /\ n.ready_waiting = replies.ready_waiting
  BY <1>2 DEF Memory, Stopped
<1>4. replies' = n /\ UNCHANGED <<sessions, registered, op, commit, disk, io>>
  BY DEF Panic
<1> HIDE DEF n, x
<1>5. y \in Components /\ y.m = n /\ y.disk = x.disk /\ y.io = x.io
  BY <1>1, <1>3, NewMemory
<1> HIDE DEF y
<1>6. SameWork(x, y) /\ y.m.faulty = x.m.faulty
  BY <1>1, <1>3, <1>5 DEF SameWork
<1>7. \A k \in Live(x.m) : Recent(Write(x.m, k), sessions, op, registered)
  BY <1>1 DEF Keeps, Contents
<1>8. Keeps(y, sessions, op, registered)
  BY <1>1, <1>6, <1>7, SameWorkKeeps
<1>9. State' = y
  BY <1>1, <1>4, <1>5 DEF State, Components
<1>10. Keeps(State, sessions, op, registered)'
  BY <1>4, <1>8, <1>9
<1>11. Table(sessions, op, registered)'
  BY <1>4 DEF IInv
<1>12. Pipeline'
  BY <1>3, <1>4, PipelineStays DEF IInv
<1> QED BY <1>10, <1>11, <1>12 DEF IInv

\* commit_execute, when there is room for the reply and nobody waits.
LEMMA ExecuteStep ==
  ASSUME WritesMax <= 2, IInv,
         NEW x, Keeps(x, sessions, op, registered), x.m.panic = None,
         ReadySync(x.m), ~x.m.ready_waiting, NEW r \in NextReplies, Execute(x, r)
  PROVE  IInv'
<1> DEFINE entry == EntryOf(r)
           u == Entered(r)
           Q == registered \cup {r.client}
           y == IF entry = {} THEN x ELSE Recorded(x, CHOOSE s \in entry : TRUE, r)
           z == Checkpointed(y)
<1>1. Table(sessions, op, registered)
  BY DEF IInv
<1>2. /\ y \in Components /\ ~y.m.ready_waiting
      /\ Stopped(y) \/ (y.m.panic = None /\ Keeps(y, u, op + 1, Q))
  <2>1. CASE entry = {}
    <3>1. x \in Components /\ y = x
      BY <2>1 DEF Keeps
    <3>2. Keeps(x, u, op + 1, Q)
      BY <1>1, <2>1, UnrecordedKeeps
    <3> QED BY <3>1, <3>2
  <2>2. CASE entry # {}
    <3> DEFINE s == CHOOSE s \in entry : TRUE
    <3>1. s \in entry /\ y = Recorded(x, s, r)
      BY <2>2
    <3> HIDE DEF s, y
    <3> QED BY ZenonT(60), <1>1, <3>1, RecordedKeeps
  <2> QED BY <2>1, <2>2
<1>3. /\ IF z.m.panic # None THEN Panic(z)
         ELSE /\ op' = op + 1 /\ registered' = Q /\ sessions' = u
              /\ commit' = IF AtCheckpoint THEN Superblock ELSE Idle
              /\ Become(z)
  BY DEF Execute, Entered
<1> HIDE DEF y
<1>4. /\ SameWork(y, z) /\ z.m.faulty = y.m.faulty /\ ~z.m.ready_waiting
      /\ Stopped(z) \/ (z.m.panic = None /\ y.m.panic = None)
  BY <1>2, CheckpointedKeeps
<1> HIDE DEF z
<1>5. CASE z.m.panic # None
  BY <1>3, <1>4, <1>5, PanicStep
<1>6. CASE z.m.panic = None
  <2>1. ~Stopped(z) /\ ~Stopped(y) /\ Keeps(y, u, op + 1, Q)
    BY <1>2, <1>4, <1>6, NotNone DEF Stopped
  <2>2. \A k \in Live(y.m) : Recent(Write(y.m, k), u, op + 1, Q)
    BY <2>1 DEF Keeps, Contents
  <2>3. Keeps(z, u, op + 1, Q)
    BY <1>4, <2>1, <2>2, SameWorkKeeps
  <2>4. /\ op' = op + 1 /\ registered' = Q /\ sessions' = u
        /\ commit' = (IF AtCheckpoint THEN Superblock ELSE Idle)
        /\ Become(z)
    BY <1>3, <1>6
  <2>5. State' = z /\ replies' = z.m
    BY <1>4, <2>4, Becomes DEF SameWork, Become
  <2>6. Keeps(State, sessions, op, registered)'
    BY <2>3, <2>4, <2>5
  <2>7. Table(sessions, op, registered)'
    BY <1>1, <2>4, NewTable
  <2>8. Pipeline'
    BY <1>4, <2>4, <2>5 DEF Pipeline, Idle, Superblock
  <2> QED BY <2>6, <2>7, <2>8 DEF IInv
<1> QED BY <1>5, <1>6

\* A step that changes the component alone, and perhaps where the pipeline is.
LEMMA KeepsStep ==
  ASSUME IInv, NEW y, Keeps(y, sessions, op, registered), Become(y),
         UNCHANGED <<sessions, registered, op>>, Pipeline'
  PROVE  IInv'
<1>1. State' = y
  BY Becomes DEF Keeps
<1>2. Keeps(State, sessions, op, registered)'
  BY <1>1
<1>3. Table(sessions, op, registered)'
  BY DEF IInv
<1> QED BY <1>2, <1>3 DEF IInv

\* The stages of the pipeline are different.
LEMMA Stages ==
  /\ Idle # Superblock
  /\ \A r : /\ Setup(r) # Idle /\ Setup(r) # Superblock
            /\ Setup(r).reply = r
BY DEF Idle, Superblock, Setup

\* Nobody waits for room when the pipeline is not parked for it.
LEMMA NobodyWaits ==
  ASSUME Pipeline, commit = Idle \/ commit = Superblock
  PROVE  ~replies.ready_waiting
BY Stages DEF Pipeline, Parked

\* The component as it is.
LEMMA Now ==
  ASSUME IInv
  PROVE  /\ Table(sessions, op, registered) /\ Pipeline
         /\ State \in Components /\ Keeps(State, sessions, op, registered)
         /\ State.m = replies /\ State.disk = disk /\ State.io = io
         /\ \A k \in Live(replies) : Recent(Write(replies, k), sessions, op, registered)
<1>1. State.m = replies /\ State.disk = disk /\ State.io = io
  BY DEF State
<1> HIDE DEF State
<1> QED BY <1>1 DEF IInv, Keeps, Contents

\* commit_reply_setup, and commit_execute when there is room.
LEMMA CommitStep ==
  ASSUME WritesMax <= 2, IInv, Commit
  PROVE  IInv'
<1> DEFINE x == State
<1>1. PICK r \in NextReplies : Parks(r) \/ (ReadySync(replies) /\ Execute(State, r))
  BY DEF Commit
<1>2. replies.panic = None /\ commit = Idle
  BY DEF Commit, Running
<1>3. /\ Keeps(x, sessions, op, registered) /\ x \in Components /\ x.m = replies
      /\ x.disk = disk /\ x.io = io /\ ~replies.ready_waiting
      /\ \A k \in Live(x.m) : Recent(Write(x.m, k), sessions, op, registered)
  BY <1>2, Now, NobodyWaits
<1>4. CASE Parks(r)
  <2> DEFINE n == [replies EXCEPT !.ready_waiting = TRUE]
             y == [x EXCEPT !.m = n]
  <2>1. /\ n \in Memory
        /\ n.reads = replies.reads /\ n.reads_in_flight = replies.reads_in_flight
        /\ n.writes = replies.writes /\ n.writes_in_flight = replies.writes_in_flight
        /\ n.write_queue = replies.write_queue /\ n.writing = replies.writing
        /\ n.faulty = replies.faulty
    <3>1. replies \in Memory
      BY <1>3, Fields
    <3> QED BY <3>1 DEF Memory
  <2>2. replies' = n /\ commit' = Setup(r) /\ UNCHANGED <<sessions, registered, op, disk, io>>
    BY <1>4 DEF Parks
  <2> HIDE DEF n, x
  <2>3. y \in Components /\ y.m = n /\ y.disk = disk /\ y.io = io
    BY <1>3, <2>1, NewMemory
  <2> HIDE DEF y
  <2>4. SameWork(x, y) /\ y.m.faulty = x.m.faulty
    BY <1>3, <2>1, <2>3 DEF SameWork
  <2>5. Keeps(y, sessions, op, registered)
    BY <1>3, <2>4, SameWorkKeeps
  <2>6. Become(y)
    BY <2>2, <2>3 DEF Become
  <2>7. Pipeline'
    <3>1. r \in NextReplies'
      BY <2>2 DEF NextReplies
    <3>2. commit' = Setup(r)'
      BY <2>2 DEF Setup
    <3> QED BY <3>1, <3>2 DEF Pipeline, Parked
  <2> QED BY <2>2, <2>5, <2>6, <2>7, KeepsStep
<1>5. CASE ReadySync(replies) /\ Execute(State, r)
  <2> HIDE DEF x
  <2>1. Execute(x, r)
    BY <1>5 DEF x
  <2> QED BY <1>2, <1>3, <1>5, <2>1, ExecuteStep
<1> QED BY <1>1, <1>4, <1>5

\* The end of a checkpoint.
LEMMA SuperblockDoneStep ==
  ASSUME IInv, SuperblockDone
  PROVE  IInv'
<1>1. /\ commit = Superblock /\ commit' = Idle
      /\ UNCHANGED <<sessions, registered, op, replies, disk, io>>
  BY DEF SuperblockDone
<1>2. ~replies.ready_waiting
  BY <1>1, Now, NobodyWaits
<1>3. Pipeline'
  BY <1>1, <1>2 DEF Pipeline, Idle
<1>4. Become(State)
  BY <1>1 DEF Become, State
<1> QED BY <1>1, <1>3, <1>4, Now, KeepsStep

\* poll_client_replies.
LEMMA PollStep ==
  ASSUME WritesMax <= 2, IInv, Poll
  PROVE  IInv'
<1> DEFINE Flags(x) == [x EXCEPT !.m.ready_waiting = @ /\ ~Notified(x.m),
                                 !.m.checkpoint_waiting = @ /\ CommitWrites(x.m) # {}]
           Goes(x, y) == IF x.m.panic # None THEN Panic(x)
                         ELSE IF Notified(x.m) THEN Execute(y, commit.reply)
                         ELSE Become(y) /\ UNCHANGED <<sessions, registered, op, commit>>
           Until == 0 .. Len(replies.reads_in_flight) + Len(replies.writes_in_flight)
<1>1. PICK l \in Until : Goes(Drained(State, l), Flags(Drained(State, l)))
  <2>1. \E l \in Until : \E x \in {Drained(State, l)} : \E y \in {Flags(x)} : Goes(x, y)
    BY Zenon DEF Poll
  <2> HIDE DEF Flags, Goes, Until
  <2> QED BY <2>1
<1> DEFINE x == Drained(State, l)
           ready == x.m.ready_waiting /\ ~Notified(x.m)
           checkpoint == x.m.checkpoint_waiting /\ CommitWrites(x.m) # {}
           y == Flagged(x, ready, checkpoint)
<1>2. Flags(x) = y
  <2> HIDE DEF x
  <2> QED BY DEF Flagged
<1>3. /\ Keeps(x, sessions, op, registered) /\ x.m.panic = None
      /\ x.m.ready_waiting = replies.ready_waiting
  <2>1. l \in Nat /\ State.m.panic = None
    <3>1. /\ replies.reads_in_flight \in Seq(1 .. ReadsMax)
          /\ replies.writes_in_flight \in Seq(1 .. WritesMax)
      BY Now, Fields
    <3> QED BY <3>1, Now DEF Poll, Running
  <2> HIDE DEF x
  <2> QED BY <2>1, Now, DrainedKeeps DEF x
<1>4. IF Notified(x.m) THEN Execute(y, commit.reply)
      ELSE Become(y) /\ UNCHANGED <<sessions, registered, op, commit>>
  <2>1. Goes(x, y)
    <3> HIDE DEF y, Flags, Goes
    <3> QED BY <1>1, <1>2
  <2> HIDE DEF x, y
  <2> QED BY <1>3, <2>1
<1> HIDE DEF x
<1>5. x \in Components /\ ready \in BOOLEAN /\ checkpoint \in BOOLEAN
  <2>1. x \in Components
    BY <1>3 DEF Keeps
  <2> QED BY <2>1
<1>6. /\ SameWork(x, y) /\ y.m.panic = x.m.panic /\ y.m.faulty = x.m.faulty
      /\ y.m.ready_waiting = ready
  <2> HIDE DEF ready, checkpoint
  <2> QED BY <1>5, FlaggedWorks
<1> HIDE DEF y
<1>7. Keeps(y, sessions, op, registered)
  <2>1. \A k \in Live(x.m) : Recent(Write(x.m, k), sessions, op, registered)
    BY <1>3 DEF Keeps, Contents
  <2> QED BY <1>3, <1>6, <2>1, SameWorkKeeps
<1>8. CASE Notified(x.m)
  <2>1. replies.ready_waiting /\ ReadySync(x.m)
    BY <1>3, <1>8 DEF Notified
  <2>2. PICK r \in NextReplies : commit = Setup(r)
    BY <2>1, Now DEF Pipeline, Parked
  <2>3. commit.reply = r
    BY <2>2, Stages
  <2>4. Execute(y, r)
    BY <1>4, <1>8, <2>3
  <2>5. ~y.m.ready_waiting /\ ReadySync(y.m)
    BY <1>6, <1>8, <2>1 DEF SameWork, ReadySync
  <2> QED BY <1>3, <1>6, <1>7, <2>4, <2>5, ExecuteStep
<1>9. CASE ~Notified(x.m)
  <2>1. Become(y) /\ UNCHANGED <<sessions, registered, op, commit>>
    BY <1>4, <1>9
  <2>2. replies' = y.m
    BY <2>1 DEF Become
  <2>3. Pipeline'
    BY <1>3, <1>6, <2>1, <2>2, Now, PipelineStays
  <2> QED BY <1>7, <2>1, <2>3, KeepsStep
<1> QED BY <1>8, <1>9

\* Of the writes of a slot that is being written one is the last.
LEMMA LastWrite ==
  ASSUME WritesMax <= 2, NEW x \in Components, Writing(x), NEW s \in x.m.writing
  PROVE  \E k \in Live(x.m) : /\ Write(x.m, k).slot = s
                              /\ \A l \in Live(x.m) : k < l => Write(x.m, l).slot # s
<1> DEFINE U == {k \in Live(x.m) : Write(x.m, k).slot = s}
           n == Len(x.m.writes_in_flight)
<1>1. n \in Nat
  <2>1. x.m.writes_in_flight \in Seq(1 .. WritesMax)
    BY Fields
  <2> QED BY <2>1
<1>2. U # {} /\ U \subseteq 0 .. n
  <2>1. x.m.writing = {Write(x.m, k).slot : k \in Live(x.m)}
    BY DEF Writing
  <2>2. U # {}
    BY <2>1
  <2>3. Live(x.m) \subseteq 0 .. n
    <3>1. Live(x.m) = 1 .. n
      BY DEF Live
    <3> HIDE DEF n
    <3> QED BY <1>1, <3>1
  <2> HIDE DEF n
  <2> QED BY <2>2, <2>3
<1>3. PICK k \in U : \A l \in U : k >= l
  <2> HIDE DEF U, n
  <2> QED BY <1>1, <1>2, GreatestElement
<1>4. \A l \in Live(x.m) : k < l => l \notin U
  <2>1. \A l \in U : l \in Nat
    <3> HIDE DEF U, n
    <3> QED BY <1>1, <1>2
  <2> QED BY <1>3, <2>1
<1> QED BY <1>3, <1>4

\* The newest write of the client of a slot that is not faulty is its reply.
LEMMA LatestIsReply ==
  ASSUME WritesMax <= 2, NEW x, NEW t, NEW n, NEW R, Table(t, n, R), Keeps(x, t, n, R),
         NEW s \in Slots, t[s] # None, t[s].body, s \in x.m.writing, s \notin x.m.faulty,
         NEW w \in Latest(x.m, t[s])
  PROVE  w.reply = t[s]
<1> DEFINE r == t[s]
           q == x.m.writes_in_flight
<1>1. x \in Components /\ Writing(x) /\ Contents(x, t, n, R) /\ r \in Replies
  BY DEF Keeps, Table
<1>2. PICK k \in Live(x.m) : /\ Write(x.m, k).slot = s
                             /\ \A l \in Live(x.m) : k < l => Write(x.m, l).slot # s
  BY <1>1, LastWrite
<1>3. Write(x.m, k).reply = r /\ Write(x.m, k) \in Writes
  <2>1. Holds(x, s, r)
    BY <1>1 DEF Contents
  <2> QED BY <1>1, <1>2, <2>1, LiveWrite DEF Holds
<1>4. \A i : i \in Range(q) <=> \E l \in Live(x.m) : i = q[l]
  <2>1. q \in Seq(1 .. WritesMax)
    BY <1>1, Fields
  <2>2. DOMAIN q = Live(x.m)
    BY <2>1 DEF Live
  <2> QED BY <2>2 DEF Range
<1>5. Write(x.m, k) \in InFlight(x.m, r.client)
  <2>1. q[k] \in Range(q) /\ x.m.writes[q[k]] = Write(x.m, k)
    BY <1>2, <1>4 DEF Write
  <2>2. Write(x.m, k) # None
    BY <1>3, NotNone
  <2> QED BY <1>3, <2>1, <2>2 DEF InFlight
<1>6. PICK l \in Live(x.m) : w = Write(x.m, l) /\ w.reply.client = r.client
  BY <1>4 DEF Latest, InFlight, Write
<1>7. r.op <= w.reply.op
  BY <1>3, <1>5 DEF Latest
<1>8. w.reply.op <= r.op /\ (w.reply.op = r.op => w.reply = r)
  BY <1>1, <1>6 DEF Contents, Recent
<1>9. w.reply.op \in Nat /\ r.op \in Nat
  BY <1>1, <1>6, LiveWrite, WriteFields DEF Replies
<1> QED BY <1>7, <1>8, <1>9

\* What the start of a read does.
ReadBegun(x, i, v, f) ==
  LET m == [x.m EXCEPT !.reads[i] = v, !.reads_in_flight = Append(@, i)]
  IN [x EXCEPT !.m = m, !.io = Append(@, [type |-> "read", found |-> f])]

\* A read that begins keeps the component.
LEMMA ReadBegins ==
  ASSUME NEW x, NEW t, NEW n, NEW R, Keeps(x, t, n, R),
         NEW i \in 1 .. ReadsMax, x.m.reads[i] = None, NEW v \in Reads, NEW f \in OnDisk
  PROVE  LET y == ReadBegun(x, i, v, f) IN
         Keeps(y, t, n, R) /\ y.m.ready_waiting = x.m.ready_waiting
<1> DEFINE q == x.m.reads_in_flight
           p == Append(q, i)
           a == [x.m.reads EXCEPT ![i] = v]
           m == [x.m EXCEPT !.reads = a]
           k == [m EXCEPT !.reads_in_flight = p]
           e == [type |-> "read", found |-> f]
           c == Append(x.io, e)
           y == [m |-> k, disk |-> x.disk, io |-> c]
<1>1. /\ x \in Components /\ Reading(x) /\ Writing(x) /\ Contents(x, t, n, R)
      /\ q \in Seq(1 .. ReadsMax) /\ x.m.reads \in [1 .. ReadsMax -> Reads \cup {None}]
      /\ x.m \in Memory /\ x.io \in Seq(Completions) /\ x.disk \in [Slots -> OnDisk]
  BY Fields DEF Keeps
<1>2. [x.m EXCEPT !.reads[i] = v, !.reads_in_flight = Append(@, i)] = k
  BY <1>1 DEF Memory
<1>3. a \in [1 .. ReadsMax -> Reads \cup {None}] /\ p \in Seq(1 .. ReadsMax)
  BY <1>1
<1>4. e \in Completions /\ e.type = "read"
  BY DEF Completions
<1>5. c \in Seq(Completions) /\ Count(c, "read") = Count(x.io, "read") + 1
      /\ Count(c, "write") = Count(x.io, "write")
  <2> HIDE DEF e
  <2>1. e.type # "write"
    BY <1>4
  <2> QED BY <1>1, <1>4, <2>1, CountAppend
<1>6. [x EXCEPT !.m = k, !.io = Append(@, e)] = y
  <2> HIDE DEF k, e
  <2>1. [x EXCEPT !.m = k, !.io = c] = y
    <3> HIDE DEF c
    <3> QED BY <1>1, NewState
  <2> QED BY <2>1
<1> HIDE DEF a, c, e
<1>7. m \in Memory /\ m.reads = a /\ m.reads_in_flight = q
      /\ m.writes = x.m.writes /\ m.writes_in_flight = x.m.writes_in_flight
      /\ m.write_queue = x.m.write_queue /\ m.writing = x.m.writing
      /\ m.faulty = x.m.faulty /\ m.ready_waiting = x.m.ready_waiting
  BY <1>1, <1>3 DEF Memory
<1> HIDE DEF m, p
<1>8. k \in Memory /\ k.reads = a /\ k.reads_in_flight = p
      /\ k.writes = x.m.writes /\ k.writes_in_flight = x.m.writes_in_flight
      /\ k.write_queue = x.m.write_queue /\ k.writing = x.m.writing
      /\ k.faulty = x.m.faulty /\ k.ready_waiting = x.m.ready_waiting
  BY <1>3, <1>7 DEF Memory
<1> HIDE DEF k
<1>9. y \in Components /\ y.m = k /\ y.disk = x.disk /\ y.io = c
  BY <1>1, <1>5, <1>8 DEF Components
<1> HIDE DEF y
<1>10. /\ Live(y.m) = Live(x.m) /\ \A l : Write(y.m, l) = Write(x.m, l)
       /\ Waits(y.m) <=> Waits(x.m)
  BY <1>8, <1>9 DEF Live, Write, Waits
<1>11. Writing(y)
  <2>1. /\ y.m.writes = x.m.writes /\ y.m.writes_in_flight = x.m.writes_in_flight
        /\ y.m.write_queue = x.m.write_queue /\ y.m.writing = x.m.writing
        /\ Count(y.io, "write") = Count(x.io, "write")
    BY <1>5, <1>8, <1>9
  <2>2. Writing(x)
    BY <1>1
  <2>3. /\ Len(y.m.writes_in_flight) <= WritesMax
        /\ \A l \in Live(y.m) : Write(y.m, l) # None
        /\ \A l, j \in Live(y.m) : y.m.writes_in_flight[l] = y.m.writes_in_flight[j] => l = j
        /\ \A j \in 1 .. WritesMax :
             y.m.writes[j] # None => \E l \in Live(y.m) : y.m.writes_in_flight[l] = j
    BY <1>10, <2>1, <2>2 DEF Writing
  <2>4. y.m.writing = {Write(y.m, l).slot : l \in Live(y.m)}
    BY <1>10, <2>1, <2>2 DEF Writing
  <2>5. /\ y.m.write_queue = IF Waits(y.m) THEN <<y.m.writes_in_flight[2]>> ELSE <<>>
        /\ Count(y.io, "write") = IF Waits(y.m) THEN 1 ELSE Len(y.m.writes_in_flight)
    BY <1>10, <2>1, <2>2 DEF Writing
  <2> QED BY <2>3, <2>4, <2>5 DEF Writing
<1>12. Contents(y, t, n, R)
  <2>1. \A s, r : Holds(x, s, r) => Holds(y, s, r)
    BY <1>8, <1>9, <1>10 DEF Holds
  <2> QED BY <1>1, <1>8, <1>9, <1>10, <2>1 DEF Contents
<1>13. Reading(y)
  <2>1. /\ Len(p) = Len(q) + 1 /\ p[Len(q) + 1] = i /\ Len(q) \in Nat
        /\ \A l \in 1 .. Len(q) : p[l] = q[l] /\ q[l] \in 1 .. ReadsMax
    <3>1. q \in Seq(1 .. ReadsMax) /\ p = Append(q, i)
      BY <1>1 DEF p
    <3>2. \A l \in 1 .. Len(q) : q[l] \in 1 .. ReadsMax
      BY <3>1, ElementOfSeq
    <3> HIDE DEF q
    <3> QED BY <3>1, <3>2
  <2>2. /\ \A l \in 1 .. Len(q) : x.m.reads[q[l]] # None
        /\ \A l, j \in 1 .. Len(q) : q[l] = q[j] => l = j
        /\ Count(x.io, "read") = Len(q)
    BY <1>1 DEF Reading, Read
  <2> HIDE DEF q
  <2>3. \A l \in 1 .. Len(q) : q[l] # i
    BY <2>2
  <2>4. a[i] = v /\ v # None /\ \A l \in 1 .. ReadsMax : l # i => a[l] = x.m.reads[l]
    BY <1>1, NotNone DEF a
  <2>5. \A l \in 1 .. Len(p) : l \in 1 .. Len(q) \/ l = Len(q) + 1
    BY <2>1
  <2>6. \A l \in 1 .. Len(p) : a[p[l]] # None
    BY SMTT(30), <2>1, <2>2, <2>3, <2>4, <2>5
  <2>7. \A l, j \in 1 .. Len(p) : p[l] = p[j] => l = j
    BY <2>1, <2>2, <2>3, <2>5
  <2>8. Count(c, "read") = Len(p)
    BY <1>5, <2>1, <2>2
  <2> QED BY <1>8, <1>9, <2>6, <2>7, <2>8 DEF Reading, Read
<1>14. Keeps(y, t, n, R) /\ y.m.ready_waiting = x.m.ready_waiting
  BY <1>8, <1>9, <1>11, <1>12, <1>13 DEF Keeps
<1> QED BY <1>2, <1>6, <1>14 DEF e, ReadBegun

\* on_request_repeat_reply and on_get_reply: the write in flight that they meet
\* is the reply, or the slot is faulty.
LEMMA ReadReplyStep ==
  ASSUME WritesMax <= 2, IInv, NEW s \in Slots, ReadReply(s)
  PROVE  IInv'
<1> DEFINE r == sessions[s]
           x == State
           found == IF s \in replies.writing THEN Latest(replies, r) ELSE {}
           i == Free(replies.reads)
           v == [slot |-> s, reply |-> r, wanted |-> TRUE]
           y == ReadBegun(x, i, v, disk[s])
           z == Check(x, "another write in flight",
                      (\A w \in found : w.reply = r) \/ s \in replies.faulty)
<1>1. /\ Table(sessions, op, registered) /\ Pipeline
      /\ x \in Components /\ Keeps(x, sessions, op, registered)
      /\ x.m = replies /\ x.disk = disk /\ x.io = io
  BY Now
<1>2. /\ replies.panic = None /\ s \in Occupied /\ r.body
      /\ IF z.m.panic # None THEN Become(z)
         ELSE None \in Range(replies.reads)
              /\ Become([z EXCEPT !.m = [z.m EXCEPT !.reads[i] = v,
                                                    !.reads_in_flight = Append(@, i)],
                         !.io = Append(@, [type |-> "read", found |-> disk[s]])])
      /\ UNCHANGED <<sessions, registered, op, commit, faults>>
  BY DEF ReadReply, Running
<1>3. r # None /\ r \in Replies
  BY <1>1, <1>2 DEF Occupied, Table
<1>4. (\A w \in found : w.reply = r) \/ s \in replies.faulty
  <2> SUFFICES ASSUME NEW w \in found, s \notin replies.faulty PROVE w.reply = r
    OBVIOUS
  <2>1. s \in replies.writing /\ w \in Latest(replies, r)
    OBVIOUS
  <2> HIDE DEF found, x
  <2>2. /\ s \in x.m.writing /\ s \notin x.m.faulty /\ w \in Latest(x.m, sessions[s])
        /\ sessions[s] # None /\ sessions[s].body
    BY <1>1, <1>2, <1>3, <2>1
  <2>3. Table(sessions, op, registered) /\ Keeps(x, sessions, op, registered)
    BY <1>1
  <2> QED BY <2>2, <2>3, LatestIsReply
<1>5. z = x
  BY <1>4 DEF Check
<1>6. None \in Range(replies.reads) /\ Become(y)
  <2> HIDE DEF z, x
  <2> QED BY <1>1, <1>2, <1>5 DEF ReadBegun
<1>7. i \in 1 .. ReadsMax /\ replies.reads[i] = None
  <2>1. ReadsMax \in Nat /\ replies.reads \in [1 .. ReadsMax -> Reads \cup {None}]
    BY <1>1, Fields, RepliesAssumption
  <2>2. \E k \in 1 .. ReadsMax : replies.reads[k] = None
    BY <1>6, <2>1 DEF Range
  <2> QED BY <2>1, <2>2, FreeOne
<1>8. v \in Reads /\ disk[s] \in OnDisk
  BY <1>1, <1>3, Fields DEF Reads
<1>9. Keeps(y, sessions, op, registered) /\ y.m.ready_waiting = replies.ready_waiting
  <2> HIDE DEF x, v, i
  <2> QED BY <1>1, <1>7, <1>8, ReadBegins
<1>10. Pipeline'
  <2> HIDE DEF y
  <2>1. replies' = y.m
    BY <1>6 DEF Become
  <2> QED BY <1>1, <1>2, <1>9, <2>1, PipelineStays
<1> HIDE DEF y
<1> QED BY <1>2, <1>6, <1>9, <1>10, KeepsStep

\* on_reply: the reply of a faulty slot is written.
LEMMA OnReplyStep ==
  ASSUME WritesMax <= 2, IInv, NEW s \in Slots, OnReply(s)
  PROVE  IInv'
<1> DEFINE r == sessions[s]
           x == State
           y == WriteReply(x, s, r, "repair")
<1>1. /\ Table(sessions, op, registered) /\ Pipeline
      /\ Keeps(x, sessions, op, registered) /\ x.m = replies
      /\ \A k \in Live(x.m) : Recent(Write(x.m, k), sessions, op, registered)
  BY Now
<1>2. /\ replies.panic = None /\ s \in Occupied /\ s \in replies.faulty /\ ReadySync(replies)
      /\ Become(y) /\ UNCHANGED <<sessions, registered, op, commit, faults>>
  BY DEF OnReply, Running
<1>3. r \in Replies
  BY <1>1, <1>2 DEF Occupied, Table
<1>4. Keeps(y, sessions, op, registered) /\ y.m.ready_waiting = replies.ready_waiting
  <2> HIDE DEF x
  <2> QED BY <1>1, <1>2, <1>3, WriteReplyKeeps
<1> HIDE DEF y
<1>5. replies' = y.m
  BY <1>2 DEF Become
<1>6. Pipeline'
  BY <1>1, <1>2, <1>4, <1>5, PipelineStays
<1> QED BY <1>2, <1>4, <1>6, KeepsStep

\* A slot that decays holds no other reply.
LEMMA DecayStep ==
  ASSUME IInv, NEW s \in Slots, Decay(s)
  PROVE  IInv'
<1> DEFINE x == State
           y == [m |-> replies, disk |-> [disk EXCEPT ![s] = Corrupt], io |-> io]
<1>1. /\ Pipeline /\ x \in Components
      /\ Reading(x) /\ Writing(x) /\ Contents(x, sessions, op, registered)
      /\ x.m = replies /\ x.disk = disk /\ x.io = io
  BY Now DEF Keeps
<1>2. disk' = [disk EXCEPT ![s] = Corrupt]
      /\ UNCHANGED <<sessions, registered, op, commit, replies, io>>
  BY DEF Decay
<1>3. y \in Components /\ Become(y)
  BY <1>1, <1>2, Fields DEF Components, OnDisk, Become
<1>4. /\ y.m = x.m /\ y.io = x.io
      /\ \A e \in Slots : y.disk[e] = x.disk[e] \/ y.disk[e] = Corrupt
  BY <1>1, Fields
<1> HIDE DEF x, y
<1>5. Reading(y) /\ Writing(y)
  BY <1>1, <1>4 DEF Reading, Writing
<1>6. \A e \in Slots : \A r : Holds(x, e, r) => Holds(y, e, r)
  BY <1>4 DEF Holds
<1>7. \A k \in Live(x.m) : Write(x.m, k).slot \in Slots
  BY <1>1, LiveWrite, WriteFields
<1>8. Contents(y, sessions, op, registered)
  BY <1>1, <1>4, <1>6, <1>7 DEF Contents
<1>9. Keeps(y, sessions, op, registered)
  BY <1>3, <1>5, <1>8 DEF Keeps
<1>10. Pipeline'
  BY <1>1, <1>2, PipelineStays
<1> QED BY <1>2, <1>3, <1>9, <1>10, KeepsStep

\* Nothing has been asked of the storage.
LEMMA Starts ==
  ASSUME Init
  PROVE  IInv
<1> DEFINE x == State
<1>1. /\ sessions = [s \in Slots |-> None] /\ registered = {}
      /\ op = 0 /\ commit = Idle /\ replies = NewReplies
      /\ disk = [s \in Slots |-> None] /\ io = <<>>
  BY DEF Init
<1>2. Table(sessions, op, registered)
  BY <1>1 DEF Table
<1>3. /\ replies.reads = [k \in 1 .. ReadsMax |-> None] /\ replies.reads_in_flight = <<>>
      /\ replies.writes = [k \in 1 .. WritesMax |-> None]
      /\ replies.writes_in_flight = <<>> /\ replies.write_queue = <<>>
      /\ replies.writing = {} /\ replies.faulty = {}
      /\ replies.ready_waiting = FALSE /\ replies.checkpoint_waiting = FALSE
      /\ replies.panic = None
      /\ replies = [reads |-> replies.reads, reads_in_flight |-> replies.reads_in_flight,
                    writes |-> replies.writes,
                    writes_in_flight |-> replies.writes_in_flight,
                    write_queue |-> replies.write_queue, writing |-> replies.writing,
                    faulty |-> replies.faulty, ready_waiting |-> replies.ready_waiting,
                    checkpoint_waiting |-> replies.checkpoint_waiting,
                    panic |-> replies.panic]
  BY <1>1 DEF NewReplies
<1>4. replies \in Memory
  <2>1. << >> \in Seq(1 .. ReadsMax) /\ << >> \in Seq(1 .. WritesMax)
    OBVIOUS
  <2>2. /\ [k \in 1 .. ReadsMax |-> None] \in [1 .. ReadsMax -> Reads \cup {None}]
        /\ [k \in 1 .. WritesMax |-> None] \in [1 .. WritesMax -> Writes \cup {None}]
    OBVIOUS
  <2> QED BY <1>3, <2>1, <2>2 DEF Memory
<1>5. x \in Components /\ x.m = replies /\ x.disk = disk /\ x.io = io
  BY <1>1, <1>4 DEF State, Components, OnDisk
<1> HIDE DEF x
<1>6. Count(x.io, "read") = 0 /\ Count(x.io, "write") = 0
  <2>1. \A type : Reports(<<>>, type) = {}
    BY DEF Reports
  <2> QED BY <1>1, <1>5, <2>1, FS_EmptySet DEF Count
<1>7. Len(x.m.writes_in_flight) = 0 /\ Len(x.m.reads_in_flight) = 0
  BY <1>3, <1>5
<1>8. Live(x.m) = {} /\ ~Waits(x.m)
  BY <1>7 DEF Live, Waits
<1>9. Reading(x)
  BY <1>6, <1>7 DEF Reading
<1>10. Writing(x)
  <2>1. WritesMax \in Nat /\ \A k \in 1 .. WritesMax : x.m.writes[k] = None
    BY <1>3, <1>5, RepliesAssumption
  <2>2. x.m.writing = {Write(x.m, k).slot : k \in Live(x.m)}
    BY <1>3, <1>5, <1>8
  <2>3. x.m.write_queue = <<>>
    BY <1>3, <1>5
  <2> QED BY <1>6, <1>7, <1>8, <2>1, <2>2, <2>3 DEF Writing
<1>11. Contents(x, sessions, op, registered)
  BY <1>1, <1>8 DEF Contents
<1>12. Keeps(x, sessions, op, registered)
  BY <1>5, <1>9, <1>10, <1>11 DEF Keeps
<1>13. Pipeline
  BY <1>1, <1>3 DEF Pipeline
<1> QED BY <1>2, <1>12, <1>13 DEF IInv, x

-----------------------------------------------------------------------------
(* The theorems                                                             *)

\* Invariance: IInv holds in every state.
THEOREM Invariance ==
  ASSUME WritesMax <= 2
  PROVE  Spec => []IInv
<1>1. Init => IInv
  BY Starts
<1>2. IInv /\ [Next]_vars => IInv'
  <2> SUFFICES ASSUME IInv, [Next]_vars PROVE IInv'
    OBVIOUS
  <2>1. CASE Commit
    BY <2>1, CommitStep
  <2>2. CASE SuperblockDone
    BY <2>2, SuperblockDoneStep
  <2>3. CASE Poll
    BY <2>3, PollStep
  <2>4. CASE \E s \in Slots : ReadReply(s)
    BY <2>4, ReadReplyStep
  <2>5. CASE \E s \in Slots : OnReply(s)
    BY <2>5, OnReplyStep
  <2>6. CASE \E s \in Slots : Decay(s)
    BY <2>6, DecayStep
  <2>7. CASE UNCHANGED vars
    <3>1. UNCHANGED <<sessions, registered, op, commit, replies, disk, io>>
      BY <2>7 DEF vars
    <3>2. Become(State)
      BY <3>1 DEF Become, State
    <3>3. Pipeline'
      BY <3>1, Now, PipelineStays
    <3> QED BY <3>1, <3>2, <3>3, Now, KeepsStep
  <2> QED BY <2>1, <2>2, <2>3, <2>4, <2>5, <2>6, <2>7 DEF Next
<1> QED BY <1>1, <1>2, PTL DEF Spec

\* A slot for which reply_durable answers yes holds its client's latest reply.
THEOREM WrittenTheorem ==
  ASSUME WritesMax <= 2
  PROVE  Spec => []DurableIsWritten
<1>1. IInv => DurableIsWritten
  <2> SUFFICES ASSUME IInv, NEW s \in Occupied, sessions[s].body, ReplyDurable(replies, s)
               PROVE  disk[s] \in {sessions[s], Corrupt}
    BY DEF DurableIsWritten
  <2>1. s \in Slots /\ sessions[s] # None /\ s \notin replies.faulty /\ s \notin replies.writing
    BY DEF Occupied, ReplyDurable
  <2>2. Contents(State, sessions, op, registered) /\ State.m = replies /\ State.disk = disk
    BY Now DEF Keeps
  <2>3. Holds(State, s, sessions[s])
    BY <2>1, <2>2 DEF Contents
  <2> QED BY <2>1, <2>2, <2>3 DEF Holds
<1> QED BY <1>1, Invariance, PTL

\* Of the assertions of the component none fails but those on the checkpoint.
THEOREM AssertionsTheorem ==
  ASSUME WritesMax <= 2
  PROVE  Spec => []AssertionsHold
<1>1. IInv => AssertionsHold
  <2>1. IInv => replies.panic \in {None, "commit", "checkpoint"}
    BY Now, Fields
  <2> QED BY <2>1 DEF AssertionsHold
<1> QED BY <1>1, Invariance, PTL
=============================================================================
