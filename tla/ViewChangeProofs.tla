-------------------------- MODULE ViewChangeProofs --------------------------
(***************************************************************************)
(* Proofs about ViewChange, for every number of replicas, ops and views:   *)
(* an op is prepared once in a view, the logs of a view match, what was    *)
(* acknowledged or executed stays in its log, and no header ever meets one *)
(* it conflicts with.                                                      *)
(*                                                                         *)
(* The inductive invariant says that there is one log for each view, that  *)
(* of its primary, of which every replica and every message of the view    *)
(* holds a part.  The log of a view starts as the log of an older one, so  *)
(* that the prepares of a view have the same ancestors in all of them.     *)
(***************************************************************************)
EXTENDS ViewChange, Extremes, TLAPS

-----------------------------------------------------------------------------
(* The inductive invariant: what a replica knows of itself *)

\* A replica is in Normal status when its log is of its view.
Statuses ==
  \A r \in Replicas : log_view[r] <= view[r] /\ (Normal(r) <=> log_view[r] = view[r])

EmptyAhead == \A r \in Replicas : \A o \in Ops : o > op[r] => journal[r][o] = NoHeader

PrimaryLog ==
  \A r \in Replicas : Normal(r) /\ IsPrimary(r) =>
    /\ commit_max[r] <= op[r]
    /\ \A o \in Ops : o <= op[r] =>
         journal[r][o] # NoHeader /\ journal[r][o].commit <= commit_max[r]

\* The headers a replica joins with are all there.
Joinable ==
  \A r \in Replicas : ~Normal(r) =>
    /\ join_tail[r] <= op[r]
    /\ \A o \in Ops : o \in join_tail[r] .. op[r] => journal[r][o] # NoHeader

\* A slot is clean once its op is executed, and what is executed stays.
Executed ==
  \A r \in Replicas :
    /\ committing[r] => commit_min[r] < MaxOp
    /\ \A o \in Ops :
         /\ journal[r][o] # NoHeader /\ o \notin dirty[r] => o <= commit_min[r]
         /\ o <= commit_min[r] => journal[r][o] # NoHeader /\ journal[r][o] = prepares[r][o]

JoinsArrived ==
  /\ joins = [r \in Replicas |-> [q \in Replicas |-> joins[r][q]]]
  /\ \A r, q \in Replicas : joins[r][q] # NoJoin =>
       joins[r][q] \in Received("join_view") /\ joins[r][q].view = view[r]

-----------------------------------------------------------------------------
(* ... what a message tells of its sender *)

Possible(m) ==
  /\ m.type = "commit" => (m.commit > 0 => m.header # NoHeader)
  /\ m.type = "view" =>
       \A o \in Ops : /\ m.headers[o] # NoHeader <=> o <= m.op
                      /\ o <= m.op => m.headers[o].commit <= m.commit_max
  /\ m.type = "join_view" =>
       /\ m.log_view < m.view /\ m.tail <= m.op
       /\ \A o \in Ops : Lists(m, o) => m.headers[o] # NoHeader

Promised(m) ==
  m.type = "prepare_ok" =>
    /\ m.view <= log_view[m.from]
    /\ log_view[m.from] = m.view => journal[m.from][m.op] = m.header

Messages == \A m \in network : Possible(m) /\ Promised(m)

-----------------------------------------------------------------------------
(* ... and the log L[v] of every view v *)

Logs == [Views -> [Ops -> Slot]]

\* Each log is a chain of headers of its own and of earlier views, and up to a
\* header of an earlier view it is the log of that view.  A header knows of the
\* commits of earlier ops.
Chained(L) ==
  \A v \in Views, o \in Ops : L[v][o] # NoHeader =>
    /\ o > 1 => L[v][o - 1] # NoHeader
    /\ L[v][o].parent = HeaderAt(L[v], o - 1).view
    /\ L[v][o].view <= v /\ L[v][o].commit < o
    /\ \A k \in Ops : k <= o => L[L[v][o].view][k] = L[v][k]

\* The log of a view that its primary has not started is empty, and the log of one
\* that it is in ends at its head.
OfPrimaries(L) ==
  \A r \in Replicas :
    /\ \A v \in Views : PrimaryOf(v) = r /\ log_view[r] < v => \A o \in Ops : L[v][o] = NoHeader
    /\ Normal(r) /\ IsPrimary(r) => \A o \in Ops : o > op[r] => L[view[r]][o] = NoHeader

Held(L) == \A r \in Replicas : \A o \in Ops : journal[r][o] \in {NoHeader, L[log_view[r]][o]}

Agrees(L, m) ==
  /\ m.type = "prepare" => m.header = L[m.header.view][m.op]
  /\ m.type = "commit" => (m.commit > 0 => m.header = L[m.view][m.commit])
  /\ m.type = "view" => \A o \in Ops : m.headers[o] \in {NoHeader, L[m.view][o]}
  /\ m.type = "join_view" => \A o \in Ops : m.headers[o] \in {NoHeader, L[m.log_view][o]}

OneLogPerView(L) ==
  /\ L \in Logs /\ Chained(L) /\ OfPrimaries(L) /\ Held(L)
  /\ \A m \in network : Agrees(L, m)

IndInv ==
  /\ TypeOK /\ Statuses /\ EmptyAhead /\ PrimaryLog /\ Joinable /\ Executed
  /\ JoinsArrived /\ Messages
  /\ \E L \in Logs : OneLogPerView(L)

-----------------------------------------------------------------------------
(* Messages *)

\* The fields of a message, by its type.
LEMMA MessageFields ==
  ASSUME NEW m \in Message
  PROVE  /\ m.type = "prepare" => m.op \in Ops /\ m.header \in Header
         /\ m.type = "prepare_ok" => /\ m.from \in Replicas /\ m.view \in Views
                                     /\ m.op \in Ops /\ m.header \in Header
         /\ m.type = "commit" => m.view \in Views /\ m.commit \in 0 .. MaxOp /\ m.header \in Slot
         /\ m.type = "exit_view" => m.from \in Replicas /\ m.view \in Views
         /\ m.type = "get_view" => m.view \in Views
         /\ m.type = "view" => /\ m.view \in Views /\ m.op \in 0 .. MaxOp
                               /\ m.commit_max \in 0 .. MaxOp /\ m.headers \in [Ops -> Slot]
         /\ m.type = "join_view" => m \in JoinView
BY DEF Message, JoinView

\* A header is not the sentinel of an empty slot.
LEMMA HeadersAreNotEmpty == NoHeader \notin Header
BY SentinelAssumption DEF Header, Views

-----------------------------------------------------------------------------
(* The initial state *)

LEMMA InitEstablishes == Init => IndInv
<1> SUFFICES ASSUME Init PROVE IndInv
  OBVIOUS
<1> DEFINE L == [v \in Views |-> IF v = 0 THEN Booted ELSE [o \in Ops |-> NoHeader]]
<1>1. Booted \in [Ops -> Slot]
  BY BoundAssumption DEF Booted, Slot, Header, Views, Ops
<1>2. \A o \in Ops : /\ o <= BootOps => Booted[o] # NoHeader /\ Booted[o] \in Header
                                        /\ Booted[o].view = 0 /\ Booted[o].parent = 0
                                        /\ Booted[o].commit = o - 1
                     /\ o > BootOps => Booted[o] = NoHeader
  BY BoundAssumption, HeadersAreNotEmpty DEF Booted, Header, Views, Ops
<1>3. TypeOK
  BY <1>1, BoundAssumption, ClusterAssumption DEF Init, TypeOK, Views, NoPanic, PanicKind
<1>4. Statuses /\ EmptyAhead /\ PrimaryLog /\ Joinable /\ Executed
  BY <1>2, BoundAssumption
     DEF Init, Statuses, EmptyAhead, PrimaryLog, Joinable, Executed, Normal, Ops
<1>5. JoinsArrived /\ Messages
  BY DEF Init, JoinsArrived, Messages
<1>6. OneLogPerView(L)
  <2>1. L \in Logs
    BY <1>1 DEF Logs, Slot
  <2>2. Chained(L)
    BY <1>1, <1>2, BoundAssumption DEF Chained, HeaderAt, Root, Views, Ops
  <2>3. OfPrimaries(L) /\ Held(L)
    BY <1>2, BoundAssumption DEF Init, OfPrimaries, Held, Views
  <2> QED BY <2>1, <2>2, <2>3 DEF OneLogPerView, Init
<1>7. \E M \in Logs : OneLogPerView(M)
  BY <1>6 DEF OneLogPerView
<1> QED BY <1>3, <1>4, <1>5, <1>7 DEF IndInv

-----------------------------------------------------------------------------
(* Steps that leave the logs alone *)

LEMMA LogsStay ==
  ASSUME IndInv,
         UNCHANGED <<viewVars, op, journal, dirty, commit_min, prepares, join_tail>>,
         commit_max' \in [Replicas -> 0 .. MaxOp],
         \A r \in Replicas : Normal(r) /\ IsPrimary(r) => commit_max'[r] = commit_max[r],
         committing' \in [Replicas -> BOOLEAN],
         \A r \in Replicas : committing'[r] => commit_min[r] < MaxOp,
         acks' \in [Replicas -> [Ops -> SUBSET Replicas]],
         exit_views' \in [Replicas -> SUBSET Replicas],
         exit_window' \in [Replicas -> BOOLEAN],
         commit_timer' \in [Replicas -> BOOLEAN],
         panicked' \in [Replicas -> PanicKind],
         UNCHANGED <<joins>> \/ JoinsArrived',
         network \subseteq network',
         \A m \in network' : m \notin network => m \in Message /\ Possible(m) /\ Promised(m),
         \A L \in Logs : OneLogPerView(L) => \A m \in network' : m \notin network => Agrees(L, m)
  PROVE  IndInv'
<1> USE DEF viewVars
<1>0. JoinsArrived'
  BY DEF IndInv, JoinsArrived, Received
<1>1. TypeOK'
  <2>1. \A r, q \in Replicas : joins'[r][q] # NoJoin => joins'[r][q] \in network'
    BY <1>0 DEF JoinsArrived, Received
  <2> QED BY <2>1 DEF IndInv, TypeOK
<1>2. Statuses' /\ EmptyAhead' /\ Joinable' /\ Executed'
  BY DEF IndInv, Statuses, EmptyAhead, Joinable, Executed, Normal
<1>3. PrimaryLog'
  BY DEF IndInv, PrimaryLog, Normal, IsPrimary
<1>4. Messages'
  BY DEF IndInv, Messages, Possible, Promised
<1>5. PICK L \in Logs : OneLogPerView(L)
  BY DEF IndInv
<1>6. OneLogPerView(L)'
  <2>1. OfPrimaries(L)'
    BY <1>5 DEF OneLogPerView, OfPrimaries, Normal, IsPrimary
  <2>2. Held(L)'
    BY <1>5 DEF OneLogPerView, Held
  <2> QED BY <1>5, <2>1, <2>2 DEF OneLogPerView
<1> QED BY <1>0, <1>1, <1>2, <1>3, <1>4, <1>6 DEF IndInv

\* What an action that changes none of these may say of them.
LEMMA Typed ==
  IndInv => /\ commit_max \in [Replicas -> 0 .. MaxOp]
            /\ committing \in [Replicas -> BOOLEAN]
            /\ \A r \in Replicas : committing[r] => commit_min[r] < MaxOp
            /\ acks \in [Replicas -> [Ops -> SUBSET Replicas]]
            /\ exit_views \in [Replicas -> SUBSET Replicas]
            /\ exit_window \in [Replicas -> BOOLEAN]
            /\ commit_timer \in [Replicas -> BOOLEAN]
            /\ panicked \in [Replicas -> PanicKind]
BY DEF IndInv, TypeOK, Executed

\* A failed assertion changes nothing else.
LEMMA PanicKeeps ==
  ASSUME IndInv, NEW r \in Replicas, NEW why \in PanicKind, Panic(r, why)
  PROVE  IndInv'
<1> USE DEF Panic, logVars, commitVars, exitVars, joinVars, viewVars
<1>1. panicked' \in [Replicas -> PanicKind]
  BY Typed
<1> QED BY <1>1, Typed, LogsStay

LEMMA SendCommitKeeps ==
  ASSUME IndInv, NEW r \in Replicas, SendCommit(r)
  PROVE  IndInv'
<1> USE DEF logVars, commitVars, exitVars, joinVars, viewVars
<1> DEFINE m == [type |-> "commit", view |-> view[r], commit |-> commit_max[r],
                 header |-> IF commit_max[r] = 0 THEN NoHeader ELSE journal[r][commit_max[r]]]
<1>1. network' = network \cup {m}
  BY DEF SendCommit, Send
<1>2. Normal(r) /\ IsPrimary(r) /\ log_view[r] = view[r]
  BY DEF SendCommit, IndInv, Statuses
<1>3. commit_max[r] \in 0 .. MaxOp /\ (commit_max[r] > 0 => commit_max[r] \in Ops)
  BY BoundAssumption DEF IndInv, TypeOK, Ops
<1>4. m \in Message
  BY <1>3 DEF Message, IndInv, TypeOK, Slot
<1>5. commit_max[r] > 0 => journal[r][commit_max[r]] # NoHeader
  BY <1>2, <1>3 DEF IndInv, PrimaryLog
<1>6. Possible(m) /\ Promised(m)
  BY <1>5 DEF Possible, Promised
<1>7. \A L \in Logs : OneLogPerView(L) => Agrees(L, m)
  BY <1>2, <1>3, <1>5 DEF OneLogPerView, Held, Agrees
<1>8. commit_timer' \in [Replicas -> BOOLEAN]
  BY Typed DEF SendCommit
<1> HIDE DEF m
<1> QED BY <1>1, <1>4, <1>6, <1>7, <1>8, Typed, LogsStay DEF SendCommit

LEMMA OnCommitTimeoutAbroadKeeps ==
  ASSUME IndInv, NEW r \in Replicas, OnCommitTimeoutAbroad(r)
  PROVE  IndInv'
BY PanicKeeps DEF OnCommitTimeoutAbroad, PanicKind

LEMMA SendExitViewKeeps ==
  ASSUME IndInv, NEW r \in Replicas, SendExitView(r)
  PROVE  IndInv'
<1> USE DEF logVars, commitVars, exitVars, joinVars, viewVars
<1> DEFINE m == [type |-> "exit_view", from |-> r, view |-> view[r]]
<1>1. network' = network \cup {m}
  BY DEF SendExitView, Send
<1>2. m \in Message
  BY DEF Message, IndInv, TypeOK
<1>3. Possible(m) /\ Promised(m) /\ \A L \in Logs : Agrees(L, m)
  BY DEF Possible, Promised, Agrees
<1>4. /\ exit_views' \in [Replicas -> SUBSET Replicas]
      /\ exit_window' \in [Replicas -> BOOLEAN]
  BY Typed DEF SendExitView
<1> HIDE DEF m
<1> QED BY <1>1, <1>2, <1>3, <1>4, Typed, LogsStay DEF SendExitView

LEMMA OnExitWindowTimeoutKeeps ==
  ASSUME IndInv, NEW r \in Replicas, OnExitWindowTimeout(r)
  PROVE  IndInv'
<1> USE DEF logVars, commitVars, exitVars, joinVars, viewVars
<1>1. CASE exit_views[r] = {}
  BY <1>1, PanicKeeps DEF OnExitWindowTimeout, PanicKind
<1>2. CASE exit_views[r] # {}
  <2>1. exit_views' \in [Replicas -> SUBSET Replicas]
    <3>1. exit_views[r] \cap {r} \in SUBSET Replicas
      OBVIOUS
    <3> QED BY <1>2, <3>1, Typed DEF OnExitWindowTimeout
  <2>2. exit_window' \in [Replicas -> BOOLEAN]
    BY <1>2, Typed DEF OnExitWindowTimeout
  <2> QED BY <1>2, <2>1, <2>2, Typed, LogsStay DEF OnExitWindowTimeout
<1> QED BY <1>1, <1>2

-----------------------------------------------------------------------------
(* Leaving a view *)

\* The tail of a join view is not ahead of the head.
LEMMA TailIsBehind ==
  ASSUME IndInv, NEW r \in Replicas
  PROVE  JoinTail(r) \in 0 .. MaxOp /\ JoinTail(r) <= op[r] /\ op[r] \in 0 .. MaxOp
BY DEF IndInv, TypeOK, Joinable, JoinTail, MinOf

\* A join view lists a part of the log of the last view of its sender.
LEMMA JoinViewIsTrue ==
  ASSUME IndInv, NEW r \in Replicas, NEW v \in Views, log_view[r] < v,
         \A o \in Ops : o \in JoinTail(r) .. op[r] => journal[r][o] # NoHeader
  PROVE  LET j == JoinViewOf(r, v) IN
         /\ j.type = "join_view" /\ j.view = v
         /\ j \in Message /\ Possible(j) /\ Promised(j)
         /\ \A L \in Logs : OneLogPerView(L) => Agrees(L, j)
<1> DEFINE j == JoinViewOf(r, v)
           listed == JoinTail(r) .. op[r]
<1>1. JoinTail(r) \in 0 .. MaxOp /\ JoinTail(r) <= op[r] /\ op[r] \in 0 .. MaxOp
  BY TailIsBehind
<1>2. /\ journal[r] \in [Ops -> Slot] /\ commit_min[r] \in 0 .. MaxOp
      /\ log_view[r] \in Views /\ dirty[r] \in SUBSET Ops
  BY DEF IndInv, TypeOK
<1>3. /\ j.type = "join_view" /\ j.from = r /\ j.view = v /\ j.log_view = log_view[r]
      /\ j.op = op[r] /\ j.tail = JoinTail(r)
      /\ j.headers = [o \in Ops |-> IF o \in listed THEN journal[r][o] ELSE NoHeader]
  BY DEF JoinViewOf
<1>4. j \in JoinView
  <2>1. j.headers \in [Ops -> Slot]
    BY <1>2, <1>3 DEF Slot
  <2>2. \A o \in listed : o \in 0 .. MaxOp
    BY <1>1, BoundAssumption
  <2>3. {o \in listed : o = 0 \/ o \in dirty[r]} \in SUBSET (0 .. MaxOp)
    BY <2>2
  <2>4. {o \in listed \ {0} : prepares[r][o] = journal[r][o]} \in SUBSET Ops
    BY <2>2, BoundAssumption DEF Ops
  <2> QED BY <1>1, <1>2, <1>3, <2>1, <2>3, <2>4 DEF JoinView, JoinViewOf
<1>5. Possible(j) /\ Promised(j)
  BY <1>1, <1>3 DEF Possible, Promised, Lists
<1>6. ASSUME NEW L \in Logs, OneLogPerView(L) PROVE Agrees(L, j)
  BY <1>3, <1>6 DEF Agrees, OneLogPerView, Held
<1>7. j \in Message
  BY <1>4 DEF Message
<1> QED BY <1>3, <1>5, <1>6, <1>7

\* What a replica that may join lists is there.
LEMMA MayJoin ==
  ASSUME IndInv, NEW r \in Replicas, ~CannotJoin(r)
  PROVE  \A o \in Ops : o \in JoinTail(r) .. op[r] => journal[r][o] # NoHeader
BY BoundAssumption DEF CannotJoin, Ops

LEMMA TransitionKeeps ==
  ASSUME IndInv, NEW r \in Replicas, view[r] < MaxView, Transition(r, view[r] + 1)
  PROVE  IndInv'
<1> USE DEF logVars, commitVars, exitVars, joinVars, viewVars
<1> DEFINE v == view[r] + 1
           j == JoinViewOf(r, v)
<1>1. CASE CannotJoin(r)
  BY <1>1, PanicKeeps DEF Transition, PanicKind
<1>2. CASE ~CannotJoin(r)
  <2>1. v \in Views /\ log_view[r] < v /\ view[r] \in Views /\ log_view[r] \in Views
    BY BoundAssumption DEF IndInv, TypeOK, Statuses, Views
  <2>2. \A o \in Ops : o \in JoinTail(r) .. op[r] => journal[r][o] # NoHeader
    BY <1>2, MayJoin
  <2>3. /\ j.type = "join_view" /\ j.view = v
        /\ j \in Message /\ Possible(j) /\ Promised(j)
        /\ \A L \in Logs : OneLogPerView(L) => Agrees(L, j)
    BY <2>1, <2>2, JoinViewIsTrue
  <2> HIDE DEF j
  <2>4. /\ status' = [status EXCEPT ![r] = "view_change"]
        /\ view' = [view EXCEPT ![r] = v]
        /\ exit_views' = [exit_views EXCEPT ![r] = {}]
        /\ acks' = [acks EXCEPT ![r] = [o \in Ops |-> {}]]
        /\ join_tail' = [join_tail EXCEPT ![r] = JoinTail(r)]
        /\ joins' = [joins EXCEPT ![r] =
                       [q \in Replicas |-> IF q = r /\ PrimaryOf(v) = r THEN j ELSE NoJoin]]
        /\ network' = network \cup {j}
        /\ UNCHANGED <<log_view, logVars, commitVars, exit_window, commit_timer, panicked>>
    BY <1>2 DEF Transition, Send, j
  <2>5. JoinTail(r) \in 0 .. MaxOp /\ JoinTail(r) <= op[r]
    BY TailIsBehind
  <2>6. JoinsArrived'
    <3>1. joins = [q \in Replicas |-> [p \in Replicas |-> joins[q][p]]]
      BY DEF IndInv, JoinsArrived
    <3>2. joins' = [q \in Replicas |-> [p \in Replicas |-> joins'[q][p]]]
      BY <2>4, <3>1
    <3>3. ASSUME NEW q \in Replicas, NEW p \in Replicas, joins'[q][p] # NoJoin
          PROVE  joins'[q][p] \in Received("join_view")' /\ joins'[q][p].view = view'[q]
      <4>1. CASE q = r
        BY <2>3, <2>4, <3>1, <3>3, <4>1 DEF IndInv, TypeOK, Received
      <4>2. CASE q # r
        BY <2>4, <3>1, <3>3, <4>2 DEF IndInv, TypeOK, JoinsArrived, Received
      <4> QED BY <4>1, <4>2
    <3> QED BY <3>2, <3>3 DEF JoinsArrived
  <2>7. TypeOK'
    <3>1. \A q, p \in Replicas : joins'[q][p] # NoJoin => joins'[q][p] \in network'
      BY <2>6 DEF JoinsArrived, Received
    <3> QED BY <2>1, <2>3, <2>4, <2>5, <3>1 DEF IndInv, TypeOK
  <2>8. Statuses' /\ EmptyAhead'
    BY <2>1, <2>4, BoundAssumption DEF IndInv, TypeOK, Statuses, EmptyAhead, Normal, Views
  <2>14. Joinable'
    BY <2>2, <2>4, <2>5 DEF IndInv, TypeOK, Joinable, Normal
  <2>9. PrimaryLog' /\ Executed'
    BY <2>4 DEF IndInv, TypeOK, PrimaryLog, Executed, Normal, IsPrimary
  <2>10. Messages'
    BY <2>3, <2>4 DEF IndInv, Messages, Possible, Promised
  <2>11. PICK L \in Logs : OneLogPerView(L)
    BY DEF IndInv
  <2>12. OneLogPerView(L)'
    <3>1. OfPrimaries(L)'
      BY <2>4, <2>11 DEF OneLogPerView, OfPrimaries, Normal, IsPrimary, IndInv, TypeOK
    <3>2. Held(L)'
      BY <2>4, <2>11 DEF OneLogPerView, Held
    <3> QED BY <2>3, <2>4, <2>11, <3>1, <3>2 DEF OneLogPerView
  <2> QED BY <2>6, <2>7, <2>8, <2>14, <2>9, <2>10, <2>12 DEF IndInv
<1> QED BY <1>1, <1>2

LEMMA OnExitViewKeeps ==
  ASSUME IndInv, NEW r \in Replicas, NEW m \in Received("exit_view"), OnExitView(r, m)
  PROVE  IndInv'
<1> USE DEF logVars, commitVars, exitVars, joinVars, viewVars
<1> DEFINE exits == exit_views[r] \cup {m.from}
<1>1. CASE MaskReaches(exits, ViewChangeQuorum(N))
  BY <1>1, TransitionKeeps DEF OnExitView
<1>2. CASE ~MaskReaches(exits, ViewChangeQuorum(N))
  <2>1. exits \in SUBSET Replicas
    BY MessageFields, Typed DEF Received, IndInv, TypeOK
  <2>2. exit_views' \in [Replicas -> SUBSET Replicas]
    BY <1>2, <2>1, Typed DEF OnExitView
  <2> QED BY <1>2, <2>2, Typed, LogsStay DEF OnExitView
<1> QED BY <1>1, <1>2

LEMMA OnJoinViewTimeoutKeeps ==
  ASSUME IndInv, NEW r \in Replicas, OnJoinViewTimeout(r)
  PROVE  IndInv'
<1> USE DEF logVars, commitVars, exitVars, joinVars, viewVars
<1> DEFINE j == JoinViewOf(r, view[r])
<1>1. view[r] \in Views /\ log_view[r] < view[r]
  <2>1. ~Normal(r)
    BY DEF OnJoinViewTimeout
  <2>2. view[r] \in Views /\ log_view[r] \in Views
    BY DEF IndInv, TypeOK
  <2> QED BY <2>1, <2>2, BoundAssumption DEF IndInv, Statuses, Views
<1>2. \A o \in Ops : o \in JoinTail(r) .. op[r] => journal[r][o] # NoHeader
  BY DEF OnJoinViewTimeout, IndInv, Joinable, JoinTail
<1>3. /\ j.type = "join_view" /\ j.view = view[r]
      /\ j \in Message /\ Possible(j) /\ Promised(j)
      /\ \A L \in Logs : OneLogPerView(L) => Agrees(L, j)
  BY <1>1, <1>2, JoinViewIsTrue
<1> HIDE DEF j
<1>4. /\ network' = network \cup {j}
      /\ joins' = [joins EXCEPT ![r][r] = IF PrimaryOf(view[r]) = r THEN Newer(@, j) ELSE @]
  BY DEF OnJoinViewTimeout, Send, j
<1>5. JoinsArrived'
  <2>1. joins = [q \in Replicas |-> [p \in Replicas |-> joins[q][p]]]
    BY DEF IndInv, JoinsArrived
  <2>2. joins' = [q \in Replicas |-> [p \in Replicas |-> joins'[q][p]]]
    BY <1>4, <2>1
  <2>3. ASSUME NEW q \in Replicas, NEW p \in Replicas, joins'[q][p] # NoJoin
        PROVE  joins'[q][p] \in Received("join_view")' /\ joins'[q][p].view = view'[q]
    <3>1. joins'[q][p] = joins[q][p] \/ (q = r /\ joins'[q][p] = j)
      <4> DEFINE next == IF PrimaryOf(view[r]) = r THEN Newer(joins[r][r], j) ELSE joins[r][r]
      <4>1. next \in {joins[r][r], j}
        BY DEF Newer
      <4>2. joins' = [joins EXCEPT ![r] = [joins[r] EXCEPT ![r] = next]]
        BY <1>4
      <4> HIDE DEF next
      <4> QED BY <2>1, <4>1, <4>2
    <3>2. CASE joins'[q][p] = joins[q][p]
      BY <1>4, <2>3, <3>2 DEF OnJoinViewTimeout, IndInv, JoinsArrived, Received
    <3>3. CASE q = r /\ joins'[q][p] = j
      BY <1>3, <1>4, <3>3 DEF OnJoinViewTimeout, Received
    <3> QED BY <3>1, <3>2, <3>3
  <2> QED BY <2>2, <2>3 DEF JoinsArrived
<1> QED BY <1>3, <1>4, <1>5, Typed, LogsStay DEF OnJoinViewTimeout

-----------------------------------------------------------------------------
(* Messages that ask for a view, and steps of the commit path *)

LEMMA GetViewIsTrue ==
  ASSUME NEW v \in Views
  PROVE  LET m == [type |-> "get_view", view |-> v] IN
         m \in Message /\ Possible(m) /\ Promised(m) /\ \A L \in Logs : Agrees(L, m)
BY DEF Message, Possible, Promised, Agrees

LEMMA RepairRequestIsTrue ==
  ASSUME IndInv, NEW r \in Replicas, NEW head, NEW cmax, NEW m \in RepairRequest(r, head, cmax)
  PROVE  m \in Message /\ Possible(m) /\ Promised(m) /\ \A L \in Logs : Agrees(L, m)
<1>1. view[r] \in Views /\ m = [type |-> "get_view", view |-> view[r]]
  BY DEF RepairRequest, IndInv, TypeOK
<1> QED BY <1>1, GetViewIsTrue

LEMMA OnGetViewTimeoutKeeps ==
  ASSUME IndInv, NEW r \in Replicas, OnGetViewTimeout(r)
  PROVE  IndInv'
<1> USE DEF logVars, commitVars, exitVars, joinVars, viewVars
<1> DEFINE m == [type |-> "get_view", view |-> view[r]]
<1>1. m \in Message /\ Possible(m) /\ Promised(m) /\ \A L \in Logs : Agrees(L, m)
  BY GetViewIsTrue DEF IndInv, TypeOK
<1>2. network' = network \cup {m}
  BY DEF OnGetViewTimeout, Send
<1> HIDE DEF m
<1> QED BY <1>1, <1>2, Typed, LogsStay DEF OnGetViewTimeout

\* The primary of a view announces its whole log.
LEMMA OnGetViewKeeps ==
  ASSUME IndInv, NEW r \in Replicas, NEW m \in Received("get_view"), OnGetView(r, m)
  PROVE  IndInv'
<1> USE DEF logVars, commitVars, exitVars, joinVars, viewVars
<1>1. CASE ~Normal(r) \/ m.view # view[r]
  BY <1>1, PanicKeeps DEF OnGetView, PanicKind
<1>2. CASE Normal(r) /\ m.view = view[r]
  <2> DEFINE a == ViewOf(view[r], op[r], journal[r], commit_max[r])
  <2>1. network' = network \cup {a}
    BY <1>2 DEF OnGetView, Send
  <2>2. IsPrimary(r) /\ log_view[r] = view[r]
    BY <1>2 DEF OnGetView, IsPrimary, IndInv, Statuses
  <2>3. a \in Message
    BY DEF ViewOf, Message, IndInv, TypeOK
  <2>4. Possible(a) /\ Promised(a)
    BY <1>2, <2>2 DEF ViewOf, Possible, Promised, IndInv, PrimaryLog, EmptyAhead, TypeOK, Ops
  <2>5. \A L \in Logs : OneLogPerView(L) => Agrees(L, a)
    BY <2>2 DEF ViewOf, OneLogPerView, Held, Agrees
  <2> HIDE DEF a
  <2> QED BY <1>2, <2>1, <2>3, <2>4, <2>5, Typed, LogsStay DEF OnGetView
<1> QED BY <1>1, <1>2

\* What a commit is parked at is an op of the log.
LEMMA CommitJournalKeeps ==
  ASSUME IndInv, NEW r \in Replicas, NEW slots, NEW head \in 0 .. MaxOp, NEW cmax,
         CommitJournal(r, slots, head, cmax)
  PROVE  /\ committing' \in [Replicas -> BOOLEAN]
         /\ \A q \in Replicas : committing'[q] => commit_min[q] < MaxOp
<1>1. JournalReady(slots, head, commit_min[r], cmax, TRUE) \in BOOLEAN
  BY DEF JournalReady
<1>2. JournalReady(slots, head, commit_min[r], cmax, TRUE) => commit_min[r] < MaxOp
  BY BoundAssumption DEF JournalReady, IndInv, TypeOK
<1> QED BY <1>1, <1>2, Typed DEF CommitJournal

LEMMA OnRepairTimeoutKeeps ==
  ASSUME IndInv, NEW r \in Replicas, OnRepairTimeout(r)
  PROVE  IndInv'
<1> USE DEF logVars, commitVars, exitVars, joinVars, viewVars
<1>1. CASE op[r] = 0 \/ journal[r][op[r]] = NoHeader
  BY <1>1, PanicKeeps DEF OnRepairTimeout, PanicKind
<1>2. CASE ~(op[r] = 0 \/ journal[r][op[r]] = NoHeader)
  <2>1. network' = network \cup RepairRequest(r, op[r], commit_max[r])
    BY <1>2 DEF OnRepairTimeout, Send
  <2>2. /\ committing' \in [Replicas -> BOOLEAN]
        /\ \A q \in Replicas : committing'[q] => commit_min[q] < MaxOp
    <3>1. op[r] \in 0 .. MaxOp
      BY DEF IndInv, TypeOK
    <3> QED BY <1>2, <3>1, CommitJournalKeeps, Typed DEF OnRepairTimeout
  <2> QED BY <1>2, <2>1, <2>2, RepairRequestIsTrue, Typed, LogsStay DEF OnRepairTimeout
<1> QED BY <1>1, <1>2

LEMMA OnPrepareOkKeeps ==
  ASSUME IndInv, NEW r \in Replicas, NEW m \in Received("prepare_ok"), OnPrepareOk(r, m)
  PROVE  IndInv'
<1> USE DEF logVars, commitVars, exitVars, joinVars, viewVars
<1> DEFINE oks   == [acks[r] EXCEPT ![m.op] = @ \cup {m.from}]
           next  == commit_min[r] + 1
           enter == ~committing[r] /\ PipelineReady(r, oks, next)
<1>1. CASE enter /\ ~QuorumCounted(oks[next])
  BY <1>1, PanicKeeps DEF OnPrepareOk, PanicKind
<1>2. CASE ~(enter /\ ~QuorumCounted(oks[next]))
  <2>1. m.from \in Replicas /\ m.op \in Ops
    BY MessageFields DEF Received, IndInv, TypeOK
  <2>2. oks \in [Ops -> SUBSET Replicas]
    BY <2>1, Typed
  <2>3. acks' \in [Replicas -> [Ops -> SUBSET Replicas]]
    BY <1>2, <2>2, Typed DEF OnPrepareOk
  <2>4. enter \in BOOLEAN /\ (enter => commit_min[r] < MaxOp)
    BY BoundAssumption DEF PipelineReady, IndInv, TypeOK
  <2>5. /\ committing' \in [Replicas -> BOOLEAN]
        /\ \A q \in Replicas : committing'[q] => commit_min[q] < MaxOp
    <3>1. committing' = [committing EXCEPT ![r] = @ \/ enter]
      BY <1>2 DEF OnPrepareOk
    <3> HIDE DEF enter
    <3> QED BY <2>4, <3>1, Typed
  <2> QED BY <1>2, <2>3, <2>5, Typed, LogsStay DEF OnPrepareOk
<1> QED BY <1>1, <1>2

LEMMA OnCommitKeeps ==
  ASSUME IndInv, NEW r \in Replicas, NEW m \in Received("commit"), OnCommit(r, m)
  PROVE  IndInv'
<1> USE DEF logVars, commitVars, exitVars, joinVars, viewVars
<1> DEFINE cmax == MaxOf(commit_max[r], m.commit)
           refuted == /\ m.commit > 0 /\ journal[r][m.commit] # NoHeader
                      /\ journal[r][m.commit] # m.header
                      /\ Chain(journal[r], m.commit, op[r])
<1>1. CASE refuted
  BY <1>1, PanicKeeps DEF OnCommit, PanicKind
<1>2. CASE ~refuted
  <2>1. cmax \in 0 .. MaxOp /\ op[r] \in 0 .. MaxOp
    BY MessageFields DEF Received, IndInv, TypeOK, MaxOf
  <2>2. /\ ~IsPrimary(r)
        /\ commit_max' = [commit_max EXCEPT ![r] = cmax]
        /\ CommitJournal(r, journal[r], op[r], cmax)
    BY <1>2 DEF OnCommit
  <2>3. commit_max' \in [Replicas -> 0 .. MaxOp]
    BY <2>1, <2>2, Typed
  <2>4. \A q \in Replicas : Normal(q) /\ IsPrimary(q) => commit_max'[q] = commit_max[q]
    BY <2>2, Typed
  <2>5. /\ committing' \in [Replicas -> BOOLEAN]
        /\ \A q \in Replicas : committing'[q] => commit_min[q] < MaxOp
    BY <2>1, <2>2, CommitJournalKeeps
  <2>6. exit_views' \in [Replicas -> SUBSET Replicas]
    <3>1. PICK fresh \in BOOLEAN :
            exit_views' = [exit_views EXCEPT ![r] = IF fresh THEN @ \ {r} ELSE @]
      BY <1>2 DEF OnCommit
    <3>2. exit_views[r] \ {r} \in SUBSET Replicas /\ exit_views[r] \in SUBSET Replicas
      BY Typed
    <3> QED BY <3>1, <3>2, Typed
  <2> QED BY <1>2, <2>3, <2>4, <2>5, <2>6, Typed, LogsStay DEF OnCommit
<1> QED BY <1>1, <1>2

LEMMA CommitExecuteKeeps ==
  ASSUME IndInv, NEW r \in Replicas, CommitExecute(r)
  PROVE  IndInv'
<1> USE DEF logVars, commitVars, exitVars, joinVars, viewVars
<1> DEFINE this    == commit_min[r] + 1
           cmax    == MaxOf(commit_max[r], this)
           primary == Normal(r) /\ IsPrimary(r)
           ready   == IF primary THEN PipelineReady(r, acks[r], this + 1)
                      ELSE JournalReady(journal[r], op[r], this, cmax, Normal(r))
           why     == IF journal[r][this] = NoHeader THEN "commit_missing"
                      ELSE IF primary /\ ready /\ ~QuorumCounted(acks[r][this + 1])
                      THEN "quorum_count"
                      ELSE IF ~primary /\ IsPrimary(r) THEN "commit_as_primary" ELSE NoPanic
<1>1. CASE why # NoPanic
  <2>1. Panic(r, why)
    BY <1>1 DEF CommitExecute
  <2>2. why \in PanicKind
    BY DEF PanicKind
  <2> HIDE DEF why
  <2> QED BY <2>1, <2>2, PanicKeeps
<1>2. CASE why = NoPanic
  <2>1. this \in Ops /\ this <= op[r] /\ op[r] \in 0 .. MaxOp /\ journal[r][this] # NoHeader
    <3>1. this \in Ops
      BY SMTT(60), BoundAssumption DEF CommitExecute, IndInv, Executed, TypeOK, Ops
    <3>2. journal[r][this] # NoHeader
      BY <1>2 DEF NoPanic
    <3>3. op[r] \in 0 .. MaxOp
      BY DEF IndInv, TypeOK
    <3>4. this > op[r] => journal[r][this] = NoHeader
      BY <3>1 DEF IndInv, EmptyAhead
    <3> QED BY <3>1, <3>2, <3>3, <3>4 DEF Ops
  <2>2. /\ commit_min' = [commit_min EXCEPT ![r] = this]
        /\ commit_max' = [commit_max EXCEPT ![r] = cmax]
        /\ committing' = [committing EXCEPT ![r] = ready]
        /\ dirty' = [dirty EXCEPT ![r] = @ \ {this}]
        /\ prepares' = [prepares EXCEPT ![r][this] = journal[r][this]]
        /\ UNCHANGED <<viewVars, op, journal, acks, exitVars, commit_timer,
                       joinVars, panicked, network>>
    BY <1>2 DEF CommitExecute
  <2>3. cmax \in 0 .. MaxOp /\ commit_max[r] <= cmax /\ (commit_max[r] <= op[r] => cmax <= op[r])
    BY <2>1 DEF MaxOf, IndInv, TypeOK, Ops
  <2>4. ready \in BOOLEAN /\ (ready => this < MaxOp)
    <3>1. this \in Int /\ op[r] \in Int /\ op[r] <= MaxOp
      BY <2>1, BoundAssumption DEF Ops
    <3>2. CASE primary
      BY <3>1, <3>2, BoundAssumption DEF PipelineReady
    <3>3. CASE ~primary
      <4>1. ready = JournalReady(journal[r], op[r], this, cmax, Normal(r))
        BY <3>3
      <4>2. JournalReady(journal[r], op[r], this, cmax, Normal(r)) \in BOOLEAN
        BY DEF JournalReady, Normal
      <4>3. JournalReady(journal[r], op[r], this, cmax, Normal(r)) => this < op[r]
        BY DEF JournalReady
      <4> QED BY <3>1, <4>1, <4>2, <4>3, BoundAssumption
    <3> QED BY <3>2, <3>3
  <2> HIDE DEF ready, cmax, why
  <2>5. TypeOK'
    <3>1. journal[r][this] \in Slot /\ dirty[r] \ {this} \in SUBSET Ops
      BY <2>1 DEF IndInv, TypeOK
    <3>2. this \in 0 .. MaxOp
      BY <2>1 DEF Ops
    <3> QED BY <2>2, <2>3, <2>4, <3>1, <3>2 DEF IndInv, TypeOK
  <2>6. Statuses' /\ EmptyAhead' /\ Joinable' /\ JoinsArrived'
    BY <2>2 DEF IndInv, Statuses, EmptyAhead, Joinable, JoinsArrived, Received, Normal
  <2>7. PrimaryLog'
    <3> SUFFICES ASSUME NEW q \in Replicas, Normal(q)', IsPrimary(q)'
                 PROVE  /\ commit_max'[q] <= op'[q]
                        /\ \A o \in Ops : o <= op'[q] =>
                             journal'[q][o] # NoHeader /\ journal'[q][o].commit <= commit_max'[q]
      BY DEF PrimaryLog
    <3>1. /\ commit_max[q] <= op[q]
          /\ \A o \in Ops : o <= op[q] =>
               journal[q][o] # NoHeader /\ journal[q][o].commit <= commit_max[q]
      BY <2>2 DEF IndInv, PrimaryLog, Normal, IsPrimary
    <3>2. CASE q # r
      BY <2>2, <3>1, <3>2, Typed
    <3>3. CASE q = r
      <4>1. commit_max'[q] = cmax
        BY <2>2, <3>3, Typed
      <4>2. ASSUME NEW o \in Ops, o <= op[q]
            PROVE  journal[q][o].commit \in Int
        BY <3>1, <4>2 DEF IndInv, TypeOK, Slot, Header
      <4>3. commit_max[q] \in Int /\ cmax \in Int
        BY <2>3, Typed
      <4> QED BY <2>2, <2>3, <3>1, <3>3, <4>1, <4>2, <4>3
    <3> QED BY <3>2, <3>3
  <2>8. Executed'
    <3> SUFFICES ASSUME NEW q \in Replicas
                 PROVE  /\ committing'[q] => commit_min'[q] < MaxOp
                        /\ \A o \in Ops :
                             /\ journal'[q][o] # NoHeader /\ o \notin dirty'[q] => o <= commit_min'[q]
                             /\ o <= commit_min'[q] =>
                                  journal'[q][o] # NoHeader /\ journal'[q][o] = prepares'[q][o]
      BY DEF Executed
    <3>1. CASE q # r
      BY <2>2, <3>1 DEF IndInv, Executed, TypeOK
    <3>2. CASE q = r
      <4>1. /\ committing'[q] = ready /\ commit_min'[q] = this
            /\ dirty'[q] = dirty[q] \ {this}
            /\ prepares'[q] = [prepares[q] EXCEPT ![this] = journal[q][this]]
            /\ prepares[q] \in [Ops -> Slot] /\ commit_min[q] \in 0 .. MaxOp
        BY <2>2, <3>2 DEF IndInv, TypeOK
      <4>2. \A o \in Ops :
              /\ journal[q][o] # NoHeader /\ o \notin dirty[q] => o <= commit_min[q]
              /\ o <= commit_min[q] => journal[q][o] # NoHeader /\ journal[q][o] = prepares[q][o]
        BY DEF IndInv, Executed
      <4>3. journal'[q] = journal[q] /\ this = commit_min[q] + 1
        BY <2>2, <3>2
      <4>4. ASSUME NEW o \in Ops, journal[q][o] # NoHeader, o \notin dirty'[q]
            PROVE  o <= this
        BY <4>1, <4>2, <4>3, <4>4 DEF Ops
      <4>5. ASSUME NEW o \in Ops, o <= this
            PROVE  journal[q][o] # NoHeader /\ journal[q][o] = prepares'[q][o]
        <5>1. CASE o = this
          BY <2>1, <3>2, <4>1, <5>1
        <5>2. CASE o # this
          BY <4>1, <4>2, <4>3, <4>5, <5>2 DEF Ops
        <5> QED BY <5>1, <5>2
      <4> QED BY <2>4, <4>1, <4>3, <4>4, <4>5
    <3> QED BY <3>1, <3>2
  <2>9. Messages'
    BY <2>2 DEF IndInv, Messages, Possible, Promised
  <2>10. PICK L \in Logs : OneLogPerView(L)
    BY DEF IndInv
  <2>11. OneLogPerView(L)'
    BY <2>2, <2>10 DEF OneLogPerView, OfPrimaries, Held, Normal, IsPrimary
  <2> QED BY <2>5, <2>6, <2>7, <2>8, <2>9, <2>10, <2>11 DEF IndInv
<1> QED BY <1>1, <1>2

-----------------------------------------------------------------------------
(* Steps that add to the log of a replica in its view *)

\* The log of r gets the head and the slots given and keeps the headers it has;
\* what is sent is true.
Grows(r, head, slots, rest, cmax) ==
  /\ op' = [op EXCEPT ![r] = head] /\ journal' = [journal EXCEPT ![r] = slots]
  /\ dirty' = [dirty EXCEPT ![r] = rest] /\ commit_max' = [commit_max EXCEPT ![r] = cmax]
  /\ UNCHANGED <<viewVars, commit_min, prepares, exitVars, commit_timer, joinVars, panicked>>
  /\ committing' \in [Replicas -> BOOLEAN]
  /\ \A q \in Replicas : committing'[q] => commit_min[q] < MaxOp
  /\ acks' \in [Replicas -> [Ops -> SUBSET Replicas]]
  /\ \A o \in Ops : /\ o > head => slots[o] = NoHeader
                    /\ journal[r][o] # NoHeader => slots[o] = journal[r][o]
                    /\ slots[o] # NoHeader /\ o \notin rest => o <= commit_min[r]
  /\ IsPrimary(r) => /\ cmax <= head
                     /\ \A o \in Ops : o <= head =>
                          slots[o] # NoHeader /\ slots[o].commit <= cmax
  /\ network \subseteq network'
  /\ \A m \in network' : m \notin network => m \in Message /\ Possible(m) /\ Promised(m)'

LEMMA LogGrows ==
  ASSUME IndInv, NEW r \in Replicas, Normal(r),
         NEW head \in 0 .. MaxOp, NEW slots \in [Ops -> Slot], NEW rest \in SUBSET Ops,
         NEW cmax \in 0 .. MaxOp, Grows(r, head, slots, rest, cmax),
         NEW L \in Logs, OneLogPerView(L)'
  PROVE  IndInv'
<1> USE DEF viewVars, exitVars, joinVars, Grows
<1>1. /\ op \in [Replicas -> 0 .. MaxOp] /\ journal \in [Replicas -> [Ops -> Slot]]
      /\ dirty \in [Replicas -> SUBSET Ops] /\ commit_max \in [Replicas -> 0 .. MaxOp]
      /\ commit_min \in [Replicas -> 0 .. MaxOp]
  BY DEF IndInv, TypeOK
<1>2. /\ op'[r] = head /\ journal'[r] = slots /\ dirty'[r] = rest /\ commit_max'[r] = cmax
      /\ \A q \in Replicas \ {r} : /\ op'[q] = op[q] /\ journal'[q] = journal[q]
                                   /\ dirty'[q] = dirty[q] /\ commit_max'[q] = commit_max[q]
  BY <1>1
<1>3. JoinsArrived'
  BY DEF IndInv, JoinsArrived, Received
<1>4. TypeOK'
  <2>1. \A q, p \in Replicas : joins'[q][p] # NoJoin => joins'[q][p] \in network'
    BY <1>3 DEF JoinsArrived, Received
  <2>2. \A m \in network' : m \in Message
    BY DEF IndInv, TypeOK
  <2> QED BY <1>1, <2>1, <2>2 DEF IndInv, TypeOK
<1>5. Statuses' /\ EmptyAhead' /\ PrimaryLog'
  BY <1>2 DEF IndInv, Statuses, EmptyAhead, PrimaryLog, Normal, IsPrimary
<1>6. Joinable'
  BY <1>2 DEF IndInv, Joinable, Normal
<1>7. Executed'
  <2> SUFFICES ASSUME NEW q \in Replicas, NEW o \in Ops
               PROVE  /\ journal'[q][o] # NoHeader /\ o \notin dirty'[q] => o <= commit_min[q]
                      /\ o <= commit_min[q] =>
                           journal'[q][o] # NoHeader /\ journal'[q][o] = prepares[q][o]
    BY DEF Executed
  <2>1. /\ journal[q][o] # NoHeader /\ o \notin dirty[q] => o <= commit_min[q]
        /\ o <= commit_min[q] => journal[q][o] # NoHeader /\ journal[q][o] = prepares[q][o]
    BY DEF IndInv, Executed
  <2>2. CASE q = r
    BY <1>2, <2>1, <2>2
  <2>3. CASE q # r
    BY <1>2, <2>1, <2>3
  <2> QED BY <2>2, <2>3
<1>8. Messages'
  <2> SUFFICES ASSUME NEW m \in network PROVE Possible(m) /\ Promised(m)'
    BY DEF Messages, Possible
  <2>1. Possible(m) /\ Promised(m)
    BY DEF IndInv, Messages
  <2>2. CASE m.type = "prepare_ok"
    <3>1. m.from \in Replicas /\ m.op \in Ops /\ m.header \in Header
      BY <2>2, MessageFields DEF IndInv, TypeOK
    <3> QED BY <1>2, <2>1, <2>2, <3>1, HeadersAreNotEmpty DEF Promised
  <2>3. CASE m.type # "prepare_ok"
    BY <2>1, <2>3 DEF Promised
  <2> QED BY <2>1, <2>2, <2>3
<1> QED BY <1>3, <1>4, <1>5, <1>6, <1>7, <1>8 DEF IndInv

\* The logs stay the same when a replica gets to hold more of one.
LEMMA SameLogs ==
  ASSUME IndInv, NEW r \in Replicas,
         NEW L \in Logs, OneLogPerView(L),
         NEW head \in 0 .. MaxOp, NEW slots \in [Ops -> Slot],
         op' = [op EXCEPT ![r] = head], journal' = [journal EXCEPT ![r] = slots],
         UNCHANGED viewVars, op[r] <= head,
         \A o \in Ops : slots[o] \in {NoHeader, L[log_view[r]][o]},
         \A m \in network' : m \notin network => Agrees(L, m)
  PROVE  OneLogPerView(L)'
<1> USE DEF viewVars
<1>1. /\ op \in [Replicas -> 0 .. MaxOp] /\ journal \in [Replicas -> [Ops -> Slot]]
  BY DEF IndInv, TypeOK
<1>2. OfPrimaries(L)'
  BY <1>1 DEF OneLogPerView, OfPrimaries, Normal, IsPrimary, Ops
<1>3. Held(L)'
  BY <1>1 DEF OneLogPerView, Held
<1> QED BY <1>2, <1>3 DEF OneLogPerView

\* The head of a log is beyond what its view lists: the head that jumps is not there.
LEMMA OnPrepareFutureKeeps ==
  ASSUME IndInv, NEW r \in Replicas, NEW m \in Received("prepare"), OnPrepareFuture(r, m)
  PROVE  IndInv'
<1> USE DEF logVars, commitVars, exitVars, joinVars, viewVars
<1>1. CASE journal[r][m.op - 1] # NoHeader
  BY <1>1, PanicKeeps DEF OnPrepareFuture, PanicKind
<1>2. CASE journal[r][m.op - 1] = NoHeader
  <2> DEFINE head == m.op - 1
             cmax == MaxOf(commit_max[r], m.header.commit)
  <2>1. m \in network /\ m.op \in Ops /\ m.header \in Header
    BY MessageFields DEF Received, IndInv, TypeOK
  <2>2. /\ op[r] \in 0 .. MaxOp /\ journal[r] \in [Ops -> Slot] /\ dirty[r] \in SUBSET Ops
        /\ commit_max[r] \in 0 .. MaxOp
    BY DEF IndInv, TypeOK
  <2>3. head \in 0 .. MaxOp /\ op[r] <= head /\ cmax \in 0 .. MaxOp
    <3>1. m.op > op[r] + 1
      BY DEF OnPrepareFuture
    <3>2. m.header.commit \in 0 .. MaxOp
      BY <2>1 DEF Header
    <3> QED BY <2>1, <2>2, <3>1, <3>2, BoundAssumption DEF MaxOf, Ops
  <2>4. /\ Normal(r) /\ ~IsPrimary(r)
        /\ op' = [op EXCEPT ![r] = head]
        /\ journal' = [journal EXCEPT ![r] = journal[r]]
        /\ dirty' = [dirty EXCEPT ![r] = dirty[r]]
        /\ commit_max' = [commit_max EXCEPT ![r] = cmax]
        /\ UNCHANGED <<viewVars, commitVars, acks, exitVars, commit_timer, joinVars, panicked, network>>
    BY <1>2 DEF OnPrepareFuture, IndInv, TypeOK
  <2>5. PICK L \in Logs : OneLogPerView(L)
    BY DEF IndInv
  <2> HIDE DEF head, cmax
  <2>6. OneLogPerView(L)'
    BY <2>2, <2>3, <2>4, <2>5, SameLogs DEF OneLogPerView, Held
  <2>7. \A o \in Ops : /\ o > head => journal[r][o] = NoHeader
                       /\ journal[r][o] # NoHeader /\ o \notin dirty[r] => o <= commit_min[r]
    BY <2>2, <2>3 DEF IndInv, EmptyAhead, Executed, Ops
  <2>8. /\ committing' = committing /\ acks' = acks /\ network' = network
        /\ commit_min' = commit_min /\ prepares' = prepares
    BY <2>4
  <2>9. /\ committing' \in [Replicas -> BOOLEAN]
        /\ \A q \in Replicas : committing'[q] => commit_min[q] < MaxOp
        /\ acks' \in [Replicas -> [Ops -> SUBSET Replicas]]
    BY <2>8, Typed
  <2>10. Grows(r, head, journal[r], dirty[r], cmax)
    BY <2>4, <2>7, <2>8, <2>9 DEF Grows
  <2> QED BY <2>2, <2>3, <2>4, <2>6, <2>10, LogGrows
<1> QED BY <1>1, <1>2

\* What a message says of the logs stays true when they get longer.
LEMMA LongerLogsAgree ==
  ASSUME IndInv, NEW L \in Logs, NEW M \in Logs, OneLogPerView(L),
         \A u \in Views, k \in Ops : L[u][k] # NoHeader => M[u][k] = L[u][k],
         NEW m \in network
  PROVE  Agrees(M, m)
<1>1. Agrees(L, m) /\ Possible(m) /\ m \in Message
  BY DEF OneLogPerView, IndInv, Messages, TypeOK
<1>2. CASE m.type = "prepare"
  BY <1>1, <1>2, MessageFields, HeadersAreNotEmpty DEF Agrees, Header
<1>3. CASE m.type = "commit"
  BY <1>1, <1>3, MessageFields DEF Agrees, Possible, Ops
<1>4. CASE m.type = "view"
  BY <1>1, <1>4, MessageFields DEF Agrees
<1>5. CASE m.type = "join_view"
  <2>1. m.log_view \in Views
    BY <1>1, <1>5 DEF Message, JoinView
  <2> QED BY <1>1, <1>5, <2>1 DEF Agrees
<1>6. CASE m.type \notin {"prepare", "commit", "view", "join_view"}
  BY <1>6 DEF Agrees
<1> QED BY <1>2, <1>3, <1>4, <1>5, <1>6

\* The primary adds the prepare to the log of its view, in a slot that no replica
\* and no message holds anything for.
LEMMA OnRequestKeeps ==
  ASSUME IndInv, NEW r \in Replicas, OnRequest(r)
  PROVE  IndInv'
<1> USE DEF logVars, commitVars, exitVars, joinVars, viewVars
<1> DEFINE v == view[r]
           o == op[r] + 1
           h == [view |-> v, parent |-> HeaderAt(journal[r], op[r]).view, commit |-> commit_max[r]]
           p == [type |-> "prepare", op |-> o, header |-> h]
           slots == [journal[r] EXCEPT ![o] = h]
<1>1. /\ op \in [Replicas -> 0 .. MaxOp] /\ journal \in [Replicas -> [Ops -> Slot]]
      /\ dirty \in [Replicas -> SUBSET Ops] /\ commit_max \in [Replicas -> 0 .. MaxOp]
      /\ view \in [Replicas -> Views] /\ commit_min \in [Replicas -> 0 .. MaxOp]
  BY DEF IndInv, TypeOK
<1>2. Normal(r) /\ PrimaryOf(v) = r /\ log_view[r] = v /\ op[r] < MaxOp
  BY DEF OnRequest, MayPrepare, IsPrimary, IndInv, Statuses
<1>3. o \in Ops /\ op[r] \in 0 .. MaxOp /\ v \in Views
  BY <1>1, <1>2, BoundAssumption DEF Ops
<1>4. /\ commit_max[r] <= op[r] /\ commit_max[r] \in 0 .. MaxOp
      /\ \A k \in Ops : k <= op[r] => journal[r][k] # NoHeader /\ journal[r][k].commit <= commit_max[r]
  BY <1>1, <1>2 DEF IndInv, PrimaryLog, IsPrimary
<1>5. HeaderAt(journal[r], op[r]).view \in Views
  <2>1. op[r] > 0 => op[r] \in Ops /\ journal[r][op[r]] \in Header
    <3>1. op[r] > 0 => op[r] \in Ops
      BY <1>3, BoundAssumption DEF Ops
    <3>2. op[r] > 0 => journal[r][op[r]] \in Slot /\ journal[r][op[r]] # NoHeader
      BY <1>1, <1>3, <1>4, <3>1
    <3> QED BY <3>1, <3>2 DEF Slot
  <2>2. op[r] = 0 => HeaderAt(journal[r], op[r]).view = 0
    BY DEF HeaderAt, Root
  <2> QED BY <1>3, <2>1, <2>2, BoundAssumption DEF HeaderAt, Header, Views
<1>6. /\ h \in Header /\ h.view = v /\ h.parent = HeaderAt(journal[r], op[r]).view
      /\ h.commit = commit_max[r]
  BY <1>3, <1>4, <1>5 DEF Header
<1>7. /\ op' = [op EXCEPT ![r] = o] /\ journal' = [journal EXCEPT ![r] = slots]
      /\ dirty' = [dirty EXCEPT ![r] = dirty[r] \cup {o}]
      /\ acks' = [acks EXCEPT ![r] = [acks[r] EXCEPT ![o] = {r}]]
      /\ network' = network \cup {p}
      /\ UNCHANGED <<viewVars, commit_max, commitVars, exitVars, commit_timer, joinVars, panicked>>
  BY <1>1 DEF OnRequest, Send
<1> HIDE DEF h
<1>8. \A m \in {p} : m \in Message /\ Possible(m) /\ Promised(m)'
  BY <1>3, <1>6 DEF Message, Possible, Promised
<1>9. slots \in [Ops -> Slot] /\ h # NoHeader
  BY <1>1, <1>3, <1>6, HeadersAreNotEmpty DEF Slot
<1>10. PICK L \in Logs : OneLogPerView(L)
  BY DEF IndInv
<1>11. \A k \in Ops : k > op[r] => L[v][k] = NoHeader
  BY <1>2, <1>10 DEF OneLogPerView, OfPrimaries, IsPrimary
<1>12. \A k \in Ops : k <= op[r] => L[v][k] = journal[r][k]
  BY <1>2, <1>4, <1>10 DEF OneLogPerView, Held
<1>13. PICK M \in Logs : /\ \A u \in Views : u # v => M[u] = L[u]
                         /\ \A k \in Ops : k # o => M[v][k] = L[v][k]
                         /\ M[v][o] = h
  <2> DEFINE K == [L EXCEPT ![v] = [L[v] EXCEPT ![o] = h]]
  <2>1. /\ K \in Logs
        /\ \A u \in Views : u # v => K[u] = L[u]
        /\ \A k \in Ops : k # o => K[v][k] = L[v][k]
        /\ K[v][o] = h
    BY <1>3, <1>6, <1>9 DEF Logs, Slot
  <2> HIDE DEF K
  <2> QED BY <2>1
<1>14. Chained(M)
  <2> SUFFICES ASSUME NEW u \in Views, NEW x \in Ops, M[u][x] # NoHeader
               PROVE  /\ x > 1 => M[u][x - 1] # NoHeader
                      /\ M[u][x].parent = HeaderAt(M[u], x - 1).view
                      /\ M[u][x].view <= u /\ M[u][x].commit < x
                      /\ \A k \in Ops : k <= x => M[M[u][x].view][k] = M[u][k]
    BY DEF Chained
  <2>1. CASE u = v /\ x = o
    <3>1. x - 1 = op[r] /\ x \in Int /\ u \in Int
      BY <1>3, <2>1 DEF Views
    <3>2. x > 1 => op[r] \in Ops /\ M[u][x - 1] = journal[r][op[r]] /\ journal[r][op[r]] # NoHeader
      BY <1>3, <1>4, <1>12, <1>13, <2>1, <3>1 DEF Ops
    <3>3. HeaderAt(M[u], x - 1).view = HeaderAt(journal[r], op[r]).view
      BY <1>3, <3>1, <3>2 DEF HeaderAt
    <3>4. M[u][x] = h /\ M[u][x].view = u
      BY <1>6, <1>13, <2>1
    <3>5. commit_max[r] < x
      BY <1>3, <1>4, <2>1
    <3> QED BY <1>6, <3>1, <3>2, <3>3, <3>4, <3>5
  <2>2. CASE ~(u = v /\ x = o)
    <3>1. M[u][x] = L[u][x] /\ L[u][x] # NoHeader
      BY <1>13, <2>2
    <3>2. L[u][x] \in Header /\ L[u][x].view \in Views
      BY <1>10, <3>1 DEF Logs, Slot, Header
    <3>3. /\ x > 1 => L[u][x - 1] # NoHeader
          /\ L[u][x].parent = HeaderAt(L[u], x - 1).view
          /\ L[u][x].view <= u /\ L[u][x].commit < x
          /\ \A k \in Ops : k <= x => L[L[u][x].view][k] = L[u][k]
      BY <1>10, <3>1 DEF OneLogPerView, Chained
    <3>4. u = v => x <= op[r]
      BY <1>3, <1>11, <3>1 DEF Ops
    <3>5. L[u][x].view = v => x <= op[r]
      BY <1>3, <1>11, <3>1, <3>3 DEF Ops
    <3>6. \A k \in Ops : k <= x => M[u][k] = L[u][k]
      BY <1>3, <1>13, <3>4 DEF Ops
    <3>7. \A k \in Ops : k <= x => M[L[u][x].view][k] = L[L[u][x].view][k]
      BY <1>3, <1>13, <3>2, <3>5 DEF Ops
    <3>8. HeaderAt(M[u], x - 1) = HeaderAt(L[u], x - 1)
      BY <3>6, BoundAssumption DEF HeaderAt, Ops
    <3>9. x > 1 => x - 1 \in Ops /\ M[u][x - 1] = L[u][x - 1]
      BY <3>6, BoundAssumption DEF Ops
    <3> QED BY <3>1, <3>3, <3>6, <3>7, <3>8, <3>9
  <2> QED BY <2>1, <2>2
<1>15. OfPrimaries(M)'
  <2>1. ASSUME NEW q \in Replicas, NEW u \in Views, PrimaryOf(u) = q, log_view[q] < u
        PROVE  \A k \in Ops : M[u][k] = NoHeader
    <3>1. u # v
      BY <1>2, <1>3, <2>1 DEF Views
    <3> QED BY <1>10, <1>13, <2>1, <3>1 DEF OneLogPerView, OfPrimaries
  <2>2. ASSUME NEW q \in Replicas, Normal(q), IsPrimary(q), NEW k \in Ops, k > op'[q]
        PROVE  M[view[q]][k] = NoHeader
    <3>1. CASE q = r
      <4>1. op'[q] = o
        BY <1>1, <1>7, <3>1
      <4>2. k # o /\ k > op[r]
        BY <1>3, <2>2, <4>1 DEF Ops
      <4> QED BY <1>11, <1>13, <3>1, <4>2
    <3>2. CASE q # r
      <4>1. view[q] # v /\ view[q] \in Views /\ op'[q] = op[q]
        BY <1>1, <1>2, <1>7, <2>2, <3>2 DEF IsPrimary
      <4> QED BY <1>10, <1>13, <2>2, <4>1 DEF OneLogPerView, OfPrimaries
    <3> QED BY <3>1, <3>2
  <2> QED BY <1>7, <2>1, <2>2 DEF OfPrimaries, Normal, IsPrimary
<1>16. Held(M)'
  <2> SUFFICES ASSUME NEW q \in Replicas, NEW k \in Ops
               PROVE  journal'[q][k] \in {NoHeader, M[log_view[q]][k]}
    BY <1>7 DEF Held
  <2>1. journal[q][k] \in {NoHeader, L[log_view[q]][k]} /\ log_view[q] \in Views
    BY <1>10 DEF OneLogPerView, Held, IndInv, TypeOK
  <2>2. CASE q = r /\ k = o
    BY <1>1, <1>2, <1>3, <1>7, <1>13, <2>2
  <2>3. CASE ~(q = r /\ k = o)
    <3>1. journal'[q][k] = journal[q][k]
      BY <1>1, <1>3, <1>7, <2>3
    <3>2. log_view[q] = v /\ k = o => L[log_view[q]][k] = NoHeader
      BY <1>3, <1>11
    <3> QED BY <1>13, <2>1, <3>1, <3>2
  <2> QED BY <2>2, <2>3
<1>17. ASSUME NEW m \in network' PROVE Agrees(M, m)
  <2>1. Agrees(M, p)
    BY <1>6, <1>13 DEF Agrees
  <2>2. \A u \in Views, k \in Ops : L[u][k] # NoHeader => M[u][k] = L[u][k]
    BY <1>3, <1>11, <1>13
  <2> QED BY <1>7, <1>10, <2>1, <2>2, LongerLogsAgree
<1>18. OneLogPerView(M)'
  BY <1>13, <1>14, <1>15, <1>16, <1>17 DEF OneLogPerView
<1>19. Grows(r, o, slots, dirty[r] \cup {o}, commit_max[r])
  <2>1. /\ acks' \in [Replicas -> [Ops -> SUBSET Replicas]]
        /\ committing' \in [Replicas -> BOOLEAN]
        /\ \A q \in Replicas : committing'[q] => commit_min[q] < MaxOp
    BY <1>3, <1>7, Typed
  <2>2. ASSUME NEW k \in Ops
        PROVE  /\ k > o => slots[k] = NoHeader
               /\ journal[r][k] # NoHeader => slots[k] = journal[r][k]
               /\ slots[k] # NoHeader /\ k \notin dirty[r] \cup {o} => k <= commit_min[r]
               /\ k <= o => slots[k] # NoHeader /\ slots[k].commit <= commit_max[r]
    <3>1. CASE k = o
      BY <1>1, <1>3, <1>4, <1>6, <1>9, <3>1 DEF IndInv, EmptyAhead
    <3>2. CASE k # o
      BY <1>1, <1>3, <1>4, <3>2 DEF IndInv, EmptyAhead, Executed, Ops
    <3> QED BY <3>1, <3>2
  <2>3. commit_max[r] <= o /\ commit_max' = [commit_max EXCEPT ![r] = commit_max[r]]
    BY <1>1, <1>3, <1>4, <1>7
  <2> HIDE DEF o, slots, p
  <2> QED BY <1>7, <1>8, <2>1, <2>2, <2>3 DEF Grows
<1>20. o \in 0 .. MaxOp /\ dirty[r] \cup {o} \in SUBSET Ops
  BY <1>1, <1>3 DEF Ops
<1> QED BY <1>2, <1>4, <1>9, <1>13, <1>18, <1>19, <1>20, LogGrows

\* A prepare is a header of the log of its view.
LEMMA PreparesAreTrue ==
  ASSUME IndInv, NEW m \in Received("prepare"), NEW L \in Logs, OneLogPerView(L)
  PROVE  /\ m.op \in Ops /\ m.header \in Header /\ m.header # NoHeader
         /\ m.header = L[m.header.view][m.op]
BY MessageFields, HeadersAreNotEmpty DEF Received, IndInv, TypeOK, OneLogPerView, Agrees

\* The answer to a prepare that the log holds.
LEMMA PrepareOkIsTrue ==
  ASSUME IndInv, NEW r \in Replicas, NEW v \in Views, NEW o \in Ops, NEW h \in Header,
         log_view'[r] = v, journal'[r][o] = h
  PROVE  \A m : m = PrepareOk(r, v, o, h) =>
           m \in Message /\ Possible(m) /\ Promised(m)' /\ \A L \in Logs : Agrees(L, m)
<1> SUFFICES ASSUME NEW m, m = PrepareOk(r, v, o, h)
             PROVE  m \in Message /\ Possible(m) /\ Promised(m)' /\ \A L \in Logs : Agrees(L, m)
  OBVIOUS
<1>1. m.type = "prepare_ok" /\ m.from = r /\ m.view = v /\ m.op = o /\ m.header = h
  BY DEF PrepareOk
<1>2. m \in Message
  BY DEF PrepareOk, Message
<1>3. Promised(m)'
  <2>1. v <= v
    BY DEF Views
  <2> QED BY <1>1, <2>1 DEF Promised
<1> QED BY <1>1, <1>2, <1>3 DEF Possible, Agrees

LEMMA OnPrepareAcceptedKeeps ==
  ASSUME IndInv, NEW r \in Replicas, NEW m \in Received("prepare"), OnPrepareAccepted(r, m)
  PROVE  IndInv'
<1> USE DEF logVars, commitVars, exitVars, joinVars, viewVars
<1> DEFINE refuted == /\ m.op > 1 /\ journal[r][m.op - 1] # NoHeader
                      /\ journal[r][m.op - 1].view # m.header.parent
<1>1. CASE refuted
  BY <1>1, PanicKeeps DEF OnPrepareAccepted, PanicKind
<1>2. CASE ~refuted
  <2> DEFINE slots == [journal[r] EXCEPT ![m.op] = m.header]
             cmax  == MaxOf(commit_max[r], m.header.commit)
             ok    == PrepareOk(r, view[r], m.op, m.header)
  <2>1. PICK L \in Logs : OneLogPerView(L)
    BY DEF IndInv
  <2>2. /\ m.op \in Ops /\ m.header \in Header /\ m.header # NoHeader
        /\ m.header = L[m.header.view][m.op]
    BY <2>1, PreparesAreTrue
  <2>3. /\ Normal(r) /\ ~IsPrimary(r) /\ m.header.view = view[r] /\ m.op = op[r] + 1
        /\ log_view[r] = view[r]
    BY DEF OnPrepareAccepted, Follows, IndInv, Statuses
  <2>4. /\ op \in [Replicas -> 0 .. MaxOp] /\ journal \in [Replicas -> [Ops -> Slot]]
        /\ dirty \in [Replicas -> SUBSET Ops] /\ commit_max \in [Replicas -> 0 .. MaxOp]
        /\ view[r] \in Views /\ log_view \in [Replicas -> Views]
    BY DEF IndInv, TypeOK
  <2>5. /\ op' = [op EXCEPT ![r] = m.op] /\ journal' = [journal EXCEPT ![r] = slots]
        /\ dirty' = [dirty EXCEPT ![r] = dirty[r] \cup {m.op}]
        /\ commit_max' = [commit_max EXCEPT ![r] = cmax]
        /\ CommitJournal(r, slots, m.op, cmax)
        /\ network' = network \cup ({ok} \cup RepairRequest(r, m.op, cmax))
        /\ UNCHANGED <<viewVars, commit_min, prepares, acks, exitVars, commit_timer,
                       joinVars, panicked>>
    BY <1>2, <2>4 DEF OnPrepareAccepted, Send
  <2>6. /\ slots \in [Ops -> Slot] /\ cmax \in 0 .. MaxOp /\ m.op \in 0 .. MaxOp
        /\ dirty[r] \cup {m.op} \in SUBSET Ops
    <3>1. m.header.commit \in 0 .. MaxOp /\ commit_max[r] \in 0 .. MaxOp
      BY <2>2, <2>4 DEF Header
    <3>2. slots \in [Ops -> Slot]
      BY <2>2, <2>4 DEF Slot
    <3> QED BY <2>2, <2>4, <3>1, <3>2 DEF MaxOf, Ops
  <2>7. journal'[r][m.op] = m.header /\ log_view'[r] = view[r]
    BY <2>2, <2>3, <2>4, <2>5
  <2>8. \A x \in network' : x \notin network =>
          /\ x \in Message /\ Possible(x) /\ Promised(x)'
          /\ \A K \in Logs : Agrees(K, x)
    <3>1. ASSUME NEW x, x = ok
          PROVE  x \in Message /\ Possible(x) /\ Promised(x)' /\ \A K \in Logs : Agrees(K, x)
      BY <2>2, <2>4, <2>7, <3>1, PrepareOkIsTrue
    <3>2. ASSUME NEW x \in RepairRequest(r, m.op, cmax)
          PROVE  x \in Message /\ Possible(x) /\ Promised(x)' /\ \A K \in Logs : Agrees(K, x)
      <4>1. x.type = "get_view"
        BY DEF RepairRequest
      <4> QED BY <4>1, RepairRequestIsTrue DEF Promised
    <3> QED BY <2>5, <3>1, <3>2
  <2>9. \A o \in Ops : slots[o] \in {NoHeader, L[log_view[r]][o]}
    BY <2>1, <2>2, <2>3, <2>4 DEF OneLogPerView, Held
  <2>10. /\ committing' \in [Replicas -> BOOLEAN]
         /\ \A q \in Replicas : committing'[q] => commit_min[q] < MaxOp
         /\ acks' \in [Replicas -> [Ops -> SUBSET Replicas]]
    BY <2>5, <2>6, CommitJournalKeeps, Typed
  <2>11. \A o \in Ops : /\ o > m.op => slots[o] = NoHeader
                        /\ journal[r][o] # NoHeader => slots[o] = journal[r][o]
                        /\ slots[o] # NoHeader /\ o \notin dirty[r] \cup {m.op}
                             => o <= commit_min[r]
    BY <2>2, <2>3, <2>4 DEF IndInv, EmptyAhead, Executed, Ops
  <2> HIDE DEF slots, cmax, ok
  <2>12. OneLogPerView(L)'
    <3>1. op[r] <= m.op
      BY <2>3, <2>4
    <3>2. \A x \in network' : x \notin network => Agrees(L, x)
      BY <2>8
    <3> QED BY <2>1, <2>5, <2>6, <2>9, <3>1, <3>2, SameLogs
  <2>13. Grows(r, m.op, slots, dirty[r] \cup {m.op}, cmax)
    BY <2>3, <2>5, <2>8, <2>10, <2>11 DEF Grows
  <2> QED BY <2>3, <2>6, <2>12, <2>13, LogGrows
<1> QED BY <1>1, <1>2

\* What repairs a log is a header of it: either the head descends from the header's
\* view, or the chain up to the head ends at that view.
LEMMA RepairIsOfTheLog ==
  ASSUME IndInv, NEW r \in Replicas, NEW m \in Received("prepare"),
         NEW L \in Logs, OneLogPerView(L), m.op <= op[r],
         RepairsHeader(r, m.op, m.header)
  PROVE  m.header = L[log_view[r]][m.op]
<1> DEFINE v == log_view[r]
           o == m.op
<1>1. /\ o \in Ops /\ m.header \in Header /\ m.header # NoHeader
      /\ m.header = L[m.header.view][o] /\ m.header.view \in Views
  BY PreparesAreTrue DEF Header
<1>2. op[r] \in Ops /\ v \in Views
  BY <1>1 DEF IndInv, TypeOK, Ops
<1>3. \A k \in Ops : journal[r][k] # NoHeader => journal[r][k] = L[v][k]
  BY DEF OneLogPerView, Held
<1>4. \A k \in Ops : L[v][k] # NoHeader =>
        /\ k > 1 => L[v][k - 1] # NoHeader
        /\ L[v][k].parent = HeaderAt(L[v], k - 1).view
        /\ \A n \in Ops : n <= k => L[L[v][k].view][n] = L[v][n]
  BY <1>2 DEF OneLogPerView, Chained
<1>5. CASE journal[r][op[r]] # NoHeader /\ journal[r][op[r]].view = m.header.view
  BY <1>1, <1>2, <1>3, <1>4, <1>5
<1>6. CASE Connects(r, o, m.header) /\ o < op[r]
  <2>1. o + 1 \in Ops /\ o + 1 <= op[r] /\ MaxOf(o + 1, 1) = o + 1
    BY <1>1, <1>2, <1>6, BoundAssumption DEF Ops, MaxOf
  <2>2. journal[r][o + 1] # NoHeader /\ journal[r][o + 1].parent = m.header.view
    BY <1>2, <1>6, <2>1 DEF Connects, Chain, Ops
  <2>3. /\ L[v][o] # NoHeader /\ L[v][o].view = m.header.view
    BY <1>1, <1>3, <1>4, <2>1, <2>2 DEF HeaderAt, Ops
  <2> QED BY <1>1, <1>4, <2>3 DEF Ops
<1>7. CASE o >= op[r]
  <2>1. o = op[r] /\ journal[r][o] = m.header
    BY <1>1, <1>2, <1>7 DEF RepairsHeader, Ops
  <2> QED BY <1>1, <1>3, <2>1
<1> QED BY <1>1, <1>2, <1>5, <1>6, <1>7 DEF RepairsHeader, Ops

LEMMA OnRepairKeeps ==
  ASSUME IndInv, NEW r \in Replicas, NEW m \in Received("prepare"), OnRepair(r, m)
  PROVE  IndInv'
<1> USE DEF logVars, commitVars, exitVars, joinVars, viewVars
<1> DEFINE fixed == [journal[r] EXCEPT ![m.op] = m.header]
           fills == ~Clean(r, m.op, m.header) /\ RepairsHeader(r, m.op, m.header)
           fails == Repairing(r) /\ fills /\ fixed[op[r]] = NoHeader
<1>1. CASE fails
  BY <1>1, PanicKeeps DEF OnRepair, PanicKind
<1>2. CASE ~fails
  <2> DEFINE slots == IF fills THEN fixed ELSE journal[r]
             rest  == IF fills THEN dirty[r] \cup {m.op} ELSE dirty[r]
             ok    == PrepareOk(r, view[r], m.op, m.header)
  <2>1. PICK L \in Logs : OneLogPerView(L)
    BY DEF IndInv
  <2>2. /\ m.op \in Ops /\ m.header \in Header /\ m.header # NoHeader
    BY <2>1, PreparesAreTrue
  <2>3. /\ Normal(r) /\ m.op <= op[r] /\ log_view[r] = view[r]
    BY DEF OnRepair, IndInv, Statuses
  <2>4. /\ op \in [Replicas -> 0 .. MaxOp] /\ journal \in [Replicas -> [Ops -> Slot]]
        /\ dirty \in [Replicas -> SUBSET Ops] /\ commit_max \in [Replicas -> 0 .. MaxOp]
        /\ view[r] \in Views /\ log_view \in [Replicas -> Views]
    BY DEF IndInv, TypeOK
  <2>5. /\ op' = [op EXCEPT ![r] = op[r]] /\ journal' = [journal EXCEPT ![r] = slots]
        /\ dirty' = [dirty EXCEPT ![r] = rest]
        /\ commit_max' = [commit_max EXCEPT ![r] = commit_max[r]]
        /\ network' = network \cup (IF Clean(r, m.op, m.header) THEN {ok}
                                    ELSE IF fills THEN RepairRequest(r, op[r], commit_max[r]) ELSE {})
        /\ UNCHANGED <<viewVars, commit_min, prepares, acks, exitVars, commit_timer,
                       joinVars, panicked>>
    BY <1>2, <2>4 DEF OnRepair, Send
  <2>6. fills => m.header = L[log_view[r]][m.op]
    BY <2>1, <2>3, RepairIsOfTheLog
  <2>7. /\ slots \in [Ops -> Slot] /\ rest \in SUBSET Ops
        /\ \A o \in Ops : journal[r][o] # NoHeader => slots[o] = journal[r][o]
        /\ \A o \in Ops : slots[o] \in {NoHeader, L[log_view[r]][o]}
        /\ \A o \in Ops : o # m.op => slots[o] = journal[r][o]
    BY <2>1, <2>2, <2>4, <2>6 DEF Slot, OneLogPerView, Held
  <2>8. \A x \in network' : x \notin network =>
          /\ x \in Message /\ Possible(x) /\ Promised(x)'
          /\ \A K \in Logs : Agrees(K, x)
    <3>1. ASSUME NEW x, x = ok, Clean(r, m.op, m.header)
          PROVE  x \in Message /\ Possible(x) /\ Promised(x)' /\ \A K \in Logs : Agrees(K, x)
      <4>1. log_view'[r] = view[r] /\ journal'[r][m.op] = m.header
        BY <2>3, <2>4, <2>5, <3>1 DEF Clean
      <4> QED BY <2>2, <2>4, <3>1, <4>1, PrepareOkIsTrue
    <3>2. ASSUME NEW x \in RepairRequest(r, op[r], commit_max[r])
          PROVE  x \in Message /\ Possible(x) /\ Promised(x)' /\ \A K \in Logs : Agrees(K, x)
      <4>1. x.type = "get_view"
        BY DEF RepairRequest
      <4> QED BY <4>1, RepairRequestIsTrue DEF Promised
    <3> QED BY <2>5, <3>1, <3>2
  <2>9. /\ committing' \in [Replicas -> BOOLEAN]
        /\ \A q \in Replicas : committing'[q] => commit_min[q] < MaxOp
        /\ acks' \in [Replicas -> [Ops -> SUBSET Replicas]]
    <3>1. op[r] \in 0 .. MaxOp
      BY <2>4
    <3>2. CASE fills /\ ~IsPrimary(r)
      <4>1. CommitJournal(r, fixed, op[r], commit_max[r])
        BY <1>2, <3>2 DEF OnRepair
      <4> QED BY <2>5, <3>1, <4>1, CommitJournalKeeps, Typed
    <3>3. CASE ~(fills /\ ~IsPrimary(r))
      <4>1. committing' = committing
        BY <1>2, <3>3 DEF OnRepair
      <4> QED BY <2>5, <4>1, Typed
    <3> QED BY <3>2, <3>3
  <2>10. \A o \in Ops : /\ o > op[r] => slots[o] = NoHeader
                        /\ slots[o] # NoHeader /\ o \notin rest => o <= commit_min[r]
    BY <2>2, <2>3, <2>4, <2>7 DEF IndInv, EmptyAhead, Executed, Ops
  <2>11. IsPrimary(r) => /\ commit_max[r] <= op[r]
                         /\ \A o \in Ops : o <= op[r] =>
                              slots[o] # NoHeader /\ slots[o].commit <= commit_max[r]
    BY <2>3, <2>7 DEF IndInv, PrimaryLog
  <2>12. op[r] \in 0 .. MaxOp /\ commit_max[r] \in 0 .. MaxOp
    BY <2>4
  <2> HIDE DEF slots, rest, ok, fills
  <2>13. OneLogPerView(L)'
    <3>1. op[r] <= op[r] /\ \A x \in network' : x \notin network => Agrees(L, x)
      BY <2>8, <2>12
    <3> QED BY <2>1, <2>5, <2>7, <2>12, <3>1, SameLogs
  <2>14. Grows(r, op[r], slots, rest, commit_max[r])
    BY <2>5, <2>7, <2>8, <2>9, <2>10, <2>11 DEF Grows
  <2> QED BY <2>3, <2>7, <2>12, <2>13, <2>14, LogGrows
<1> QED BY <1>1, <1>2

-----------------------------------------------------------------------------
(* Installing the log of a view *)

\* What a view announces is the log of that view, from the first op to the head.
LEMMA ViewsAreTrue ==
  ASSUME IndInv, NEW m \in Received("view"), NEW L \in Logs, OneLogPerView(L)
  PROVE  /\ m.view \in Views /\ m.op \in 0 .. MaxOp /\ m.commit_max \in 0 .. MaxOp
         /\ m.headers \in [Ops -> Slot]
         /\ \A o \in Ops : /\ m.headers[o] \in {NoHeader, L[m.view][o]}
                           /\ m.headers[o] # NoHeader <=> o <= m.op
                           /\ o <= m.op => m.headers[o].commit <= m.commit_max
BY MessageFields DEF Received, IndInv, TypeOK, OneLogPerView, Agrees, Messages, Possible

\* A replica joins a view after the one of its log; in the view it is in, the
\* announced log is not shorter than its own.
LEMMA JoinsLater ==
  ASSUME IndInv, NEW r \in Replicas, NEW m \in Received("view"), OnView(r, m)
  PROVE  /\ m.view \in Views /\ view[r] <= m.view /\ log_view[r] <= m.view /\ PrimaryOf(m.view) # r
         /\ view[r] < m.view \/ ~Normal(r) => log_view[r] < m.view
         /\ ~(view[r] < m.view \/ ~Normal(r)) =>
              view[r] = m.view /\ log_view[r] = m.view /\ op[r] <= m.op
<1>1. /\ m.view \in Views /\ view[r] \in Views /\ log_view[r] \in Views
      /\ m.op \in 0 .. MaxOp /\ op[r] \in 0 .. MaxOp
  BY MessageFields DEF Received, IndInv, TypeOK
<1>2. log_view[r] <= view[r] /\ (Normal(r) <=> log_view[r] = view[r])
  BY DEF IndInv, Statuses
<1>3. m.view >= view[r] /\ PrimaryOf(m.view) # r /\ ~IsStale(r, m)
  BY DEF OnView
<1> QED BY <1>1, <1>2, <1>3 DEF IsStale, Views

\* What a replica sends when it installs the log of a view.
ViewAnswers(r, m) ==
  LET jumps == view[r] < m.view
      cmax  == MaxOf(commit_max[r], m.commit_max)
      oks   == {PrepareOk(r, m.view, o, m.headers[o]) : o \in cmax + 1 .. m.op}
  IN        (IF jumps THEN {JoinViewOf(r, m.view)} ELSE {})
       \cup (IF jumps \/ ~Normal(r) THEN oks ELSE {})
       \cup (IF m.op < cmax /\ m.view > 0
             THEN {[type |-> "get_view", view |-> m.view]} ELSE {})

LEMMA ViewAnswersAreTrue ==
  ASSUME IndInv, NEW r \in Replicas, NEW m \in Received("view"), OnView(r, m),
         view[r] < m.view => ~CannotJoin(r),
         view[r] < m.view \/ ~Normal(r) => log_view'[r] = m.view,
         journal'[r] = m.headers
  PROVE  \A x \in ViewAnswers(r, m) :
           /\ x \in Message /\ Possible(x) /\ Promised(x)'
           /\ \A L \in Logs : OneLogPerView(L) => Agrees(L, x)
<1> DEFINE jumps == view[r] < m.view
           cmax  == MaxOf(commit_max[r], m.commit_max)
           oks   == {PrepareOk(r, m.view, o, m.headers[o]) : o \in cmax + 1 .. m.op}
           get   == [type |-> "get_view", view |-> m.view]
<1>0. PICK L0 \in Logs : OneLogPerView(L0)
  BY DEF IndInv
<1>1. m.view \in Views /\ (jumps => log_view[r] < m.view)
  BY JoinsLater
<1>2. ASSUME NEW x, jumps, x = JoinViewOf(r, m.view)
      PROVE  /\ x \in Message /\ Possible(x) /\ Promised(x)'
             /\ \A L \in Logs : OneLogPerView(L) => Agrees(L, x)
  <2>1. \A o \in Ops : o \in JoinTail(r) .. op[r] => journal[r][o] # NoHeader
    BY <1>2, MayJoin
  <2>2. x.type = "join_view"
    BY <1>2 DEF JoinViewOf
  <2> QED BY <1>1, <1>2, <2>1, <2>2, JoinViewIsTrue DEF Promised
<1>3. ASSUME NEW x \in oks, jumps \/ ~Normal(r)
      PROVE  /\ x \in Message /\ Possible(x) /\ Promised(x)'
             /\ \A L \in Logs : OneLogPerView(L) => Agrees(L, x)
  <2>1. PICK o \in cmax + 1 .. m.op : x = PrepareOk(r, m.view, o, m.headers[o])
    OBVIOUS
  <2>2. m.op \in 0 .. MaxOp /\ m.commit_max \in 0 .. MaxOp /\ commit_max[r] \in 0 .. MaxOp
    BY <1>0, ViewsAreTrue DEF IndInv, TypeOK
  <2>3. o \in Ops /\ o <= m.op
    BY <2>1, <2>2, BoundAssumption DEF MaxOf, Ops
  <2>4. m.headers[o] \in Header
    BY <1>0, <2>3, ViewsAreTrue DEF Slot
  <2>5. log_view'[r] = m.view /\ journal'[r][o] = m.headers[o]
    BY <1>3
  <2> QED BY <1>1, <2>1, <2>3, <2>4, <2>5, PrepareOkIsTrue
<1>4. ASSUME NEW x, x = get
      PROVE  /\ x \in Message /\ Possible(x) /\ Promised(x)'
             /\ \A L \in Logs : OneLogPerView(L) => Agrees(L, x)
  <2>1. x.type = "get_view"
    BY <1>4
  <2> QED BY <1>1, <1>4, <2>1, GetViewIsTrue DEF Promised
<1> HIDE DEF oks, get
<1> QED BY <1>2, <1>3, <1>4 DEF ViewAnswers, oks, get

LEMMA OnViewKeeps ==
  ASSUME IndInv, NEW r \in Replicas, NEW m \in Received("view"), OnView(r, m)
  PROVE  IndInv'
<1> USE DEF viewVars, exitVars, joinVars
<1> DEFINE jumps == view[r] < m.view
           joins_view == jumps \/ ~Normal(r)
           cmax == MaxOf(commit_max[r], m.commit_max)
           rest == DirtyIn(r, m.headers, m.op)
<1>1. CASE jumps /\ CannotJoin(r)
  BY <1>1, PanicKeeps DEF OnView, PanicKind
<1>2. CASE ~(jumps /\ CannotJoin(r)) /\ ViewFailure(r, m) # NoPanic
  <2>1. Panic(r, ViewFailure(r, m))
    BY <1>2 DEF OnView
  <2>2. ViewFailure(r, m) \in PanicKind
    BY DEF ViewFailure, PanicKind
  <2> QED BY <2>1, <2>2, PanicKeeps
<1>3. CASE ~(jumps /\ CannotJoin(r)) /\ ViewFailure(r, m) = NoPanic
  <2>1. PICK L \in Logs : OneLogPerView(L)
    BY DEF IndInv
  <2>2. /\ m.view \in Views /\ m.op \in 0 .. MaxOp /\ m.commit_max \in 0 .. MaxOp
        /\ m.headers \in [Ops -> Slot]
        /\ \A o \in Ops : /\ m.headers[o] \in {NoHeader, L[m.view][o]}
                          /\ m.headers[o] # NoHeader <=> o <= m.op
    BY <2>1, ViewsAreTrue
  <2>3. /\ view[r] <= m.view /\ log_view[r] <= m.view /\ PrimaryOf(m.view) # r
        /\ joins_view => log_view[r] < m.view
        /\ ~joins_view => view[r] = m.view /\ log_view[r] = m.view /\ op[r] <= m.op
    BY JoinsLater
  <2>4. /\ op \in [Replicas -> 0 .. MaxOp] /\ journal \in [Replicas -> [Ops -> Slot]]
        /\ dirty \in [Replicas -> SUBSET Ops] /\ commit_max \in [Replicas -> 0 .. MaxOp]
        /\ commit_min \in [Replicas -> 0 .. MaxOp]
        /\ status \in [Replicas -> {"normal", "view_change"}]
        /\ view \in [Replicas -> Views] /\ log_view \in [Replicas -> Views]
    BY DEF IndInv, TypeOK
  <2>5. /\ op' = [op EXCEPT ![r] = m.op] /\ journal' = [journal EXCEPT ![r] = m.headers]
        /\ dirty' = [dirty EXCEPT ![r] = rest] /\ commit_max' = [commit_max EXCEPT ![r] = cmax]
        /\ CommitJournal(r, m.headers, m.op, cmax)
        /\ network' = network \cup ViewAnswers(r, m)
        /\ UNCHANGED <<commit_min, prepares, panicked>>
    BY <1>3 DEF OnView, Send, ViewAnswers
  <2>6. /\ status' \in [Replicas -> {"normal", "view_change"}]
        /\ view' \in [Replicas -> Views] /\ log_view' \in [Replicas -> Views]
        /\ acks' \in [Replicas -> [Ops -> SUBSET Replicas]]
        /\ exit_views' \in [Replicas -> SUBSET Replicas]
        /\ exit_window' \in [Replicas -> BOOLEAN]
        /\ commit_timer' \in [Replicas -> BOOLEAN]
        /\ join_tail' \in [Replicas -> 0 .. MaxOp]
        /\ status'[r] = "normal" /\ view'[r] = m.view /\ log_view'[r] = m.view
        /\ \A q \in Replicas \ {r} : /\ status'[q] = status[q] /\ view'[q] = view[q]
                                     /\ log_view'[q] = log_view[q] /\ join_tail'[q] = join_tail[q]
        /\ JoinsArrived'
    <3>0. 0 \in 0 .. MaxOp
      BY BoundAssumption
    <3>1. CASE joins_view
      <4>1. /\ status' = [status EXCEPT ![r] = "normal"]
            /\ view' = [view EXCEPT ![r] = m.view]
            /\ log_view' = [log_view EXCEPT ![r] = m.view]
            /\ acks' = [acks EXCEPT ![r] = [o \in Ops |-> {}]]
            /\ exit_views' = [exit_views EXCEPT ![r] = {}]
            /\ exit_window' = [exit_window EXCEPT ![r] = FALSE]
            /\ commit_timer' = [commit_timer EXCEPT ![r] = FALSE]
            /\ join_tail' = [join_tail EXCEPT ![r] = 0]
            /\ joins' = [joins EXCEPT ![r] = [q \in Replicas |-> NoJoin]]
        BY <1>3, <3>1 DEF OnView
      <4>2. JoinsArrived'
        <5>1. joins = [q \in Replicas |-> [p \in Replicas |-> joins[q][p]]]
          BY DEF IndInv, JoinsArrived
        <5>2. joins' = [q \in Replicas |-> [p \in Replicas |-> joins'[q][p]]]
          BY <4>1, <5>1
        <5>3. ASSUME NEW q \in Replicas, NEW p \in Replicas, joins'[q][p] # NoJoin
              PROVE  joins'[q][p] \in Received("join_view")' /\ joins'[q][p].view = view'[q]
          <6>1. q # r /\ joins'[q][p] = joins[q][p] /\ view'[q] = view[q]
            BY <2>4, <4>1, <5>1, <5>3
          <6> QED BY <2>5, <5>3, <6>1 DEF IndInv, JoinsArrived, Received
        <5> QED BY <5>2, <5>3 DEF JoinsArrived
      <4> QED BY <2>2, <2>4, <3>0, <4>1, <4>2, Typed DEF IndInv, TypeOK
    <3>2. CASE ~joins_view
      <4>1. UNCHANGED <<viewVars, acks, exitVars, commit_timer, joinVars>>
        BY <1>3, <3>2 DEF OnView
      <4>2. JoinsArrived'
        BY <2>5, <4>1 DEF IndInv, JoinsArrived, Received
      <4>3. status[r] = "normal" /\ view[r] = m.view /\ log_view[r] = m.view
        BY <2>3, <3>2 DEF Normal
      <4> QED BY <2>4, <4>1, <4>2, <4>3, Typed DEF IndInv, TypeOK
    <3> QED BY <3>1, <3>2
  <2>6a. log_view'[r] = m.view /\ \A q \in Replicas : q # r => log_view'[q] = log_view[q]
    BY <2>6
  <2>6b. \A q \in Replicas : q # r => status'[q] = status[q] /\ view'[q] = view[q]
    BY <2>6
  <2>7. \A x \in network' : x \notin network =>
          /\ x \in Message /\ Possible(x) /\ Promised(x)'
          /\ \A K \in Logs : OneLogPerView(K) => Agrees(K, x)
    <3>1. journal'[r] = m.headers
      BY <2>4, <2>5
    <3> QED BY <1>3, <2>5, <2>6, <3>1, ViewAnswersAreTrue
  <2>8. cmax \in 0 .. MaxOp /\ rest \in SUBSET Ops
    BY <2>2, <2>4, BoundAssumption DEF MaxOf, DirtyIn, Ops
  <2>9. /\ committing' \in [Replicas -> BOOLEAN]
        /\ \A q \in Replicas : committing'[q] => commit_min[q] < MaxOp
    BY <2>2, <2>5, CommitJournalKeeps
  <2>10. /\ op'[r] = m.op /\ journal'[r] = m.headers /\ dirty'[r] = rest
         /\ \A q \in Replicas \ {r} : /\ op'[q] = op[q] /\ journal'[q] = journal[q]
                                      /\ dirty'[q] = dirty[q] /\ commit_max'[q] = commit_max[q]
    BY <2>4, <2>5
  <2> HIDE DEF cmax, rest, joins_view, jumps
  <2>11. TypeOK'
    <3>1. \A q, p \in Replicas : joins'[q][p] # NoJoin => joins'[q][p] \in network'
      BY <2>6 DEF JoinsArrived, Received
    <3>2. \A x \in network' : x \in Message
      BY <2>7 DEF IndInv, TypeOK
    <3>3. /\ op' \in [Replicas -> 0 .. MaxOp] /\ journal' \in [Replicas -> [Ops -> Slot]]
          /\ dirty' \in [Replicas -> SUBSET Ops] /\ commit_max' \in [Replicas -> 0 .. MaxOp]
      BY <2>2, <2>4, <2>5, <2>8
    <3>4. /\ commit_min' \in [Replicas -> 0 .. MaxOp] /\ prepares' \in [Replicas -> [Ops -> Slot]]
          /\ panicked' \in [Replicas -> PanicKind]
      BY <2>5 DEF IndInv, TypeOK
    <3> QED BY <2>6, <2>9, <3>1, <3>2, <3>3, <3>4 DEF TypeOK
  <2>12. Statuses' /\ EmptyAhead'
    <3>1. Statuses'
      <4>1. log_view'[r] <= view'[r]
        BY <2>2, <2>6 DEF Views
      <4> QED BY <2>6, <4>1 DEF IndInv, Statuses, Normal
    <3>2. EmptyAhead'
      BY <2>2, <2>10 DEF IndInv, EmptyAhead, Ops
    <3> QED BY <3>1, <3>2
  <2>13. PrimaryLog' /\ Joinable'
    <3>1. ~IsPrimary(r)' /\ Normal(r)'
      BY <2>3, <2>6 DEF IsPrimary, Normal
    <3>2. PrimaryLog'
      BY SMTT(30), <2>6, <2>10, <3>1 DEF IndInv, PrimaryLog, Normal, IsPrimary
    <3>3. Joinable'
      BY SMTT(60), <2>6, <2>10, <3>1 DEF IndInv, Joinable, Normal
    <3> QED BY <3>2, <3>3
  <2>14. Executed'
    <3> SUFFICES ASSUME NEW q \in Replicas, NEW o \in Ops
                 PROVE  /\ journal'[q][o] # NoHeader /\ o \notin dirty'[q] => o <= commit_min[q]
                        /\ o <= commit_min[q] =>
                             journal'[q][o] # NoHeader /\ journal'[q][o] = prepares[q][o]
      BY <2>5, <2>9 DEF Executed
    <3>1. /\ journal[q][o] # NoHeader /\ o \notin dirty[q] => o <= commit_min[q]
          /\ o <= commit_min[q] => journal[q][o] # NoHeader /\ journal[q][o] = prepares[q][o]
      BY DEF IndInv, Executed
    <3>2. CASE q # r
      BY <2>10, <3>1, <3>2
    <3>3. CASE q = r
      <4>1. o <= commit_min[r] => m.headers[o] = journal[r][o]
        <5>1. o <= commit_min[r] => o \in 1 .. commit_min[r]
          BY <2>4 DEF Ops
        <5>2. \A k \in 1 .. commit_min[r] : journal[r][k] \in {NoHeader, m.headers[k]}
          BY <1>3 DEF ViewFailure, NoPanic
        <5> QED BY <3>1, <3>3, <5>1, <5>2
      <4>2. m.headers[o] # NoHeader /\ o \notin rest => o \notin dirty[r] /\ m.headers[o] = journal[r][o]
        BY <2>2 DEF rest, DirtyIn, Ops
      <4> QED BY <2>10, <3>1, <3>3, <4>1, <4>2
    <3> QED BY <3>2, <3>3
  <2>15. Messages'
    <3> SUFFICES ASSUME NEW x \in network PROVE Possible(x) /\ Promised(x)'
      BY <2>7 DEF Messages, Possible
    <3>1. Possible(x) /\ Promised(x)
      BY DEF IndInv, Messages
    <3>2. CASE x.type = "prepare_ok" /\ x.from = r
      <4>1. x.op \in Ops /\ x.header \in Header /\ x.view \in Views /\ x.view <= log_view[r]
        BY <3>1, <3>2, MessageFields DEF IndInv, TypeOK, Promised
      <4>2. CASE log_view[r] < m.view
        <5>1. x.view < m.view
          BY <2>2, <2>4, <4>1, <4>2 DEF Views
        <5>2. x.view <= m.view /\ x.view # m.view
          BY <2>2, <4>1, <5>1 DEF Views
        <5> QED BY <2>6a, <3>1, <3>2, <5>2 DEF Promised
      <4>3. CASE ~(log_view[r] < m.view)
        <5>1. log_view[r] = m.view /\ op[r] <= m.op
          BY <2>3, <4>3
        <5>2. ASSUME x.view = m.view PROVE m.headers[x.op] = x.header
          <6>1. journal[r][x.op] = x.header /\ x.header # NoHeader
            BY <3>1, <3>2, <4>1, <5>1, <5>2, HeadersAreNotEmpty DEF Promised
          <6>2. x.op <= m.op
            BY <2>2, <2>4, <4>1, <5>1, <6>1 DEF IndInv, EmptyAhead, Ops
          <6> QED BY <2>1, <2>2, <4>1, <5>1, <6>1, <6>2 DEF OneLogPerView, Held
        <5>3. x.view <= m.view /\ journal'[r][x.op] = m.headers[x.op]
          BY <2>10, <4>1, <5>1
        <5> QED BY <2>6a, <3>1, <3>2, <5>2, <5>3 DEF Promised
      <4> QED BY <4>2, <4>3
    <3>3. CASE x.type = "prepare_ok" /\ x.from # r
      <4>1. x.from \in Replicas
        BY <3>3, MessageFields DEF IndInv, TypeOK
      <4> QED BY <2>6, <2>10, <3>1, <3>3, <4>1 DEF Promised
    <3>4. CASE x.type # "prepare_ok"
      BY <3>1, <3>4 DEF Promised
    <3> QED BY <3>1, <3>2, <3>3, <3>4
  <2>16. OneLogPerView(L)'
    <3>1. OfPrimaries(L)'
      <4>1. \A q \in Replicas : log_view[q] <= log_view'[q] /\ log_view'[q] \in Views
        BY <2>2, <2>3, <2>4, <2>6a DEF Views
      <4>2. ASSUME NEW q \in Replicas, NEW u \in Views, PrimaryOf(u) = q, log_view'[q] < u
            PROVE  \A o \in Ops : L[u][o] = NoHeader
        <5>1. log_view[q] < u
          BY <2>4, <4>1, <4>2 DEF Views
        <5> QED BY <2>1, <4>2, <5>1 DEF OneLogPerView, OfPrimaries
      <4>3. ASSUME NEW q \in Replicas, Normal(q)', IsPrimary(q)', NEW o \in Ops, o > op'[q]
            PROVE  L[view'[q]][o] = NoHeader
        <5>1. q # r
          BY <2>3, <2>6, <4>3 DEF IsPrimary
        <5>2. Normal(q) /\ IsPrimary(q) /\ o > op[q] /\ view'[q] = view[q]
          BY <2>6b, <2>10, <4>3, <5>1 DEF Normal, IsPrimary
        <5> QED BY <2>1, <5>2 DEF OneLogPerView, OfPrimaries
      <4> QED BY <4>2, <4>3 DEF OfPrimaries
    <3>2. Held(L)'
      BY <2>1, <2>2, <2>6, <2>10 DEF OneLogPerView, Held
    <3> QED BY <2>1, <2>7, <3>1, <3>2 DEF OneLogPerView
  <2> QED BY <2>6, <2>11, <2>12, <2>13, <2>14, <2>15, <2>16 DEF IndInv
<1> QED BY <1>1, <1>2, <1>3

-----------------------------------------------------------------------------
(* Choosing the log of a view *)

\* A join view's fields, and the header of its op.
LEMMA JoinFields ==
  ASSUME IndInv, NEW j \in Received("join_view")
  PROVE  /\ j \in JoinView
         /\ j.from \in Replicas /\ j.view \in Views /\ j.log_view \in Views
         /\ j.op \in 0 .. MaxOp /\ j.tail \in 0 .. MaxOp /\ j.commit_min \in 0 .. MaxOp
         /\ HeaderAt(j.headers, j.op).commit \in 0 .. MaxOp
<1>1. j \in network /\ j.type = "join_view" /\ j \in Message
  BY DEF Received, IndInv, TypeOK
<1>2. j \in JoinView
  BY <1>1 DEF Message
<1>3. j.op > 0 => j.headers[j.op] \in Header
  <2>1. j.tail <= j.op /\ \A o \in Ops : Lists(j, o) => j.headers[o] # NoHeader
    BY <1>1 DEF IndInv, Messages, Possible
  <2>2. j.op > 0 => j.op \in Ops /\ Lists(j, j.op)
    BY <1>2, <2>1, BoundAssumption DEF JoinView, Lists, Ops
  <2> QED BY <1>2, <2>1, <2>2 DEF JoinView, Slot
<1>4. HeaderAt(j.headers, j.op).commit \in 0 .. MaxOp
  <2>1. CASE j.op = 0
    BY <2>1, BoundAssumption DEF HeaderAt, Root
  <2>2. CASE j.op # 0
    <3>1. j.op > 0
      BY <1>2, <2>2, BoundAssumption DEF JoinView
    <3> QED BY <1>3, <2>2, <3>1 DEF HeaderAt, Header
  <2> QED BY <2>1, <2>2
<1> QED BY <1>2, <1>4 DEF JoinView

\* The bounds of the head that the join views decide, and the head itself.
LEMMA HeadsInRange ==
  ASSUME IndInv, NEW J, J \subseteq Received("join_view"), J # {}
  PROVE  /\ HeadMin(J) \in 0 .. MaxOp /\ HeadMax(J) \in 0 .. MaxOp
         /\ OpHead(J) \in Int /\ OpHead(J) <= MaxOp
<1>1. HeadMin(J) \in 0 .. MaxOp
  <2> DEFINE S == UNION {{j.tail, j.commit_min, HeaderAt(j.headers, j.op).commit} : j \in J}
  <2>1. S \subseteq 0 .. MaxOp
    BY JoinFields
  <2>2. S # {}
    <3>1. PICK j \in J : TRUE
      OBVIOUS
    <3>2. j.tail \in S
      OBVIOUS
    <3> QED BY <3>2
  <2>3. MaxOp \in Nat
    BY BoundAssumption
  <2> HIDE DEF S
  <2>4. \E b \in S : \A c \in S : b >= c
    BY <2>1, <2>2, <2>3, GreatestElement
  <2>5. Max(S) \in S
    BY <2>4 DEF Max
  <2> QED BY <2>1, <2>5 DEF HeadMin, S
<1>2. Canonical(J) # {}
  <2> DEFINE S == {j.log_view : j \in J}
  <2>1. S \subseteq 0 .. MaxView
    BY JoinFields DEF Views
  <2>2. S # {} /\ MaxView \in Nat
    BY BoundAssumption
  <2>3. \E b \in S : \A c \in S : b >= c
    <3> HIDE DEF S
    <3> QED BY <2>1, <2>2, GreatestElement
  <2>4. PICK j \in J : \A k \in J : j.log_view >= k.log_view
    BY <2>3
  <2>5. \A k \in J : k.log_view <= j.log_view
    BY <2>1, <2>4
  <2> QED BY <2>4, <2>5 DEF Canonical
<1>3. HeadMax(J) \in 0 .. MaxOp
  <2> DEFINE S == {j.op : j \in Canonical(J)}
  <2>1. S \subseteq 0 .. MaxOp
    BY JoinFields DEF Canonical
  <2>2. S # {} /\ MaxOp \in Nat
    BY <1>2, BoundAssumption
  <2> HIDE DEF S
  <2>3. \E b \in S : \A c \in S : b >= c
    BY <2>1, <2>2, GreatestElement
  <2>4. Max(S) \in S
    BY <2>3 DEF Max
  <2> QED BY <2>1, <2>4 DEF HeadMax, S
<1>4. OpHead(J) \in Int /\ OpHead(J) <= MaxOp
  <2>1. CASE Stops(J) = {}
    BY <1>3, <2>1, BoundAssumption DEF OpHead
  <2>2. CASE Stops(J) # {}
    <3>1. Stops(J) \subseteq Nat /\ \A o \in Stops(J) : o <= MaxOp
      BY <1>1, <1>3, BoundAssumption DEF Stops
    <3>2. \E b \in Stops(J) : \A c \in Stops(J) : b <= c
      BY <2>2, <3>1, LeastElement
    <3>3. FirstStop(J) \in Stops(J)
      BY <3>2 DEF FirstStop, Min
    <3> QED BY <2>2, <3>1, <3>3, BoundAssumption DEF OpHead
  <2> QED BY <2>1, <2>2
<1> QED BY <1>1, <1>3, <1>4

\* What a new primary starts its view with: everything in the log is committed,
\* executed and already in its journal.
LEMMA StartsWithTheExecuted ==
  ASSUME IndInv, NEW r \in Replicas, NEW J, J \subseteq Received("join_view"), J # {},
         JoinFailure(J) = NoPanic, ~Awaits(J), StartFailure(r, J) = NoPanic
  PROVE  LET head  == OpHead(J)
             slots == ChosenSlots(r, J)
             cmax  == MaxOf(commit_max[r], HeadMin(J))
         IN  /\ head \in Ops /\ cmax = head /\ commit_min[r] = head
             /\ \A o \in Ops : /\ o > head => slots[o] = NoHeader
                               /\ o <= head => /\ slots[o] = journal[r][o]
                                               /\ journal[r][o] # NoHeader
<1> DEFINE head  == OpHead(J)
           slots == ChosenSlots(r, J)
           cmax  == MaxOf(commit_max[r], HeadMin(J))
<1>1. HeadMin(J) \in 0 .. MaxOp /\ head \in Int /\ head <= MaxOp
  BY HeadsInRange
<1>2. commit_max[r] \in 0 .. MaxOp /\ commit_min[r] \in 0 .. MaxOp /\ cmax \in 0 .. MaxOp
  BY <1>1 DEF IndInv, TypeOK, MaxOf
<1>3. head >= HeadMin(J)
  BY <1>1 DEF JoinFailure, NoPanic
<1>4. /\ ~(head < cmax) /\ head # 0 /\ Chain(slots, 1, head)
      /\ DirtyIn(r, slots, head) = {} /\ commit_min[r] = cmax
  BY DEF StartFailure, NoPanic
<1>5. head \in Ops /\ cmax <= head
  BY <1>1, <1>2, <1>3, <1>4, BoundAssumption DEF Ops
<1>6. \A o \in Ops : o > head => slots[o] = NoHeader
  BY DEF ChosenSlots
<1>7. ASSUME NEW o \in Ops, o <= head
      PROVE  slots[o] = journal[r][o] /\ o \notin dirty[r] /\ slots[o] # NoHeader
  <2>1. o \in 1 .. head /\ MaxOf(1, 1) = 1
    BY <1>5, <1>7 DEF Ops, MaxOf
  <2> HIDE DEF head, slots
  <2> QED BY <1>4, <2>1 DEF DirtyIn, Chain
<1>8. head <= commit_min[r]
  BY <1>5, <1>7 DEF IndInv, Executed, Ops
<1> HIDE DEF head, slots, cmax
<1>9. cmax = head /\ commit_min[r] = head
  BY <1>1, <1>2, <1>4, <1>5, <1>8
<1> QED BY <1>5, <1>6, <1>7, <1>9 DEF head, slots, cmax

\* The log of the new view is the executed part of the log that its primary had.
LEMMA NewLogOfView ==
  ASSUME IndInv, NEW r \in Replicas, NEW L \in Logs, OneLogPerView(L),
         ~Normal(r), IsPrimary(r),
         NEW head \in Ops, NEW slots \in [Ops -> Slot],
         \A o \in Ops : /\ o > head => slots[o] = NoHeader
                        /\ o <= head => slots[o] = journal[r][o] /\ journal[r][o] # NoHeader
  PROVE  \E M \in Logs :
           /\ Chained(M) /\ M[view[r]] = slots
           /\ \A u \in Views : u # view[r] => M[u] = L[u]
           /\ \A o \in Ops : L[view[r]][o] = NoHeader
           /\ \A o \in Ops : o <= head => slots[o].commit < o
<1> DEFINE v == view[r]
           w == log_view[r]
           M == [L EXCEPT ![v] = slots]
<1>1. v \in Views /\ w \in Views /\ w < v /\ PrimaryOf(v) = r
  <2>1. v \in Views /\ w \in Views
    BY DEF IndInv, TypeOK
  <2> QED BY <2>1 DEF IndInv, Statuses, IsPrimary, Views
<1>2. \A o \in Ops : L[v][o] = NoHeader
  BY <1>1 DEF OneLogPerView, OfPrimaries
<1>3. \A o \in Ops : o <= head => slots[o] = L[w][o] /\ L[w][o] # NoHeader
  BY DEF OneLogPerView, Held
<1>4. \A u \in Views, o \in Ops : L[u][o] # NoHeader =>
        /\ o > 1 => L[u][o - 1] # NoHeader
        /\ L[u][o].parent = HeaderAt(L[u], o - 1).view
        /\ L[u][o].view <= u /\ L[u][o].commit < o
        /\ \A k \in Ops : k <= o => L[L[u][o].view][k] = L[u][k]
  BY DEF OneLogPerView, Chained
<1>5. /\ M \in Logs /\ M[v] = slots
      /\ \A u \in Views : u # v => M[u] = L[u]
  BY <1>1 DEF Logs
<1> HIDE DEF M, v, w
<1>6. Chained(M)
  <2> SUFFICES ASSUME NEW u \in Views, NEW x \in Ops, M[u][x] # NoHeader
               PROVE  /\ x > 1 => M[u][x - 1] # NoHeader
                      /\ M[u][x].parent = HeaderAt(M[u], x - 1).view
                      /\ M[u][x].view <= u /\ M[u][x].commit < x
                      /\ \A k \in Ops : k <= x => M[M[u][x].view][k] = M[u][k]
    BY DEF Chained
  <2>1. CASE u = v
    <3>1. x <= head
      BY <1>5, <2>1, BoundAssumption DEF Ops
    <3>2. \A k \in Ops : k <= x => M[u][k] = L[w][k]
      BY <1>3, <1>5, <2>1, <3>1, BoundAssumption DEF Ops
    <3>3. M[u][x] = L[w][x] /\ L[w][x] # NoHeader /\ x \in Int
      BY <1>3, <3>1, <3>2 DEF Ops
    <3>4. L[w][x].view \in Views
      BY <1>1, <3>3 DEF Logs, Slot, Header
    <3>5. /\ x > 1 => L[w][x - 1] # NoHeader
          /\ L[w][x].parent = HeaderAt(L[w], x - 1).view
          /\ L[w][x].view <= w /\ L[w][x].commit < x
          /\ \A k \in Ops : k <= x => L[L[w][x].view][k] = L[w][k]
      BY <1>1, <1>4, <3>3
    <3>6. L[w][x].view <= u /\ L[w][x].view # v
      BY <1>1, <2>1, <3>4, <3>5 DEF Views
    <3>7. x > 1 => M[u][x - 1] = L[w][x - 1]
      BY <3>2, BoundAssumption DEF Ops
    <3>8. HeaderAt(M[u], x - 1) = HeaderAt(L[w], x - 1)
      BY <3>7, BoundAssumption DEF HeaderAt, Ops
    <3>9. M[L[w][x].view] = L[L[w][x].view]
      BY <1>5, <3>4, <3>6
    <3> QED BY <3>2, <3>3, <3>5, <3>6, <3>7, <3>8, <3>9
  <2>2. CASE u # v
    <3>1. M[u] = L[u] /\ L[u][x] # NoHeader
      BY <1>5, <2>2
    <3>2. L[u][x].view \in Views
      BY <3>1 DEF Logs, Slot, Header
    <3>3. x <= x
      BY DEF Ops
    <3>4. L[u][x].view # v
      BY <1>2, <1>4, <3>1, <3>3
    <3> QED BY <1>4, <1>5, <3>1, <3>2, <3>4
  <2> QED BY <2>1, <2>2
<1>7. \A o \in Ops : o <= head => slots[o].commit < o
  BY <1>1, <1>3, <1>4
<1> QED BY <1>2, <1>5, <1>6, <1>7 DEF v

\* What the new primary changes when it starts the view.
StartsView(r, J) ==
  /\ status' = [status EXCEPT ![r] = "normal"]
  /\ log_view' = [log_view EXCEPT ![r] = view[r]]
  /\ op' = [op EXCEPT ![r] = OpHead(J)]
  /\ journal' = [journal EXCEPT ![r] = ChosenSlots(r, J)]
  /\ dirty' = [dirty EXCEPT ![r] = {}]
  /\ commit_max' = [commit_max EXCEPT ![r] = MaxOf(@, HeadMin(J))]
  /\ acks' = [acks EXCEPT ![r] = [o \in Ops |-> {}]]
  /\ exit_views' = [exit_views EXCEPT ![r] = {}]
  /\ exit_window' = [exit_window EXCEPT ![r] = FALSE]
  /\ commit_timer' = [commit_timer EXCEPT ![r] = TRUE]
  /\ join_tail' = [join_tail EXCEPT ![r] = 0]
  /\ joins' = [joins EXCEPT ![r] = [q \in Replicas |-> NoJoin]]
  /\ network' = network \cup {ViewOf(view[r], OpHead(J), ChosenSlots(r, J),
                                     MaxOf(commit_max[r], HeadMin(J)))}
  /\ UNCHANGED <<view, commitVars, panicked>>

LEMMA StartsViewKeeps ==
  ASSUME IndInv, NEW r \in Replicas, ~Normal(r), IsPrimary(r),
         NEW J, J \subseteq Received("join_view"), J # {},
         JoinFailure(J) = NoPanic, ~Awaits(J), StartFailure(r, J) = NoPanic,
         StartsView(r, J)
  PROVE  IndInv'
<1> USE DEF logVars, commitVars, exitVars, joinVars, viewVars
<1> DEFINE head  == OpHead(J)
           slots == ChosenSlots(r, J)
           cmax  == MaxOf(commit_max[r], HeadMin(J))
           a     == ViewOf(view[r], head, slots, cmax)
<1>1. /\ head \in Ops /\ cmax = head /\ commit_min[r] = head
      /\ \A o \in Ops : /\ o > head => slots[o] = NoHeader
                        /\ o <= head => slots[o] = journal[r][o] /\ journal[r][o] # NoHeader
  BY StartsWithTheExecuted
<1>2. /\ op \in [Replicas -> 0 .. MaxOp] /\ journal \in [Replicas -> [Ops -> Slot]]
      /\ dirty \in [Replicas -> SUBSET Ops] /\ commit_max \in [Replicas -> 0 .. MaxOp]
      /\ status \in [Replicas -> {"normal", "view_change"}] /\ join_tail \in [Replicas -> 0 .. MaxOp]
      /\ view \in [Replicas -> Views] /\ log_view \in [Replicas -> Views]
  BY DEF IndInv, TypeOK
<1>3. slots \in [Ops -> Slot]
  <2>1. slots = [o \in Ops |-> slots[o]]
    BY DEF ChosenSlots
  <2>2. \A o \in Ops : slots[o] \in Slot
    <3> SUFFICES ASSUME NEW o \in Ops PROVE slots[o] \in Slot
      OBVIOUS
    <3>1. o > head \/ o <= head
      BY <1>1 DEF Ops
    <3> HIDE DEF slots, head
    <3> QED BY <1>1, <1>2, <3>1 DEF Slot
  <2> HIDE DEF slots
  <2> QED BY <2>1, <2>2
<1>4. /\ status' = [status EXCEPT ![r] = "normal"]
      /\ log_view' = [log_view EXCEPT ![r] = view[r]]
      /\ op' = [op EXCEPT ![r] = head]
      /\ journal' = [journal EXCEPT ![r] = slots]
      /\ dirty' = [dirty EXCEPT ![r] = {}]
      /\ commit_max' = [commit_max EXCEPT ![r] = cmax]
      /\ acks' = [acks EXCEPT ![r] = [o \in Ops |-> {}]]
      /\ exit_views' = [exit_views EXCEPT ![r] = {}]
      /\ exit_window' = [exit_window EXCEPT ![r] = FALSE]
      /\ commit_timer' = [commit_timer EXCEPT ![r] = TRUE]
      /\ join_tail' = [join_tail EXCEPT ![r] = 0]
      /\ joins' = [joins EXCEPT ![r] = [q \in Replicas |-> NoJoin]]
      /\ network' = network \cup {a}
      /\ UNCHANGED <<view, commitVars, panicked>>
  BY <1>2 DEF StartsView
<1> HIDE DEF head, slots, cmax
<1>5. PICK L \in Logs : OneLogPerView(L)
  BY DEF IndInv
<1>6. PICK M \in Logs : /\ Chained(M) /\ M[view[r]] = slots
                        /\ \A u \in Views : u # view[r] => M[u] = L[u]
                        /\ \A o \in Ops : L[view[r]][o] = NoHeader
                        /\ \A o \in Ops : o <= head => slots[o].commit < o
  BY <1>1, <1>3, <1>5, NewLogOfView
<1>7. /\ log_view[r] < view[r] /\ PrimaryOf(view[r]) = r /\ view[r] \in Views
      /\ log_view[r] \in Views /\ head \in 0 .. MaxOp /\ 0 \in 0 .. MaxOp
  <2>1. view[r] \in Views /\ log_view[r] \in Views /\ head \in 0 .. MaxOp /\ 0 \in 0 .. MaxOp
    BY <1>1, <1>2, BoundAssumption DEF Ops
  <2> QED BY <2>1 DEF IndInv, Statuses, IsPrimary, Views
<1>8. /\ op'[r] = head /\ journal'[r] = slots /\ dirty'[r] = {} /\ commit_max'[r] = head
      /\ status'[r] = "normal" /\ log_view'[r] = view[r] /\ view' = view
      /\ \A q \in Replicas : q # r =>
           /\ op'[q] = op[q] /\ journal'[q] = journal[q] /\ dirty'[q] = dirty[q]
           /\ commit_max'[q] = commit_max[q] /\ status'[q] = status[q]
           /\ log_view'[q] = log_view[q] /\ join_tail'[q] = join_tail[q]
  BY <1>1, <1>2, <1>4
<1>9. a \in Message /\ a.type = "view" /\ a.view = view[r] /\ a.headers = slots
      /\ a.op = head /\ a.commit_max = head
  BY <1>1, <1>3, <1>7 DEF ViewOf, Message
<1>10. Possible(a)
  <2>1. ASSUME NEW o \in Ops
        PROVE  /\ slots[o] # NoHeader <=> o <= head
               /\ o <= head => slots[o].commit <= head
    <3>1. o > head \/ o <= head
      BY <1>1 DEF Ops
    <3>2. o <= head => slots[o] \in Header
      BY <1>1, <1>3 DEF Slot
    <3> QED BY <1>1, <1>6, <3>1, <3>2 DEF Header, Ops
  <2> QED BY <1>9, <2>1 DEF Possible
<1> HIDE DEF a
<1>11. JoinsArrived'
  <2>1. joins = [q \in Replicas |-> [p \in Replicas |-> joins[q][p]]]
    BY DEF IndInv, JoinsArrived
  <2>2. joins' = [q \in Replicas |-> [p \in Replicas |-> joins'[q][p]]]
    BY <1>4, <2>1
  <2>3. ASSUME NEW q \in Replicas, NEW p \in Replicas, joins'[q][p] # NoJoin
        PROVE  joins'[q][p] \in Received("join_view")' /\ joins'[q][p].view = view'[q]
    <3>1. q # r /\ joins'[q][p] = joins[q][p] /\ view'[q] = view[q]
      BY <1>4, <2>1, <2>3
    <3> QED BY <1>4, <2>3, <3>1 DEF IndInv, JoinsArrived, Received
  <2> QED BY <2>2, <2>3 DEF JoinsArrived
<1>12. TypeOK'
  <2>1. \A q, p \in Replicas : joins'[q][p] # NoJoin => joins'[q][p] \in network'
    BY <1>11 DEF JoinsArrived, Received
  <2>2. \A x \in network' : x \in Message
    BY <1>4, <1>9 DEF IndInv, TypeOK
  <2>3. /\ op' \in [Replicas -> 0 .. MaxOp] /\ journal' \in [Replicas -> [Ops -> Slot]]
        /\ dirty' \in [Replicas -> SUBSET Ops] /\ commit_max' \in [Replicas -> 0 .. MaxOp]
        /\ status' \in [Replicas -> {"normal", "view_change"}]
        /\ log_view' \in [Replicas -> Views] /\ join_tail' \in [Replicas -> 0 .. MaxOp]
    BY <1>1, <1>2, <1>3, <1>4, <1>7
  <2>4. /\ acks' \in [Replicas -> [Ops -> SUBSET Replicas]]
        /\ exit_views' \in [Replicas -> SUBSET Replicas]
        /\ exit_window' \in [Replicas -> BOOLEAN]
        /\ commit_timer' \in [Replicas -> BOOLEAN]
    BY <1>4, Typed
  <2> QED BY <1>4, <2>1, <2>2, <2>3, <2>4 DEF IndInv, TypeOK
<1>13. Statuses'
  <2>1. view[r] <= view[r]
    BY <1>7 DEF Views
  <2> QED BY <1>8, <2>1 DEF IndInv, Statuses, Normal
<1>14. EmptyAhead' /\ Joinable'
  BY <1>1, <1>8 DEF IndInv, EmptyAhead, Joinable, Normal
<1>15. PrimaryLog'
  <2> SUFFICES ASSUME NEW q \in Replicas, Normal(q)', IsPrimary(q)'
               PROVE  /\ commit_max'[q] <= op'[q]
                      /\ \A o \in Ops : o <= op'[q] =>
                           journal'[q][o] # NoHeader /\ journal'[q][o].commit <= commit_max'[q]
    BY DEF PrimaryLog
  <2>1. CASE q = r
    <3>1. \A o \in Ops : o <= head => slots[o] # NoHeader /\ slots[o].commit <= head
      BY <1>9, <1>10 DEF Possible
    <3> QED BY <1>7, <1>8, <2>1, <3>1
  <2>2. CASE q # r
    BY <1>8, <2>2 DEF IndInv, PrimaryLog, Normal, IsPrimary
  <2> QED BY <2>1, <2>2
<1>16. Executed'
  <2> SUFFICES ASSUME NEW q \in Replicas, NEW o \in Ops
               PROVE  /\ journal'[q][o] # NoHeader /\ o \notin dirty'[q] => o <= commit_min[q]
                      /\ o <= commit_min[q] =>
                           journal'[q][o] # NoHeader /\ journal'[q][o] = prepares[q][o]
    BY <1>4 DEF IndInv, Executed
  <2>1. /\ journal[q][o] # NoHeader /\ o \notin dirty[q] => o <= commit_min[q]
        /\ o <= commit_min[q] => journal[q][o] # NoHeader /\ journal[q][o] = prepares[q][o]
    BY DEF IndInv, Executed
  <2>2. CASE q = r
    <3>1. o > head \/ o <= head
      BY <1>1 DEF Ops
    <3> QED BY <1>1, <1>8, <2>1, <2>2, <3>1
  <2>3. CASE q # r
    BY <1>8, <2>1, <2>3
  <2> QED BY <2>2, <2>3
<1>17. Messages'
  <2> SUFFICES ASSUME NEW x \in network' PROVE Possible(x) /\ Promised(x)'
    BY DEF Messages, Possible
  <2>1. CASE x = a
    BY <1>9, <1>10, <2>1 DEF Promised
  <2>2. CASE x \in network /\ x.type # "prepare_ok"
    BY <2>2 DEF IndInv, Messages, Promised
  <2>3. CASE x \in network /\ x.type = "prepare_ok"
    <3>1. Possible(x) /\ Promised(x) /\ x.from \in Replicas /\ x.view \in Views
      BY <2>3, MessageFields DEF IndInv, Messages, TypeOK
    <3>2. CASE x.from = r
      <4>1. x.view < view[r]
        BY <1>7, <2>3, <3>1, <3>2 DEF Promised, Views
      <4>2. x.view <= view[r] /\ x.view # view[r]
        BY <1>7, <3>1, <4>1 DEF Views
      <4> QED BY <1>8, <3>1, <3>2, <4>2 DEF Promised
    <3>3. CASE x.from # r
      BY <1>8, <2>3, <3>1, <3>3 DEF Promised
    <3> QED BY <3>2, <3>3
  <2> QED BY <1>4, <2>1, <2>2, <2>3
<1>18. OfPrimaries(M)'
  <2>1. ASSUME NEW q \in Replicas, NEW u \in Views, PrimaryOf(u) = q, log_view'[q] < u
        PROVE  \A o \in Ops : M[u][o] = NoHeader
    <3>1. u # view[r] /\ log_view[q] < u
      BY <1>2, <1>7, <1>8, <2>1 DEF Views
    <3> QED BY <1>5, <1>6, <2>1, <3>1 DEF OneLogPerView, OfPrimaries
  <2>2. ASSUME NEW q \in Replicas, Normal(q)', IsPrimary(q)', NEW o \in Ops, o > op'[q]
        PROVE  M[view'[q]][o] = NoHeader
    <3>1. CASE q = r
      BY <1>1, <1>6, <1>8, <2>2, <3>1
    <3>2. CASE q # r
      <4>1. Normal(q) /\ IsPrimary(q) /\ o > op[q] /\ view'[q] = view[q]
        BY <1>8, <2>2, <3>2 DEF Normal, IsPrimary
      <4>2. view[q] # view[r] /\ view[q] \in Views
        BY <1>2, <1>7, <3>2, <4>1 DEF IsPrimary
      <4> QED BY <1>5, <1>6, <4>1, <4>2 DEF OneLogPerView, OfPrimaries
    <3> QED BY <3>1, <3>2
  <2> QED BY <2>1, <2>2 DEF OfPrimaries
<1>19. Held(M)'
  <2> SUFFICES ASSUME NEW q \in Replicas, NEW o \in Ops
               PROVE  journal'[q][o] \in {NoHeader, M[log_view'[q]][o]}
    BY DEF Held
  <2>1. CASE q = r
    BY <1>6, <1>8, <2>1
  <2>2. CASE q # r
    <3>1. journal[q][o] \in {NoHeader, L[log_view[q]][o]} /\ log_view[q] \in Views
      BY <1>2, <1>5 DEF OneLogPerView, Held
    <3> QED BY <1>6, <1>8, <2>2, <3>1
  <2> QED BY <2>1, <2>2
<1>20. ASSUME NEW x \in network' PROVE Agrees(M, x)
  <2>1. Agrees(M, a)
    BY <1>6, <1>9 DEF Agrees
  <2>2. \A u \in Views, k \in Ops : L[u][k] # NoHeader => M[u][k] = L[u][k]
    BY <1>6
  <2> QED BY <1>4, <1>5, <2>1, <2>2, LongerLogsAgree
<1>21. OneLogPerView(M)'
  BY <1>6, <1>18, <1>19, <1>20 DEF OneLogPerView
<1> QED BY <1>11, <1>12, <1>13, <1>14, <1>15, <1>16, <1>17, <1>21 DEF IndInv

\* The join views of a quorum are of the view the replica changes to.
LEMMA KeptJoins ==
  ASSUME IndInv, NEW r \in Replicas, NEW m \in Received("join_view"), OnJoinView(r, m),
         ~(Normal(r) \/ m.view > view[r])
  PROVE  LET kept == [joins[r] EXCEPT ![m.from] = Newer(@, m)]
             J    == {kept[q] : q \in Replicas} \ {NoJoin}
         IN  /\ kept = [q \in Replicas |-> kept[q]]
             /\ \A q \in Replicas : kept[q] # NoJoin =>
                  kept[q] \in Received("join_view") /\ kept[q].view = view[r]
             /\ J \subseteq Received("join_view") /\ J # {}
<1> DEFINE kept == [joins[r] EXCEPT ![m.from] = Newer(@, m)]
           J    == {kept[q] : q \in Replicas} \ {NoJoin}
<1>1. m.view = view[r] /\ m.from \in Replicas /\ IsPrimary(r) /\ view[r] \in Views
  <2>1. m.view >= view[r] /\ IsPrimary(r)
    BY DEF OnJoinView, IsPrimary
  <2>2. m.view \in Views /\ m.from \in Replicas
    BY JoinFields
  <2>3. view[r] \in Views
    BY DEF IndInv, TypeOK
  <2> QED BY <2>1, <2>2, <2>3 DEF Views
<1>2. joins = [q \in Replicas |-> [p \in Replicas |-> joins[q][p]]]
  BY DEF IndInv, JoinsArrived
<1>3. /\ m # NoJoin
      /\ kept = [q \in Replicas |-> kept[q]]
      /\ \A q \in Replicas : kept[q] # NoJoin =>
           kept[q] \in Received("join_view") /\ kept[q].view = view[r]
      /\ kept[m.from] # NoJoin
  <2>1. m # NoJoin
    BY SentinelAssumption DEF Received, IndInv, TypeOK
  <2>2. Newer(joins[r][m.from], m) \in {joins[r][m.from], m} \ {NoJoin}
    BY <2>1 DEF Newer
  <2>3. \A q \in Replicas : kept[q] = joins[r][q] \/ kept[q] = m
    BY <1>1, <1>2, <2>2
  <2>4. kept[m.from] # NoJoin
    BY <1>1, <1>2, <2>2
  <2>5. joins[r] = [q \in Replicas |-> joins[r][q]]
    BY <1>2
  <2>6. kept = [q \in Replicas |-> kept[q]]
    BY <2>5
  <2> HIDE DEF kept
  <2> QED BY <1>1, <2>1, <2>3, <2>4, <2>6 DEF IndInv, JoinsArrived
<1>4. J \subseteq Received("join_view") /\ J # {}
  <2> HIDE DEF kept
  <2> QED BY <1>1, <1>3
<1> QED BY <1>3, <1>4

LEMMA OnJoinViewKeeps ==
  ASSUME IndInv, NEW r \in Replicas, NEW m \in Received("join_view"), OnJoinView(r, m)
  PROVE  IndInv'
<1> USE DEF logVars, commitVars, exitVars, joinVars, viewVars
<1> DEFINE kept == [joins[r] EXCEPT ![m.from] = Newer(@, m)]
           J    == {kept[q] : q \in Replicas} \ {NoJoin}
<1>1. CASE Normal(r) \/ m.view > view[r]
  BY <1>1, PanicKeeps DEF OnJoinView, PanicKind
<1>2. CASE ~(Normal(r) \/ m.view > view[r]) /\ JoinFailure(J) # NoPanic
  <2>1. Panic(r, JoinFailure(J))
    BY <1>2 DEF OnJoinView
  <2>2. JoinFailure(J) \in PanicKind
    BY DEF JoinFailure, PanicKind
  <2> HIDE DEF J
  <2> QED BY <2>1, <2>2, PanicKeeps
<1>3. CASE ~(Normal(r) \/ m.view > view[r]) /\ JoinFailure(J) = NoPanic
  <2>1. IsPrimary(r) /\ joins = [q \in Replicas |-> [p \in Replicas |-> joins[q][p]]]
    BY DEF OnJoinView, IsPrimary, IndInv, JoinsArrived
  <2>2. /\ kept = [q \in Replicas |-> kept[q]]
        /\ \A q \in Replicas : kept[q] # NoJoin =>
             kept[q] \in Received("join_view") /\ kept[q].view = view[r]
        /\ J \subseteq Received("join_view") /\ J # {}
    BY <1>3, KeptJoins
  <2>3. CASE Awaits(J)
    <3>1. /\ joins' = [joins EXCEPT ![r] = kept]
          /\ UNCHANGED <<viewVars, logVars, commitVars, acks, exitVars, commit_timer,
                         join_tail, panicked, network>>
      BY <1>3, <2>3 DEF OnJoinView
    <3> HIDE DEF kept
    <3>2. joins' = [q \in Replicas |-> [p \in Replicas |-> joins'[q][p]]]
      BY <2>1, <2>2, <3>1
    <3>3. ASSUME NEW q \in Replicas, NEW p \in Replicas, joins'[q][p] # NoJoin
          PROVE  joins'[q][p] \in Received("join_view") /\ joins'[q][p].view = view[q]
      BY <2>1, <2>2, <3>1, <3>3 DEF IndInv, JoinsArrived
    <3>4. JoinsArrived'
      BY <3>1, <3>2, <3>3 DEF JoinsArrived, Received
    <3> QED BY <3>1, <3>4, Typed, LogsStay
  <2>4. CASE ~Awaits(J) /\ StartFailure(r, J) # NoPanic
    <3>1. Panic(r, StartFailure(r, J))
      BY <1>3, <2>4 DEF OnJoinView
    <3>2. StartFailure(r, J) \in PanicKind
      BY DEF StartFailure, PanicKind
    <3> HIDE DEF J
    <3> QED BY <3>1, <3>2, PanicKeeps
  <2>5. CASE ~Awaits(J) /\ StartFailure(r, J) = NoPanic
    <3>1. StartsView(r, J)
      BY <1>3, <2>5 DEF OnJoinView, StartsView, Send
    <3> HIDE DEF J
    <3> QED BY <1>3, <2>1, <2>2, <2>5, <3>1, StartsViewKeeps
  <2> QED BY <2>3, <2>4, <2>5
<1> QED BY <1>1, <1>2, <1>3

-----------------------------------------------------------------------------
(* The theorems *)

LEMMA NextKeeps == IndInv /\ [Next]_vars => IndInv'
<1> SUFFICES ASSUME IndInv, [Next]_vars PROVE IndInv'
  OBVIOUS
<1>1. CASE UNCHANGED vars
  <2>1. UNCHANGED <<viewVars, op, journal, dirty, commit_max, commit_min, committing, prepares,
                    acks, exit_views, exit_window, commit_timer, join_tail, joins, panicked,
                    network>>
    BY <1>1 DEF vars, viewVars, logVars, commitVars, exitVars, joinVars
  <2> QED BY <2>1, Typed, LogsStay
<1>2. CASE Next
  <2>1. PICK r \in Replicas :
          \/ OnRequest(r)
          \/ SendCommit(r)
          \/ OnCommitTimeoutAbroad(r)
          \/ CommitExecute(r)
          \/ SendExitView(r)
          \/ OnExitWindowTimeout(r)
          \/ OnJoinViewTimeout(r)
          \/ OnGetViewTimeout(r)
          \/ OnRepairTimeout(r)
          \/ \E m \in Received("prepare") :
               OnPrepareAccepted(r, m) \/ OnPrepareFuture(r, m) \/ OnRepair(r, m)
          \/ \E m \in Received("prepare_ok") : OnPrepareOk(r, m)
          \/ \E m \in Received("commit") : OnCommit(r, m)
          \/ \E m \in Received("exit_view") : OnExitView(r, m)
          \/ \E m \in Received("join_view") : OnJoinView(r, m)
          \/ \E m \in Received("get_view") : OnGetView(r, m)
          \/ \E m \in Received("view") : OnView(r, m)
    BY <1>2 DEF Next
  <2> QED BY <2>1, OnRequestKeeps, SendCommitKeeps, OnCommitTimeoutAbroadKeeps, CommitExecuteKeeps,
             SendExitViewKeeps, OnExitWindowTimeoutKeeps, OnJoinViewTimeoutKeeps,
             OnGetViewTimeoutKeeps, OnRepairTimeoutKeeps, OnPrepareAcceptedKeeps,
             OnPrepareFutureKeeps, OnRepairKeeps, OnPrepareOkKeeps, OnCommitKeeps,
             OnExitViewKeeps, OnJoinViewKeeps, OnGetViewKeeps, OnViewKeeps
<1> QED BY <1>1, <1>2

\* In every state each view has one log, of which all that is held and sent of the
\* view is a part (on_request, on_prepare, on_join_view, on_view, repair_header).
THEOREM Invariance == Spec => []IndInv
<1>1. Init => IndInv
  BY InitEstablishes
<1>2. IndInv /\ [Next]_vars => IndInv'
  BY NextKeeps
<1> QED BY <1>1, <1>2, PTL DEF Spec

\* The variables keep their types, and every message has the shape of its command.
THEOREM TypeCorrect == Spec => []TypeOK
<1>1. IndInv => TypeOK
  BY DEF IndInv
<1> QED BY <1>1, Invariance, PTL

\* Two logs of one view hold no conflicting headers, for they are parts of one log
\* (on_view_set_journal, on_prepare, repair_header).
THEOREM LogsMatch == Spec => []LogsOfAViewMatch
<1>1. IndInv => LogsOfAViewMatch
  <2> SUFFICES ASSUME IndInv, NEW r \in Replicas, NEW q \in Replicas, log_view[r] = log_view[q],
                      NEW o \in Ops
               PROVE  NoHeader \in {journal[r][o], journal[q][o]} \/ journal[r][o] = journal[q][o]
    BY DEF LogsOfAViewMatch
  <2>1. PICK L \in Logs : OneLogPerView(L)
    BY DEF IndInv
  <2> QED BY <2>1 DEF OneLogPerView, Held
<1> QED BY <1>1, Invariance, PTL

\* What a replica acknowledged in the view of its log is in that log (send_prepare_ok,
\* transition_to_view_change_status, on_view_set_journal).
THEOREM AcknowledgedStays == Spec => []AcknowledgedIsKept
<1>1. IndInv => AcknowledgedIsKept
  BY DEF IndInv, Messages, Promised, AcknowledgedIsKept, Received
<1> QED BY <1>1, Invariance, PTL

\* No view takes an executed op out of a log or replaces it (replace_header,
\* set_op_and_commit_max, repair_header).
THEOREM ExecutedStays == Spec => []ExecutedIsKept
<1>1. IndInv => ExecutedIsKept
  <2> SUFFICES ASSUME IndInv, NEW r \in Replicas, NEW o \in 1 .. commit_min[r]
               PROVE  journal[r][o] = prepares[r][o]
    BY DEF ExecutedIsKept
  <2>1. commit_min[r] \in 0 .. MaxOp
    BY DEF IndInv, TypeOK
  <2>2. o \in Ops /\ o <= commit_min[r]
    BY <2>1, BoundAssumption DEF Ops
  <2> QED BY <2>2 DEF IndInv, Executed
<1> QED BY <1>1, Invariance, PTL

\* A primary prepares an op of its view once, also after its log was truncated by
\* the view it left (primary_pipeline_prepare).
THEOREM PreparesOnce == Spec => PreparedOnce
<1>1. IndInv /\ [Next]_vars =>
        [\A r \in Replicas : Live(r) /\ OnRequest(r) =>
           \A m \in Received("prepare") : <<m.op, m.header.view>> # <<op[r] + 1, view[r]>>]_vars
  <2> SUFFICES ASSUME IndInv, NEW r \in Replicas, OnRequest(r), NEW m \in Received("prepare"),
                      m.op = op[r] + 1, m.header.view = view[r]
               PROVE  FALSE
    OBVIOUS
  <2>1. PICK L \in Logs : OneLogPerView(L)
    BY DEF IndInv
  <2>2. m.op \in Ops /\ m.header # NoHeader /\ m.header = L[view[r]][m.op]
    BY <2>1, PreparesAreTrue
  <2>3. Normal(r) /\ IsPrimary(r) /\ op[r] \in 0 .. MaxOp
    BY DEF OnRequest, MayPrepare, IndInv, TypeOK
  <2>4. m.op > op[r]
    BY <2>3
  <2> QED BY <2>1, <2>2, <2>3, <2>4 DEF OneLogPerView, OfPrimaries
<1> QED BY <1>1, Invariance, PTL DEF Spec, PreparedOnce

-----------------------------------------------------------------------------
(* The assertions that compare headers *)

Conflicting == {"hash_chain", "jumped_head", "commit_checksum", "join_view_conflict",
                "broken_chain", "view_commit"}

\* The panics a step may add are of other kinds.
Harmless(r) ==
  panicked' = panicked \/ \E why \in PanicKind \ Conflicting : panicked' = [panicked EXCEPT ![r] = why]

LEMMA OtherPanics ==
  ASSUME NEW r \in Replicas, NEW why, Panic(r, why), why \in PanicKind \ Conflicting
  PROVE  Harmless(r)
BY DEF Panic, Harmless

\* The prepare that follows the head continues the chain, and nothing is ahead of it.
LEMMA PreparesNeverConflict ==
  ASSUME IndInv, NEW r \in Replicas, NEW m \in Received("prepare"),
         OnPrepareAccepted(r, m) \/ OnPrepareFuture(r, m)
  PROVE  panicked' = panicked
<1>1. PICK L \in Logs : OneLogPerView(L)
  BY DEF IndInv
<1>2. m.op \in Ops /\ m.header # NoHeader /\ m.header = L[m.header.view][m.op]
  BY <1>1, PreparesAreTrue
<1>3. op[r] \in 0 .. MaxOp /\ log_view[r] \in Views
  BY DEF IndInv, TypeOK
<1>4. CASE OnPrepareAccepted(r, m)
  <2>1. m.header.view = log_view[r] /\ m.op = op[r] + 1
    BY <1>4 DEF OnPrepareAccepted, Follows, IndInv, Statuses
  <2>2. ~(/\ m.op > 1 /\ journal[r][m.op - 1] # NoHeader
          /\ journal[r][m.op - 1].view # m.header.parent)
    <3> SUFFICES ASSUME m.op > 1, journal[r][m.op - 1] # NoHeader
                 PROVE  journal[r][m.op - 1].view = m.header.parent
      OBVIOUS
    <3>1. m.op - 1 \in Ops
      BY <1>2, BoundAssumption DEF Ops
    <3>2. journal[r][m.op - 1] = L[log_view[r]][m.op - 1]
      BY <1>1, <3>1 DEF OneLogPerView, Held
    <3>3. m.header.parent = HeaderAt(L[log_view[r]], m.op - 1).view
      BY <1>1, <1>2, <1>3, <2>1 DEF OneLogPerView, Chained
    <3>4. m.op - 1 # 0
      BY <1>2, BoundAssumption DEF Ops
    <3> QED BY <3>2, <3>3, <3>4 DEF HeaderAt
  <2> QED BY <1>4, <2>2 DEF OnPrepareAccepted
<1>5. CASE OnPrepareFuture(r, m)
  <2>1. m.op - 1 \in Ops /\ m.op - 1 > op[r]
    <3>1. m.op > op[r] + 1
      BY <1>5 DEF OnPrepareFuture
    <3> QED BY <1>2, <1>3, <3>1, BoundAssumption DEF Ops
  <2>2. journal[r][m.op - 1] = NoHeader
    BY <2>1 DEF IndInv, EmptyAhead
  <2> QED BY <1>5, <2>2 DEF OnPrepareFuture
<1> QED BY <1>4, <1>5

\* The header that a heartbeat commits is that of the log.
LEMMA CommitsNeverConflict ==
  ASSUME IndInv, NEW r \in Replicas, NEW m \in Received("commit"), OnCommit(r, m)
  PROVE  panicked' = panicked
<1>1. PICK L \in Logs : OneLogPerView(L)
  BY DEF IndInv
<1>2. m \in network /\ m.type = "commit" /\ m.commit \in 0 .. MaxOp
  BY MessageFields DEF Received, IndInv, TypeOK
<1>3. log_view[r] = m.view
  BY DEF OnCommit, IndInv, Statuses
<1>4. m.commit > 0 /\ journal[r][m.commit] # NoHeader => journal[r][m.commit] = m.header
  <2>1. m.commit > 0 => m.commit \in Ops
    BY <1>2, BoundAssumption DEF Ops
  <2> QED BY <1>1, <1>2, <1>3, <2>1 DEF OneLogPerView, Held, Agrees
<1> QED BY <1>4 DEF OnCommit

\* Join views of one log list the same headers, which are a chain.
LEMMA JoinsNeverConflict ==
  ASSUME IndInv, NEW J, J \subseteq Received("join_view"), J # {}
  PROVE  ~Conflicts(J) /\ ~Broken(J)
<1>1. PICK L \in Logs : OneLogPerView(L)
  BY DEF IndInv
<1>2. ASSUME NEW j \in J, NEW o \in Nat, Lists(j, o)
      PROVE  /\ o > 0 => o \in Ops
             /\ HeaderAt(j.headers, o) = HeaderAt(L[j.log_view], o)
             /\ o > 0 => L[j.log_view][o] # NoHeader
  <2>1. j \in network /\ j.type = "join_view" /\ j.op \in 0 .. MaxOp /\ j.tail \in 0 .. MaxOp
    BY JoinFields DEF Received
  <2>2. o > 0 => o \in Ops
    BY <1>2, <2>1, BoundAssumption DEF Lists, Ops
  <2>3. o > 0 => j.headers[o] # NoHeader /\ j.headers[o] = L[j.log_view][o]
    BY <1>1, <1>2, <2>1, <2>2 DEF OneLogPerView, Agrees, IndInv, Messages, Possible
  <2>4. o = 0 \/ o > 0
    OBVIOUS
  <2> QED BY <2>2, <2>3, <2>4 DEF HeaderAt
<1>3. ~Conflicts(J)
  <2> SUFFICES ASSUME NEW j \in J, NEW k \in J, j.log_view = k.log_view,
                      NEW o \in MaxOf(j.tail, k.tail) .. MinOf(j.op, k.op)
               PROVE  HeaderAt(j.headers, o) = HeaderAt(k.headers, o)
    BY DEF Conflicts
  <2>1. /\ j.op \in 0 .. MaxOp /\ j.tail \in 0 .. MaxOp
        /\ k.op \in 0 .. MaxOp /\ k.tail \in 0 .. MaxOp
    BY JoinFields
  <2>2. o \in Nat /\ Lists(j, o) /\ Lists(k, o)
    BY <2>1 DEF MaxOf, MinOf, Lists
  <2> QED BY <1>2, <2>2
<1>4. ~Broken(J)
  <2> SUFFICES ASSUME NEW o \in HeadMin(J) + 1 .. OpHead(J),
                      NEW h \in CanonicalHeaders(J, o), NEW g \in CanonicalHeaders(J, o - 1)
               PROVE  h.parent = g.view
    BY DEF Broken
  <2>1. HeadMin(J) \in 0 .. MaxOp /\ OpHead(J) \in Int
    BY HeadsInRange
  <2>2. o \in Nat /\ o > 0 /\ o - 1 \in Nat
    BY <2>1
  <2>3. PICK j \in Canonical(J) : Lists(j, o) /\ h = HeaderAt(j.headers, o)
    BY DEF CanonicalHeaders
  <2>4. PICK k \in Canonical(J) : Lists(k, o - 1) /\ g = HeaderAt(k.headers, o - 1)
    BY DEF CanonicalHeaders
  <2>5. j \in J /\ k \in J /\ j.log_view = k.log_view /\ j.log_view \in Views
    <3>1. j \in J /\ k \in J /\ j.log_view <= k.log_view /\ k.log_view <= j.log_view
      BY DEF Canonical
    <3>2. j.log_view \in Views /\ k.log_view \in Views
      BY <3>1, JoinFields
    <3> QED BY <3>1, <3>2 DEF Views
  <2>6. o \in Ops /\ L[j.log_view][o] # NoHeader /\ h = L[j.log_view][o]
    BY <1>2, <2>2, <2>3, <2>5 DEF HeaderAt
  <2>7. g = HeaderAt(L[j.log_view], o - 1)
    BY <1>2, <2>2, <2>4, <2>5
  <2> QED BY <1>1, <2>5, <2>6, <2>7 DEF OneLogPerView, Chained
<1> QED BY <1>3, <1>4

\* What a view lists was prepared when no more was committed than the view says.
LEMMA ViewsNeverConflict ==
  ASSUME IndInv, NEW r \in Replicas, NEW m \in Received("view")
  PROVE  ViewFailure(r, m) \in PanicKind \ Conflicting
<1>1. PICK L \in Logs : OneLogPerView(L)
  BY DEF IndInv
<1>2. ASSUME NEW o \in 1 .. m.op PROVE ~(m.headers[o].commit > m.commit_max)
  <2>1. m.op \in 0 .. MaxOp /\ m.commit_max \in 0 .. MaxOp
    BY <1>1, ViewsAreTrue
  <2>2. o \in Ops /\ o <= m.op
    BY <2>1, BoundAssumption DEF Ops
  <2>3. m.headers[o] \in Header /\ m.headers[o].commit <= m.commit_max
    BY <1>1, <2>2, ViewsAreTrue DEF Slot
  <2> QED BY <2>1, <2>3 DEF Header
<1> QED BY <1>2 DEF ViewFailure, PanicKind, Conflicting, NoPanic

LEMMA StepsAreHarmless ==
  ASSUME IndInv, NEW r \in Replicas,
         \/ OnRequest(r)
         \/ SendCommit(r)
         \/ OnCommitTimeoutAbroad(r)
         \/ CommitExecute(r)
         \/ SendExitView(r)
         \/ OnExitWindowTimeout(r)
         \/ OnJoinViewTimeout(r)
         \/ OnGetViewTimeout(r)
         \/ OnRepairTimeout(r)
  PROVE  Harmless(r)
<1> USE DEF joinVars
<1>1. CASE OnRequest(r) \/ SendCommit(r) \/ SendExitView(r) \/ OnJoinViewTimeout(r)
           \/ OnGetViewTimeout(r)
  BY <1>1 DEF OnRequest, SendCommit, SendExitView, OnJoinViewTimeout, OnGetViewTimeout, Harmless
<1>2. CASE OnCommitTimeoutAbroad(r)
  BY <1>2, OtherPanics DEF OnCommitTimeoutAbroad, PanicKind, Conflicting
<1>3. CASE CommitExecute(r)
  <2>1. panicked' = panicked \/ \E why \in {"commit_missing", "quorum_count", "commit_as_primary"} :
                                  Panic(r, why)
    BY <1>3 DEF CommitExecute, NoPanic
  <2> QED BY <2>1, OtherPanics DEF PanicKind, Conflicting, Harmless
<1>4. CASE OnExitWindowTimeout(r)
  BY <1>4, OtherPanics DEF OnExitWindowTimeout, PanicKind, Conflicting, Harmless
<1>5. CASE OnRepairTimeout(r)
  BY <1>5, OtherPanics DEF OnRepairTimeout, PanicKind, Conflicting, Harmless
<1> QED BY <1>1, <1>2, <1>3, <1>4, <1>5

LEMMA MessagesAreHarmless ==
  ASSUME IndInv, NEW r \in Replicas, NEW m \in network,
         \/ m.type = "prepare" /\ OnRepair(r, m)
         \/ m.type = "prepare_ok" /\ OnPrepareOk(r, m)
         \/ m.type = "exit_view" /\ OnExitView(r, m)
         \/ m.type = "join_view" /\ OnJoinView(r, m)
         \/ m.type = "get_view" /\ OnGetView(r, m)
         \/ m.type = "view" /\ OnView(r, m)
  PROVE  Harmless(r)
<1>1. CASE OnRepair(r, m)
  BY <1>1, OtherPanics DEF OnRepair, PanicKind, Conflicting, Harmless
<1>2. CASE OnPrepareOk(r, m)
  BY <1>2, OtherPanics DEF OnPrepareOk, PanicKind, Conflicting, Harmless
<1>3. CASE OnExitView(r, m)
  <2>1. panicked' = panicked \/ Panic(r, "join_view_headers")
    BY <1>3 DEF OnExitView, Transition
  <2> QED BY <2>1, OtherPanics DEF PanicKind, Conflicting, Harmless
<1>4. CASE m.type = "join_view" /\ OnJoinView(r, m)
  <2> DEFINE kept == [joins[r] EXCEPT ![m.from] = Newer(@, m)]
             J    == {kept[q] : q \in Replicas} \ {NoJoin}
  <2>1. CASE Normal(r) \/ m.view > view[r]
    BY <1>4, <2>1, OtherPanics DEF OnJoinView, PanicKind, Conflicting
  <2>2. CASE ~(Normal(r) \/ m.view > view[r])
    <3>1. J \subseteq Received("join_view") /\ J # {}
      BY ZenonT(60), <1>4, <2>2, KeptJoins DEF Received
    <3>2. \/ panicked' = panicked
          \/ JoinFailure(J) # NoPanic /\ Panic(r, JoinFailure(J))
          \/ StartFailure(r, J) # NoPanic /\ Panic(r, StartFailure(r, J))
      BY <1>4, <2>2 DEF OnJoinView
    <3> HIDE DEF J
    <3>3. JoinFailure(J) \in PanicKind \ Conflicting
      BY <3>1, JoinsNeverConflict DEF JoinFailure, PanicKind, Conflicting, NoPanic
    <3>4. StartFailure(r, J) \in PanicKind \ Conflicting
      BY DEF StartFailure, PanicKind, Conflicting, NoPanic
    <3> QED BY <3>2, <3>3, <3>4, OtherPanics DEF Harmless
  <2> QED BY <2>1, <2>2
<1>5. CASE OnGetView(r, m)
  BY <1>5, OtherPanics DEF OnGetView, PanicKind, Conflicting, Harmless
<1>6. CASE m.type = "view" /\ OnView(r, m)
  <2>1. \/ panicked' = panicked
        \/ Panic(r, "join_view_headers")
        \/ Panic(r, ViewFailure(r, m))
    BY <1>6 DEF OnView
  <2>2. ViewFailure(r, m) \in PanicKind \ Conflicting
    BY <1>6, ViewsNeverConflict DEF Received
  <2> QED BY <2>1, <2>2, OtherPanics DEF PanicKind, Conflicting, Harmless
<1> QED BY <1>1, <1>2, <1>3, <1>4, <1>5, <1>6

\* No header ever meets one it conflicts with: the assertions of on_prepare,
\* on_commit, jv_quorum::verify, headers_for_view and on_view_set_journal that
\* compare them never fail.
THEOREM NeverConflicts == Spec => []HeadersNeverConflict
<1>1. Init => HeadersNeverConflict
  BY DEF Init, HeadersNeverConflict, NoPanic
<1>2. IndInv /\ HeadersNeverConflict /\ [Next]_vars => HeadersNeverConflict'
  <2> SUFFICES ASSUME IndInv, HeadersNeverConflict, [Next]_vars PROVE HeadersNeverConflict'
    OBVIOUS
  <2>1. CASE UNCHANGED vars
    BY <2>1 DEF vars, HeadersNeverConflict
  <2>2. CASE Next
    <3>1. PICK r \in Replicas : Harmless(r)
      BY <2>2, StepsAreHarmless, MessagesAreHarmless, PreparesNeverConflict, CommitsNeverConflict
         DEF Next, Received, Harmless
    <3>2. panicked \in [Replicas -> PanicKind]
      BY Typed
    <3> QED BY <3>1, <3>2 DEF Harmless, Conflicting, HeadersNeverConflict
  <2> QED BY <2>1, <2>2
<1> QED BY <1>1, <1>2, Invariance, PTL DEF Spec

=============================================================================
