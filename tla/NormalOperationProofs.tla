----------------------- MODULE NormalOperationProofs -----------------------
(***************************************************************************)
(* Proofs about NormalOperation, for every number of replicas and every    *)
(* value of the bounds.                                                    *)
(***************************************************************************)
EXTENDS NormalOperation, FiniteSetTheorems, SequenceTheorems, TLAPS

-----------------------------------------------------------------------------
(* What the helpers return *)

\* A quorum size is an integer, so that cardinalities compare with it.
LEMMA QuorumType == Quorum \in Int
BY ClusterAssumption, SMT
   DEF Quorum, ReplicationQuorum, MinOf, DivCeil, QUORUM_REPLICATION_MAX

\* A set of acknowledgements that is a quorum stays one when it grows
\* (on_prepare_ok counts acknowledgements while the commit is parked).
LEMMA QuorumGrows ==
  ASSUME NEW S \in SUBSET Replicas, NEW r \in Replicas, QuorumCounted(S)
  PROVE  QuorumCounted(S \cup {r})
<1>1. IsFiniteSet(S)
  <2>1. IsFiniteSet(Replicas)
    BY ClusterAssumption, FS_Interval DEF Replicas
  <2> QED BY <2>1, FS_Subset
<1>2. Cardinality(S) \in Nat
  BY <1>1, FS_CardinalityType
<1>3. CASE r \in S
  <2>1. S \cup {r} = S  BY <1>3
  <2> QED BY <2>1
<1>4. CASE r \notin S
  <2>1. Cardinality(S \cup {r}) = Cardinality(S) + 1
    BY <1>1, <1>4, FS_AddElement
  <2> QED BY <1>2, <2>1, QuorumType DEF QuorumCounted
<1> QED BY <1>3, <1>4

\* The headers that the primary makes are headers.
LEMMA HeadersType ==
  ASSUME TypeOK, NEW s \in Seq(Entries), NEW c \in 0 .. MaxOp,
         op[Primary] > 0 => journal[Primary][op[Primary]] # NoHeader
  PROVE  \A i \in 1 .. Len(s) : HeadersOf(s, c)[i] \in Header
<1> SUFFICES ASSUME NEW i \in 1 .. Len(s)
             PROVE  HeadersOf(s, c)[i] \in Header
  OBVIOUS
<1> DEFINE parent == IF i > 1 THEN s[i - 1]
                     ELSE IF op[Primary] = 0 THEN Root
                     ELSE journal[Primary][op[Primary]].request
<1>1. HeadersOf(s, c)[i] = [request |-> s[i], parent |-> parent, commit |-> c]
  BY DEF HeadersOf
<1>2. s[i] \in Entries /\ (i > 1 => s[i - 1] \in Entries)
  OBVIOUS
<1>3. op[Primary] # 0 => journal[Primary][op[Primary]] \in Header
  BY SMTT(30), ClusterAssumption, BoundAssumption DEF TypeOK, Replicas, Ops
<1>4. parent \in Entries \cup {Root}
  BY <1>2, <1>3 DEF Header
<1> QED BY <1>1, <1>2, <1>4 DEF Header

\* The messages that the replicas send are messages.
LEMMA PrepareType ==
  ASSUME NEW r \in Backups, NEW o \in Ops, NEW h \in Header, NEW b \in BOOLEAN
  PROVE  [type |-> "prepare", to |-> r, op |-> o, header |-> h, body |-> b] \in Message
BY DEF Message

LEMMA PrepareOkType ==
  ASSUME NEW r \in Backups, NEW o \in Ops, NEW h \in Header
  PROVE  PrepareOk(r, o, h) \in Message
BY DEF Message, PrepareOk

LEMMA CommitType ==
  ASSUME NEW r \in Backups, NEW c \in 0 .. MaxOp, NEW h \in Header \cup {NoHeader}
  PROVE  [type |-> "commit", to |-> r, commit |-> c, header |-> h] \in Message
BY DEF Message

-----------------------------------------------------------------------------
(* Steps that several actions share *)

\* What every action keeps when it leaves the replicas alone, whatever it takes
\* from the network.
LEMMA OnlyNetworkShrinks ==
  ASSUME Inductive, UNCHANGED <<logVars, commitVars, primaryVars, panicked>>,
         network' \subseteq network, lost' \in 0 .. MaxLost
  PROVE  Inductive'
<1> USE DEF Inductive, logVars, commitVars, primaryVars
<1>1. TypeOK'
  BY DEF TypeOK
<1>2. PrimaryLog' /\ BackupLogs' /\ AcksAreJournaled'
  BY DEF PrimaryLog, BackupLogs, AcksAreJournaled
<1>3. Messages'
  BY DEF Messages
<1>4. Commits' /\ Committing'
  BY DEF Commits, Committing
<1>5. CommitFollowsPrimary' /\ HeadWithinPipeline' /\ BackupsNeverPanic'
  BY DEF CommitFollowsPrimary, HeadWithinPipeline, BackupsNeverPanic, Live
<1> QED BY <1>1, <1>2, <1>3, <1>4, <1>5

\* The primary may panic: no property speaks of its later steps.
LEMMA PrimaryPanics ==
  ASSUME Inductive, NEW why \in PanicKind, Panic(Primary, why)
  PROVE  Inductive'
<1> USE DEF Inductive, Panic, logVars, commitVars, primaryVars
<1>1. TypeOK'
  BY DEF TypeOK
<1>2. PrimaryLog' /\ BackupLogs' /\ AcksAreJournaled' /\ Messages'
  BY DEF PrimaryLog, BackupLogs, AcksAreJournaled, Messages
<1>3. Commits' /\ Committing'
  BY DEF Commits, Committing
<1>4. CommitFollowsPrimary' /\ HeadWithinPipeline'
  BY DEF CommitFollowsPrimary, HeadWithinPipeline
<1>5. BackupsNeverPanic'
  BY DEF BackupsNeverPanic, Live, Backups, TypeOK
<1> QED BY <1>1, <1>2, <1>3, <1>4, <1>5

\* Adding messages that are true of their senders keeps Messages.
LEMMA OnlyNetworkChanges ==
  ASSUME Inductive, UNCHANGED <<logVars, commitVars, panicked, lost>>,
         UNCHANGED <<request_queue, acks>>,
         prepare_timer' \in BOOLEAN, abdicate_timer' \in BOOLEAN, abdicating' \in BOOLEAN,
         network' \subseteq Message, Messages'
  PROVE  Inductive'
<1> USE DEF Inductive, logVars, commitVars
<1>1. TypeOK'
  BY DEF TypeOK
<1>2. PrimaryLog' /\ BackupLogs' /\ AcksAreJournaled'
  BY DEF PrimaryLog, BackupLogs, AcksAreJournaled
<1>3. Commits' /\ Committing'
  BY DEF Commits, Committing
<1>4. CommitFollowsPrimary' /\ HeadWithinPipeline' /\ BackupsNeverPanic'
  BY DEF CommitFollowsPrimary, HeadWithinPipeline, BackupsNeverPanic, Live
<1> QED BY <1>1, <1>2, <1>3, <1>4

-----------------------------------------------------------------------------
(* The steps of the primary *)

LEMMA StepPrepareTimeout == Inductive /\ OnPrepareTimeout => Inductive'
<1> SUFFICES ASSUME Inductive, OnPrepareTimeout PROVE Inductive'
  OBVIOUS
<1> USE ClusterAssumption DEF Replicas
<1>1. TypeOK /\ Messages /\ PrimaryLog /\ AcksAreJournaled
  BY DEF Inductive
<1>2. UNCHANGED <<logVars, commitVars, panicked, lost, request_queue, acks, abdicating>>
  BY DEF OnPrepareTimeout
<1>3. prepare_timer' \in BOOLEAN /\ abdicate_timer' \in BOOLEAN /\ abdicating' \in BOOLEAN
  BY <1>1, <1>2 DEF OnPrepareTimeout, TypeOK
<1>4. network' \subseteq Message /\ Messages'
  <2>1. CASE network' = network
    BY <1>1, <1>2, <2>1 DEF TypeOK, Messages, logVars, commitVars
  <2>2. CASE \E o \in Ops :
               /\ Pending(o)
               /\ network' = network \cup
                    {[type |-> "prepare", to |-> r, op |-> o,
                      header |-> journal[Primary][o], body |-> FALSE] : r \in Replicas \ acks[o]}
    <3>1. PICK o \in Ops :
               /\ Pending(o)
               /\ network' = network \cup
                    {[type |-> "prepare", to |-> r, op |-> o,
                      header |-> journal[Primary][o], body |-> FALSE] : r \in Replicas \ acks[o]}
      BY <2>2
    <3>2. o <= op[Primary]
      BY <3>1, <1>1 DEF Pending, Pipeline, TypeOK
    <3>3. /\ journal[Primary][o] \in Header
          /\ Replicas \ acks[o] \subseteq Backups
      BY <3>2, <1>1 DEF TypeOK, PrimaryLog, AcksAreJournaled, Backups
    <3>4. network' \subseteq Message
      <4>1. \A r \in Replicas \ acks[o] :
              [type |-> "prepare", to |-> r, op |-> o,
               header |-> journal[Primary][o], body |-> FALSE] \in Message
        BY <3>3, PrepareType
      <4> QED BY <3>1, <4>1, <1>1 DEF TypeOK
    <3>5. Messages'
      BY <3>1, <3>2, <3>3, <1>1, <1>2 DEF Messages, logVars, commitVars
    <3> QED BY <3>4, <3>5
  <2> QED BY <2>1, <2>2 DEF OnPrepareTimeout
<1> QED BY <1>2, <1>3, <1>4, OnlyNetworkChanges

LEMMA StepSendCommit == Inductive /\ SendCommit => Inductive'
<1> SUFFICES ASSUME Inductive, SendCommit PROVE Inductive'
  OBVIOUS
<1> USE ClusterAssumption DEF Replicas
<1>1. TypeOK /\ Messages /\ PrimaryLog /\ Commits
  BY DEF Inductive
<1>2. CASE abdicating
  BY <1>2, PrimaryPanics DEF SendCommit, PanicKind
<1>3. CASE ~abdicating
  <2> DEFINE c == commit_max[Primary]
             h == IF c = 0 THEN NoHeader ELSE journal[Primary][c]
  <2>1. /\ network' = network \cup
             {[type |-> "commit", to |-> r, commit |-> c, header |-> h] : r \in Backups}
        /\ UNCHANGED <<logVars, commitVars, primaryVars, panicked, lost>>
    BY <1>3 DEF SendCommit
  <2>2. c \in 0 .. MaxOp /\ c <= commit_min[Primary] /\ (c > 0 => c \in Ops)
    BY <1>1 DEF TypeOK, Commits, Ops
  <2>3. h \in Header \cup {NoHeader}
    BY <2>2, <1>1 DEF TypeOK
  <2>4. network' \subseteq Message
    BY <2>1, <2>2, <2>3, <1>1, CommitType DEF TypeOK
  <2>5. Messages'
    <3> HIDE DEF c, h
    <3>1. c > 0 => h = journal[Primary][c]
      BY <2>2 DEF c, h
    <3> QED BY <2>1, <2>2, <3>1, <1>1 DEF Messages, logVars, commitVars
  <2>6. prepare_timer' \in BOOLEAN /\ abdicate_timer' \in BOOLEAN /\ abdicating' \in BOOLEAN
    BY <2>1, <1>1 DEF TypeOK, primaryVars
  <2> QED BY <2>1, <2>4, <2>5, <2>6, OnlyNetworkChanges DEF primaryVars
<1> QED BY <1>2, <1>3

LEMMA StepAbdicateTimeout == Inductive /\ OnAbdicateTimeout => Inductive'
<1> SUFFICES ASSUME Inductive, OnAbdicateTimeout PROVE Inductive'
  OBVIOUS
<1>1. TypeOK /\ Messages
  BY DEF Inductive
<1>2. Messages' /\ network' \subseteq Message
  BY <1>1 DEF OnAbdicateTimeout, Messages, TypeOK, logVars, commitVars
<1> QED BY <1>1, <1>2, OnlyNetworkChanges DEF OnAbdicateTimeout, TypeOK

LEMMA StepRequestQueued ==
  ASSUME Inductive, NEW v \in Requests, OnRequestQueued(v)
  PROVE  Inductive'
<1> USE DEF Inductive, OnRequestQueued, logVars, commitVars
<1>1. TypeOK'
  <2>1. Append(request_queue, v) \in Seq(Requests)
    BY DEF TypeOK
  <2> QED BY <2>1 DEF TypeOK
<1>2. PrimaryLog' /\ BackupLogs' /\ AcksAreJournaled' /\ Messages'
  BY DEF PrimaryLog, BackupLogs, AcksAreJournaled, Messages
<1>3. Commits' /\ Committing'
  BY DEF Commits, Committing
<1>4. CommitFollowsPrimary' /\ HeadWithinPipeline' /\ BackupsNeverPanic'
  BY DEF CommitFollowsPrimary, HeadWithinPipeline, BackupsNeverPanic, Live
<1> QED BY <1>1, <1>2, <1>3, <1>4

\* What primary_pipeline_prepare does to the log, the acknowledgements and the
\* network, whatever commit the new headers carry.
PrepareDoes(s, c) ==
  /\ op' \in [Replicas -> 0 .. MaxOp]
  /\ journal' \in [Replicas -> [Ops -> Header \cup {NoHeader}]]
  /\ acks' \in [Ops -> SUBSET Replicas]
  /\ network' \subseteq Message
  /\ prepare_timer' \in BOOLEAN /\ abdicate_timer' \in BOOLEAN
  /\ op'[Primary] = op[Primary] + Len(s)
  /\ \A r \in Backups : op'[r] = op[r] /\ journal'[r] = journal[r]
  /\ \A o \in Ops :
       IF o \in op[Primary] + 1 .. op[Primary] + Len(s)
       THEN /\ journal'[Primary][o] \in Header
            /\ journal'[Primary][o].commit = c
            /\ o > 1 => journal'[Primary][o].parent = journal'[Primary][o - 1].request
            /\ acks'[o] = {Primary}
       ELSE journal'[Primary][o] = journal[Primary][o] /\ acks'[o] = acks[o]
  /\ \A m \in network' \ network :
       /\ m.type = "prepare"
       /\ m.op \in op[Primary] + 1 .. op[Primary] + Len(s)
       /\ m.header = journal'[Primary][m.op]

LEMMA PrepareEffect ==
  ASSUME Inductive, NEW s \in Seq(Entries), NEW c \in 0 .. MaxOp, NEW len,
         Prepare(s, c, len)
  PROVE  PrepareDoes(s, c)
<1> USE ClusterAssumption, BoundAssumption
<1> DEFINE new == op[Primary] + 1 .. op[Primary] + Len(s)
<1>1. /\ TypeOK /\ PrimaryLog
      /\ Primary \in Replicas /\ Backups \subseteq Replicas /\ Primary \notin Backups
      /\ Len(s) \in Nat /\ op[Primary] \in 0 .. MaxOp
      /\ op[Primary] + Len(s) <= MaxOp
  BY SMTT(30) DEF Inductive, Replicas, Backups, TypeOK, Prepare
<1>2. new \subseteq Ops /\ \A o \in new : o - op[Primary] \in 1 .. Len(s)
  BY <1>1 DEF Ops
<1>3. \A i \in 1 .. Len(s) : HeadersOf(s, c)[i] \in Header
  <2>1. op[Primary] > 0 => journal[Primary][op[Primary]] # NoHeader
    BY <1>1 DEF PrimaryLog, Ops
  <2> QED BY <1>1, <2>1, HeadersType
<1>4. /\ op' \in [Replicas -> 0 .. MaxOp]
      /\ op'[Primary] = op[Primary] + Len(s)
      /\ \A r \in Backups : op'[r] = op[r]
  BY <1>1 DEF Prepare, TypeOK
<1>5. /\ \A o \in Ops : journal'[Primary][o] = IF o \in new
                                               THEN HeadersOf(s, c)[o - op[Primary]]
                                               ELSE journal[Primary][o]
      /\ \A r \in Backups : journal'[r] = journal[r]
  BY <1>1 DEF Prepare, TypeOK
<1>6. journal' \in [Replicas -> [Ops -> Header \cup {NoHeader}]]
  <2>1. [o \in Ops |-> IF o \in new THEN HeadersOf(s, c)[o - op[Primary]]
                       ELSE journal[Primary][o]] \in [Ops -> Header \cup {NoHeader}]
    BY <1>1, <1>2, <1>3 DEF TypeOK
  <2> QED BY <1>1, <2>1 DEF Prepare, TypeOK
<1>7. /\ acks' \in [Ops -> SUBSET Replicas]
      /\ \A o \in Ops : acks'[o] = IF o \in new THEN {Primary} ELSE acks[o]
  BY <1>1 DEF Prepare, AcksWith, TypeOK
<1>8. prepare_timer' \in BOOLEAN /\ abdicate_timer' \in BOOLEAN
  BY <1>1 DEF Prepare, TypeOK
<1>9. \A o \in new : /\ journal'[Primary][o] \in Header
                     /\ journal'[Primary][o].commit = c
                     /\ o > 1 => journal'[Primary][o].parent = journal'[Primary][o - 1].request
  <2> SUFFICES ASSUME NEW o \in new
               PROVE  /\ journal'[Primary][o] \in Header
                      /\ journal'[Primary][o].commit = c
                      /\ o > 1 => journal'[Primary][o].parent = journal'[Primary][o - 1].request
    OBVIOUS
  <2> DEFINE i == o - op[Primary]
  <2>1. i \in 1 .. Len(s) /\ o \in Ops
    BY <1>2
  <2>2. journal'[Primary][o] = HeadersOf(s, c)[i]
    BY <1>5, <2>1
  <2>3. HeadersOf(s, c)[i].commit = c /\ HeadersOf(s, c)[i].request = s[i]
    BY <2>1 DEF HeadersOf
  <2>4. ASSUME o > 1
        PROVE  journal'[Primary][o].parent = journal'[Primary][o - 1].request
    <3>1. CASE i = 1
      <4>1. o - 1 = op[Primary] /\ o - 1 \in Ops /\ o - 1 \notin new /\ op[Primary] # 0
        BY <3>1, <2>1, <2>4, <1>1 DEF Ops
      <4>2. journal'[Primary][o - 1] = journal[Primary][op[Primary]]
        BY <4>1, <1>5
      <4>3. HeadersOf(s, c)[i].parent = journal[Primary][op[Primary]].request
        BY <3>1, <4>1, <2>1 DEF HeadersOf
      <4> QED BY <4>2, <4>3, <2>2
    <3>2. CASE i > 1
      <4>1. o - 1 \in new /\ o - 1 \in Ops /\ (o - 1) - op[Primary] = i - 1
        BY SMTT(30), <3>2, <2>1, <1>1 DEF Ops
      <4>2. journal'[Primary][o - 1] = HeadersOf(s, c)[i - 1]
        BY <4>1, <1>5
      <4>3. HeadersOf(s, c)[i - 1].request = s[i - 1]
        BY <3>2, <2>1, <1>1 DEF HeadersOf
      <4>4. HeadersOf(s, c)[i].parent = s[i - 1]
        BY <3>2, <2>1 DEF HeadersOf
      <4> QED BY <4>2, <4>3, <4>4, <2>2
    <3> QED BY <3>1, <3>2, <2>1
  <2> QED BY <1>3, <2>1, <2>2, <2>3, <2>4
<1>10. \A m \in PrepareCopies(s, c) :
         /\ m \in Message /\ m.type = "prepare" /\ m.op \in new
         /\ m.header = journal'[Primary][m.op]
  <2> SUFFICES ASSUME NEW r \in Backups, NEW i \in 1 .. Len(s),
                      NEW m, m = [type |-> "prepare", to |-> r, op |-> op[Primary] + i,
                                  header |-> HeadersOf(s, c)[i], body |-> TRUE]
               PROVE  /\ m \in Message /\ m.type = "prepare" /\ m.op \in new
                      /\ m.header = journal'[Primary][m.op]
    BY DEF PrepareCopies
  <2>1. op[Primary] + i \in new /\ (op[Primary] + i) - op[Primary] = i
    BY <1>1
  <2>2. m \in Message
    BY <2>1, <1>2, <1>3, PrepareType
  <2> QED BY <2>1, <2>2, <1>2, <1>5
<1>11. network' \subseteq Message
  BY <1>1, <1>10 DEF Prepare, TypeOK
<1>12. \A m \in network' \ network :
         m.type = "prepare" /\ m.op \in new /\ m.header = journal'[Primary][m.op]
  BY <1>10 DEF Prepare
<1> QED BY <1>4, <1>5, <1>6, <1>7, <1>8, <1>9, <1>11, <1>12 DEF PrepareDoes

\* The primary's log grows by the requests in s, with or without a commit: what
\* the invariant says of the logs, the network and the heads is kept.
LEMMA LogGrows ==
  ASSUME Inductive, NEW s \in Seq(Entries), NEW c \in 0 .. MaxOp, PrepareDoes(s, c),
         c \in {commit_min[Primary], commit_min[Primary] + 1}, c <= op[Primary],
         op[Primary] + Len(s) <= c + PipelineMax,
         commit_min' = [commit_min EXCEPT ![Primary] = c],
         commit_max' = [commit_max EXCEPT ![Primary] = c],
         UNCHANGED panicked
  PROVE  /\ PrimaryLog' /\ BackupLogs' /\ Messages' /\ AcksAreJournaled'
         /\ CommitFollowsPrimary' /\ HeadWithinPipeline' /\ BackupsNeverPanic'
         /\ \A r \in Replicas :
              /\ op[r] <= op'[r]
              /\ \A o \in Ops : journal[r][o] # NoHeader => journal'[r][o] = journal[r][o]
         /\ \A o \in Ops : o <= op[Primary] => acks'[o] = acks[o]
<1> USE ClusterAssumption, BoundAssumption
<1> DEFINE new  == op[Primary] + 1 .. op[Primary] + Len(s)
           head == op[Primary] + Len(s)
<1>1. /\ TypeOK /\ PrimaryLog /\ BackupLogs /\ Messages /\ AcksAreJournaled
      /\ Commits /\ CommitFollowsPrimary /\ HeadWithinPipeline /\ BackupsNeverPanic
      /\ Primary \in Replicas /\ Replicas = Backups \cup {Primary} /\ Primary \notin Backups
  BY DEF Inductive, Replicas, Backups
<1>2. /\ op[Primary] \in Nat /\ Len(s) \in Nat /\ head \in Nat /\ op[Primary] <= head
      /\ commit_min[Primary] \in Nat /\ commit_min[Primary] <= c
      /\ commit_min'[Primary] = c /\ commit_max'[Primary] = c
      /\ \A r \in Backups : commit_min'[r] = commit_min[r] /\ commit_max'[r] = commit_max[r]
  BY <1>1 DEF TypeOK
<1>3. /\ op'[Primary] = head /\ op' \in [Replicas -> 0 .. MaxOp]
      /\ \A r \in Backups : op'[r] = op[r] /\ journal'[r] = journal[r]
      /\ \A o \in Ops :
            /\ o \notin new => journal'[Primary][o] = journal[Primary][o] /\ acks'[o] = acks[o]
            /\ o \in new =>
                 /\ journal'[Primary][o] \in Header
                 /\ journal'[Primary][o].commit = c
                 /\ o > 1 => journal'[Primary][o].parent = journal'[Primary][o - 1].request
                 /\ acks'[o] = {Primary}
      /\ \A m \in network' \ network :
            m.type = "prepare" /\ m.op \in new /\ m.header = journal'[Primary][m.op]
      /\ network' \subseteq Message
  BY DEF PrepareDoes
<1>4. NoHeader \notin Header
  BY EntryAssumption DEF Header, Entries
<1>n. ASSUME NEW o \in Ops, o \in new
      PROVE  /\ journal'[Primary][o] \in Header /\ journal'[Primary][o] # NoHeader
             /\ journal'[Primary][o].commit = c
             /\ o > 1 => journal'[Primary][o].parent = journal'[Primary][o - 1].request
             /\ acks'[o] = {Primary}
  BY <1>n, <1>4 DEF PrepareDoes
<1>5. \A o \in Ops : o <= op[Primary] => o \notin new
  BY <1>2
<1>6. \A o \in Ops : journal[Primary][o] # NoHeader => o \notin new /\ o <= op[Primary]
  BY <1>1, <1>2 DEF BackupLogs
<1>7. \A o \in Ops : o \in new <=> op[Primary] < o /\ o <= head
  BY <1>2 DEF Ops
<1> HIDE DEF new, head
<1>8. PrimaryLog'
  <2> SUFFICES ASSUME NEW o \in Ops, o <= head
               PROVE  /\ journal'[Primary][o] # NoHeader
                      /\ journal'[Primary][o].commit <= c
                      /\ o <= journal'[Primary][o].commit + PipelineMax
                      /\ o > 1 => journal'[Primary][o].parent = journal'[Primary][o - 1].request
    BY <1>2, <1>3 DEF PrimaryLog
  <2>1. CASE o \in new
    <3>1. /\ journal'[Primary][o] # NoHeader /\ journal'[Primary][o].commit = c
          /\ o > 1 => journal'[Primary][o].parent = journal'[Primary][o - 1].request
      BY <2>1, <1>n
    <3>2. o <= c + PipelineMax /\ c <= c
      BY <1>2 DEF head, Ops
    <3> QED BY <3>1, <3>2
  <2>2. CASE o \notin new
    <3>1. o <= op[Primary] /\ (o > 1 => o - 1 \in Ops /\ o - 1 \notin new)
      BY <2>2, <1>2, <1>7 DEF Ops
    <3>2. journal[Primary][o] \in Header
      BY <3>1, <1>1 DEF PrimaryLog, TypeOK
    <3>3. journal[Primary][o].commit \in Nat
      BY <3>2 DEF Header
    <3>4. /\ journal[Primary][o] # NoHeader
          /\ journal[Primary][o].commit <= commit_min[Primary]
          /\ o <= journal[Primary][o].commit + PipelineMax
          /\ o > 1 => journal[Primary][o].parent = journal[Primary][o - 1].request
      BY <3>1, <1>1 DEF PrimaryLog
    <3>5. journal[Primary][o].commit <= c
      BY SMTT(30), <3>3, <3>4, <1>2
    <3>6. /\ journal'[Primary][o] = journal[Primary][o]
          /\ o > 1 => journal'[Primary][o - 1] = journal[Primary][o - 1]
      BY <3>1, <2>2, <1>3
    <3> QED BY <3>4, <3>5, <3>6
  <2> QED BY <2>1, <2>2
<1>9. BackupLogs'
  <2> SUFFICES ASSUME NEW r \in Replicas
               PROVE  /\ op'[r] <= head
                      /\ \A o \in Ops : journal'[r][o] # NoHeader =>
                           o <= op'[r] /\ journal'[r][o] = journal'[Primary][o]
    BY <1>3 DEF BackupLogs
  <2>1. CASE r = Primary
    <3>1. ASSUME NEW o \in Ops, journal'[Primary][o] # NoHeader PROVE o <= head
      <4>1. CASE o \in new
        BY <4>1, <1>7
      <4>2. CASE o \notin new
        <5>1. journal[Primary][o] # NoHeader
          BY <4>2, <3>1, <1>3
        <5> QED BY <5>1, <1>2, <1>6 DEF Ops
      <4> QED BY <4>1, <4>2
    <3> QED BY <2>1, <3>1, <1>2, <1>3
  <2>2. CASE r \in Backups
    <3>1. op[r] <= op[Primary] /\ op[r] \in Nat
      BY <2>2, <1>1 DEF BackupLogs, TypeOK
    <3>2. ASSUME NEW o \in Ops, journal[r][o] # NoHeader
          PROVE  o <= op[r] /\ journal[r][o] = journal'[Primary][o]
      BY <3>2, <2>2, <1>1, <1>3, <1>6 DEF BackupLogs
    <3> QED BY <2>2, <3>1, <3>2, <1>2, <1>3
  <2> QED BY <2>1, <2>2, <1>1
<1>10. \A r \in Replicas :
         /\ op[r] <= op'[r]
         /\ \A o \in Ops : journal[r][o] # NoHeader => journal'[r][o] = journal[r][o]
  <2>1. \A r \in Replicas : op[r] \in Nat
    BY <1>1 DEF TypeOK
  <2> QED BY <2>1, <1>1, <1>2, <1>3, <1>6
<1>11. Messages'
  <2> SUFFICES ASSUME NEW m \in network'
               PROVE  /\ m.type = "prepare" => m.op <= head /\ m.header = journal'[Primary][m.op]
                      /\ m.type = "prepare_ok" => journal'[m.from][m.op] # NoHeader
                      /\ m.type = "commit" =>
                           /\ m.commit <= c
                           /\ m.commit > 0 => m.header = journal'[Primary][m.commit]
    BY <1>2, <1>3 DEF Messages
  <2>1. CASE m \in network' \ network
    BY <2>1, <1>2, <1>3 DEF new, head
  <2>2. CASE m \in network
    <3>1. m \in Message
      BY <2>2, <1>1 DEF TypeOK
    <3>2. m.type = "prepare" => m.op \in Ops /\ m.op \notin new /\ m.op <= head
      BY <3>1, <2>2, <1>1, <1>2, <1>5 DEF Message, Messages, Ops
    <3>3. m.type = "prepare_ok" => m.from \in Backups
      BY <3>1 DEF Message
    <3>4. m.type = "commit" => /\ m.commit <= c
                               /\ m.commit > 0 => m.commit \in Ops /\ m.commit \notin new
      <4>1. commit_min[Primary] <= op[Primary]
        BY <1>1 DEF Commits
      <4> QED BY SMTT(60), <4>1, <3>1, <2>2, <1>1, <1>2, <1>5 DEF Message, Messages, Ops
    <3> QED BY ZenonT(60), <2>2, <3>2, <3>3, <3>4, <1>1, <1>3 DEF Messages
  <2> QED BY <2>1, <2>2
<1>12. AcksAreJournaled'
  <2> SUFFICES ASSUME NEW o \in Ops
               PROVE  /\ \A r \in acks'[o] : journal'[r][o] # NoHeader
                      /\ o <= head => Primary \in acks'[o]
    BY <1>3 DEF AcksAreJournaled
  <2>1. CASE o \in new
    <3>1. acks'[o] = {Primary} /\ journal'[Primary][o] # NoHeader
      BY <2>1, <1>n
    <3> QED BY <3>1
  <2>2. CASE o \notin new
    <3>1. \A r \in acks[o] : r \in Replicas /\ journal[r][o] # NoHeader
      BY <1>1 DEF AcksAreJournaled, TypeOK
    <3>2. o <= head => o <= op[Primary]
      BY <2>2, <1>2, <1>7 DEF Ops
    <3>3. o <= op[Primary] => Primary \in acks[o]
      BY <1>1 DEF AcksAreJournaled
    <3> QED BY SMTT(30), <2>2, <3>1, <3>2, <3>3, <1>3, <1>10
  <2> QED BY <2>1, <2>2
<1>13. CommitFollowsPrimary'
  <2>1. \A r \in Backups : /\ commit_min[r] <= commit_max[r] /\ commit_max[r] <= c
    <3>1. \A r \in Backups : commit_max[r] \in Nat
      BY <1>1 DEF TypeOK
    <3> QED BY <3>1, <1>1, <1>2 DEF CommitFollowsPrimary
  <2> QED BY <2>1, <1>1, <1>2 DEF CommitFollowsPrimary
<1>14. HeadWithinPipeline'
  <2>1. \A r \in Backups : op'[r] <= commit_max'[r] + PipelineMax
    BY <1>1, <1>2, <1>3 DEF HeadWithinPipeline
  <2>2. op'[Primary] <= commit_max'[Primary] + PipelineMax
    BY <1>2, <1>3 DEF head
  <2> QED BY <1>1, <2>1, <2>2 DEF HeadWithinPipeline
<1>15. BackupsNeverPanic'
  BY <1>1 DEF BackupsNeverPanic, Live
<1>16. \A o \in Ops : o <= op[Primary] => acks'[o] = acks[o]
  BY <1>3, <1>5
<1> QED BY <1>8, <1>9, <1>10, <1>11, <1>12, <1>13, <1>14, <1>15, <1>16

LEMMA StepRequest ==
  ASSUME Inductive, NEW v \in Requests, OnRequest(v)
  PROVE  Inductive'
<1> USE ClusterAssumption, BoundAssumption
<1> DEFINE c == commit_min[Primary]
           s == <<v>>
<1>1. /\ TypeOK /\ Commits /\ Committing /\ Primary \in Replicas
  BY DEF Inductive, Replicas
<1>2. /\ s \in Seq(Entries) /\ Len(s) = 1
      /\ c \in 0 .. MaxOp /\ c <= op[Primary] /\ c = commit_max[Primary]
      /\ Prepare(s, c, PipelineLen)
      /\ op[Primary] + Len(s) <= c + PipelineMax
      /\ UNCHANGED <<commit_max, commitVars, request_queue, abdicating, panicked, lost>>
  BY <1>1 DEF Entries, TypeOK, OnRequest, Commits, PipelineLen
<1>3. PrepareDoes(s, c)
  BY <1>2, PrepareEffect
<1>4. /\ commit_min' = [commit_min EXCEPT ![Primary] = c]
      /\ commit_max' = [commit_max EXCEPT ![Primary] = c]
      /\ UNCHANGED <<commit_min, committing>>
  BY <1>1, <1>2 DEF commitVars, TypeOK
<1> HIDE DEF c, s
<1>5. /\ PrimaryLog' /\ BackupLogs' /\ Messages' /\ AcksAreJournaled'
      /\ CommitFollowsPrimary' /\ HeadWithinPipeline' /\ BackupsNeverPanic'
      /\ \A r \in Replicas :
           /\ op[r] <= op'[r]
           /\ \A o \in Ops : journal[r][o] # NoHeader => journal'[r][o] = journal[r][o]
      /\ \A o \in Ops : o <= op[Primary] => acks'[o] = acks[o]
  <2>1. c \in {commit_min[Primary], commit_min[Primary] + 1}
    BY DEF c
  <2> QED BY <1>2, <1>3, <1>4, <2>1, LogGrows
<1>6. TypeOK'
  BY <1>1, <1>2, <1>3, <1>4 DEF TypeOK, PrepareDoes
<1>7. \A r \in Replicas : op[r] \in Nat /\ op'[r] \in Nat /\ commit_min[r] \in Nat
  BY <1>1, <1>6 DEF TypeOK
<1>8. Commits'
  <2>1. commit_min'[Primary] = commit_max'[Primary]
    BY <1>1, <1>2, <1>4 DEF Commits
  <2>2. \A r \in Replicas :
          /\ commit_min'[r] <= op'[r]
          /\ \A o \in Ops : o <= commit_min'[r] => journal'[r][o] # NoHeader
    BY <1>1, <1>4, <1>5, <1>7 DEF Commits
  <2>3. \A o \in Ops : o <= commit_min'[Primary] => QuorumCounted(acks'[o])
    BY SMTT(30), <1>1, <1>2, <1>4, <1>5, <1>7 DEF Commits, Ops
  <2> QED BY <2>1, <2>2, <2>3 DEF Commits
<1>9. Committing'
  <2>1. \A r \in Replicas : committing[r] => commit_min[r] + 1 \in Ops
    BY <1>1, <1>7 DEF Committing, TypeOK, Ops
  <2>2. \A r \in Replicas : committing'[r] =>
          /\ commit_min'[r] < op'[r]
          /\ journal'[r][commit_min'[r] + 1] # NoHeader
          /\ r # Primary => commit_min'[r] < commit_max'[r]
    <3> SUFFICES ASSUME NEW r \in Replicas, committing[r]
                 PROVE  /\ commit_min[r] < op'[r]
                        /\ journal'[r][commit_min[r] + 1] # NoHeader
                        /\ r # Primary => commit_min[r] < commit_max'[r]
      BY <1>4
    <3>1. /\ commit_min[r] < op[r] /\ journal[r][commit_min[r] + 1] # NoHeader
          /\ r # Primary => commit_min[r] < commit_max[r]
      BY <1>1 DEF Committing
    <3>2. r # Primary => commit_max'[r] = commit_max[r]
      BY <1>1, <1>4 DEF TypeOK
    <3> QED BY <2>1, <3>1, <3>2, <1>5, <1>7
  <2>3. committing'[Primary] => QuorumCounted(acks'[commit_min'[Primary] + 1])
    BY <2>1, <1>1, <1>4, <1>5, <1>7 DEF Committing
  <2> QED BY <2>2, <2>3 DEF Committing
<1> QED BY <1>5, <1>6, <1>8, <1>9 DEF Inductive

LEMMA StepPrepareOk ==
  ASSUME Inductive, NEW m \in network, OnPrepareOk(m)
  PROVE  Inductive'
<1> USE ClusterAssumption, BoundAssumption
<1> DEFINE next == commit_min[Primary] + 1
           oks  == [acks EXCEPT ![m.op] = @ \cup {m.from}]
           enter == ~committing[Primary] /\ PipelineReady(oks, next, op[Primary])
<1>1. /\ TypeOK /\ PrimaryLog /\ BackupLogs /\ Messages /\ AcksAreJournaled
      /\ Commits /\ Committing /\ Primary \in Replicas
  BY DEF Inductive, Replicas
<1>2. CASE enter /\ ~QuorumCounted(oks[next])
  BY <1>2, PrimaryPanics DEF OnPrepareOk, PanicKind
<1>3. CASE ~(enter /\ ~QuorumCounted(oks[next]))
  <2>1. /\ acks' = oks
        /\ committing' = [committing EXCEPT ![Primary] = @ \/ enter]
        /\ network' \subseteq network
        /\ UNCHANGED <<logVars, commit_min, request_queue, abdicating, panicked, lost>>
        /\ prepare_timer' \in BOOLEAN /\ abdicate_timer' \in BOOLEAN
    BY <1>1, <1>3 DEF OnPrepareOk, Delivered, TypeOK
  <2>2. m.op \in Ops /\ m.from \in Replicas /\ journal[m.from][m.op] # NoHeader
    BY <1>1 DEF OnPrepareOk, TypeOK, Message, Messages, Backups
  <2>3. /\ oks \in [Ops -> SUBSET Replicas]
        /\ \A o \in Ops : o # m.op => oks[o] = acks[o]
        /\ oks[m.op] = acks[m.op] \cup {m.from}
    BY <1>1, <2>2 DEF TypeOK
  <2> HIDE DEF oks
  <2>4. \A o \in Ops : QuorumCounted(acks[o]) => QuorumCounted(oks[o])
    <3>1. acks[m.op] \in SUBSET Replicas
      BY <1>1, <2>2 DEF TypeOK
    <3> QED BY <2>2, <2>3, <3>1, QuorumGrows
  <2>5. TypeOK'
    BY <1>1, <2>1, <2>3 DEF TypeOK, logVars
  <2>6. PrimaryLog' /\ BackupLogs' /\ Messages'
    BY <1>1, <2>1 DEF PrimaryLog, BackupLogs, Messages, logVars
  <2>7. AcksAreJournaled'
    BY <1>1, <2>1, <2>2, <2>3 DEF AcksAreJournaled, logVars
  <2>8. Commits'
    BY <1>1, <2>1, <2>4 DEF Commits, logVars
  <2>9. Committing'
    <3>1. \A r \in Replicas : r # Primary => committing'[r] = committing[r]
      BY <1>1, <2>1 DEF TypeOK
    <3>2. committing'[Primary] = (committing[Primary] \/ enter)
      BY <1>1, <2>1 DEF TypeOK
    <3>3. ASSUME committing[Primary]
          PROVE  /\ next \in Ops /\ next <= op[Primary] /\ journal[Primary][next] # NoHeader
                 /\ QuorumCounted(oks[next])
      <4>1. next \in Ops /\ next <= op[Primary]
        BY <1>1, <3>3 DEF Committing, TypeOK, Ops
      <4> QED BY <1>1, <3>3, <4>1, <2>4 DEF Committing
    <3>4. ASSUME enter
          PROVE  /\ next \in Ops /\ next <= op[Primary] /\ journal[Primary][next] # NoHeader
                 /\ QuorumCounted(oks[next])
      <4>1. next \in Ops /\ next <= op[Primary]
        BY <1>1, <3>4 DEF PipelineReady, TypeOK, Ops
      <4> QED BY <1>1, <1>3, <3>4, <4>1 DEF PrimaryLog
    <3>5. commit_min[Primary] \in Nat /\ op[Primary] \in Nat
      BY <1>1 DEF TypeOK
    <3>6. \A r \in Replicas : committing'[r] =>
            /\ commit_min[r] < op[r]
            /\ journal[r][commit_min[r] + 1] # NoHeader
            /\ r # Primary => commit_min[r] < commit_max[r]
      <4>1. committing'[Primary] => /\ commit_min[Primary] < op[Primary]
                                    /\ journal[Primary][commit_min[Primary] + 1] # NoHeader
        <5>1. committing'[Primary] => next <= op[Primary] /\ journal[Primary][next] # NoHeader
          <6> HIDE DEF next, enter
          <6> QED BY <3>2, <3>3, <3>4
        <5> QED BY <5>1, <3>5
      <4>2. \A r \in Replicas \ {Primary} : committing'[r] =>
              /\ commit_min[r] < op[r]
              /\ journal[r][commit_min[r] + 1] # NoHeader
              /\ commit_min[r] < commit_max[r]
        BY <1>1, <3>1 DEF Committing
      <4> QED BY <4>1, <4>2
    <3>7. committing'[Primary] => QuorumCounted(oks[next])
      BY <3>2, <3>3, <3>4
    <3> QED BY <2>1, <3>6, <3>7 DEF Committing, logVars
  <2>10. CommitFollowsPrimary' /\ HeadWithinPipeline' /\ BackupsNeverPanic'
    BY <2>1 DEF Inductive, CommitFollowsPrimary, HeadWithinPipeline, BackupsNeverPanic,
                Live, logVars
  <2> QED BY <2>5, <2>6, <2>7, <2>8, <2>9, <2>10 DEF Inductive
<1> QED BY <1>2, <1>3

\* What a delivery leaves in the network was there already.
LEMMA DeliveredShrinks ==
  ASSUME NEW m \in network, Delivered(m, {})
  PROVE  network' \subseteq network
BY DEF Delivered

LEMMA StepPrepareOkIgnored ==
  ASSUME Inductive, NEW m \in network, OnPrepareOkIgnored(m)
  PROVE  Inductive'
<1>1. network' \subseteq network
  BY DeliveredShrinks DEF OnPrepareOkIgnored
<1>2. lost' \in 0 .. MaxLost
  BY DEF Inductive, TypeOK, OnPrepareOkIgnored
<1> QED BY <1>1, <1>2, OnlyNetworkShrinks DEF OnPrepareOkIgnored

\* What is appended to a sequence makes it as much longer.
LEMMA ConcatLength ==
  ASSUME NEW E, NEW p \in Seq(E), NEW e \in Seq(E), Len(e) \in 0 .. 1
  PROVE  /\ p \o e \in Seq(E) /\ Len(p) \in Nat
         /\ Len(p \o e) \in Nat /\ Len(p \o e) <= Len(p) + 1
<1>1. Len(p \o e) = Len(p) + Len(e) /\ Len(p) \in Nat /\ p \o e \in Seq(E)
  OBVIOUS
<1>2. \A i \in Nat : \A j \in 0 .. 1 : \A k : k = i + j => k \in Nat /\ k <= i + 1
  OBVIOUS
<1> QED BY <1>1, <1>2, Zenon

LEMMA StepCommitExecutePrimary ==
  ASSUME Inductive, NEW wantsPulse \in BOOLEAN, CommitExecutePrimary(wantsPulse)
  PROVE  Inductive'
<1> USE ClusterAssumption, BoundAssumption
<1> DEFINE this   == commit_min[Primary] + 1
           popped == IF request_queue = <<>> THEN <<>>
                     ELSE <<request_queue[Len(request_queue)]>>
           len    == PipelineLen - 1
           pulse  == /\ wantsPulse
                     /\ \A o \in this + 1 .. op[Primary] : journal[Primary][o].request # Pulse
           extra  == IF pulse THEN <<Pulse>> ELSE <<>>
           s      == popped \o extra
           ready  == PipelineReady(AcksWith(s), this + 1, op[Primary] + Len(s))
<1>1. /\ TypeOK /\ Commits /\ Committing /\ PrimaryLog /\ Primary \in Replicas
  BY DEF Inductive, Replicas
<1>2. /\ request_queue \in Seq(Requests) /\ op[Primary] \in Nat /\ commit_min[Primary] \in Nat
      /\ commit_max[Primary] = commit_min[Primary]
  BY <1>1 DEF TypeOK, Commits
<1>3. committing[Primary] /\ Live(Primary)
  BY DEF CommitExecutePrimary
<1>4. this \in Ops /\ this <= op[Primary] /\ this \in 0 .. MaxOp
  BY <1>1, <1>3 DEF Committing, TypeOK, Ops
<1>5. popped \in Seq(Entries) /\ Len(popped) \in 0 .. 1
  <2>1. CASE request_queue = <<>>
    BY <2>1
  <2>2. CASE request_queue # <<>>
    <3>1. Len(request_queue) \in 1 .. Len(request_queue)
      BY <2>2, <1>2
    <3>2. request_queue[Len(request_queue)] \in Entries
      BY <3>1, <1>2 DEF Entries
    <3> QED BY <2>2, <3>2
  <2> QED BY <2>1, <2>2
<1>6. extra \in Seq(Entries) /\ Len(extra) \in 0 .. 1
  BY DEF Entries
<1>7. s \in Seq(Entries) /\ Len(s) = Len(popped) + Len(extra)
  BY <1>5, <1>6
<1>8. SubSeq(request_queue, 1, Len(request_queue) - Len(popped)) \in Seq(Requests)
  <2>1. CASE request_queue = <<>>
    BY <2>1, <1>2
  <2>2. CASE request_queue # <<>>
    <3>1. Len(request_queue) - Len(popped) \in 0 .. Len(request_queue)
      BY <2>2, <1>2
    <3> QED BY <3>1, <1>2
  <2> QED BY <2>1, <2>2
<1> HIDE DEF popped, extra, pulse
<1>9. CASE len + Len(popped) >= PipelineMax
  BY <1>9, PrimaryPanics DEF CommitExecutePrimary, PanicKind, popped, extra, pulse
<1>10. CASE ~(len + Len(popped) >= PipelineMax) /\ ready /\ ~QuorumCounted(AcksWith(s)[this + 1])
  BY <1>10, PrimaryPanics DEF CommitExecutePrimary, PanicKind, popped, extra, pulse
<1>11. CASE ~(len + Len(popped) >= PipelineMax) /\ ~(ready /\ ~QuorumCounted(AcksWith(s)[this + 1]))
  <2>1. /\ Prepare(s, this, len)
        /\ commit_min' = [commit_min EXCEPT ![Primary] = this]
        /\ commit_max' = [commit_max EXCEPT ![Primary] = MaxOf(@, this)]
        /\ committing' = [committing EXCEPT ![Primary] = ready]
        /\ request_queue' = SubSeq(request_queue, 1, Len(request_queue) - Len(popped))
        /\ UNCHANGED <<abdicating, panicked, lost>>
    BY <1>11 DEF CommitExecutePrimary, popped, extra, pulse
  <2>2. acks' = AcksWith(s)
    BY <2>1 DEF Prepare
  <2>3. op[Primary] + Len(s) <= this + PipelineMax
    <3>1. len + Len(popped) < PipelineMax /\ len = op[Primary] - this
      BY <1>11, <1>2, <1>5 DEF PipelineLen
    <3>2. Len(s) \in Nat /\ Len(popped) \in Nat /\ Len(s) <= Len(popped) + 1
      BY <1>5, <1>6, ConcatLength
    <3>3. len \in Int /\ this \in Int
      BY <3>1, <1>2
    <3> HIDE DEF s, len, this
    <3> QED BY SMTT(30), <3>1, <3>2, <3>3, <1>2
  <2>4. commit_max' = [commit_max EXCEPT ![Primary] = this]
    <3>1. MaxOf(commit_max[Primary], this) = this
      BY <1>2 DEF MaxOf
    <3> QED BY <2>1, <3>1
  <2> DEFINE head == op[Primary] + Len(s)
  <2>5. ready => this + 1 <= head /\ this + 1 \in Ops /\ QuorumCounted(acks'[this + 1])
    <3>1. head <= MaxOp /\ Len(s) \in Nat
      BY <2>1, <1>7 DEF Prepare
    <3>2. ready => this + 1 <= head
      BY DEF PipelineReady
    <3> QED BY <3>1, <3>2, <1>2, <1>11, <2>2 DEF Ops
  <2> HIDE DEF s, ready, len
  <2>6. PrepareDoes(s, this)
    BY <2>1, <1>4, <1>7, PrepareEffect
  <2>7. /\ PrimaryLog' /\ BackupLogs' /\ Messages' /\ AcksAreJournaled'
        /\ CommitFollowsPrimary' /\ HeadWithinPipeline' /\ BackupsNeverPanic'
        /\ \A r \in Replicas :
             /\ op[r] <= op'[r]
             /\ \A o \in Ops : journal[r][o] # NoHeader => journal'[r][o] = journal[r][o]
        /\ \A o \in Ops : o <= op[Primary] => acks'[o] = acks[o]
    BY <2>1, <2>3, <2>4, <2>6, <1>2, <1>4, <1>7, LogGrows
  <2>8. ready \in BOOLEAN
    BY DEF ready, PipelineReady
  <2>9. TypeOK'
    <3>1. /\ commit_min' \in [Replicas -> 0 .. MaxOp] /\ commit_max' \in [Replicas -> 0 .. MaxOp]
          /\ committing' \in [Replicas -> BOOLEAN]
      BY <1>1, <1>4, <2>1, <2>4, <2>8 DEF TypeOK
    <3>2. /\ request_queue' \in Seq(Requests) /\ abdicating' \in BOOLEAN
          /\ panicked' \in [Replicas -> PanicKind] /\ lost' \in 0 .. MaxLost
      BY <1>1, <1>8, <2>1 DEF TypeOK
    <3> QED BY <2>6, <3>1, <3>2 DEF TypeOK, PrepareDoes
  <2>10. /\ \A r \in Replicas : op[r] \in Nat /\ op'[r] \in Nat /\ commit_min[r] \in Nat
         /\ op'[Primary] = head
    BY <1>1, <2>9, <2>6 DEF TypeOK, PrepareDoes
  <2>11. /\ commit_min'[Primary] = this /\ commit_max'[Primary] = this
         /\ committing'[Primary] = ready
         /\ \A r \in Replicas : r # Primary =>
              /\ commit_min'[r] = commit_min[r] /\ commit_max'[r] = commit_max[r]
              /\ committing'[r] = committing[r]
    BY <1>1, <2>1, <2>4 DEF TypeOK
  <2>12. QuorumCounted(acks[this])
    BY <1>1, <1>3 DEF Committing
  <2>13. Commits'
    <3>1. ASSUME NEW r \in Replicas
          PROVE  /\ commit_min'[r] <= op'[r]
                 /\ \A o \in Ops : o <= commit_min'[r] => journal'[r][o] # NoHeader
      <4>1. CASE r = Primary
        <5>1. this <= op'[Primary]
          BY <1>1, <1>4, <2>7, <2>10
        <5>2. \A o \in Ops : o <= this => journal'[Primary][o] # NoHeader
          <6> SUFFICES ASSUME NEW o \in Ops, o <= this PROVE journal'[Primary][o] # NoHeader
            OBVIOUS
          <6>1. o <= op'[Primary]
            BY <5>1, <2>10, <1>2 DEF Ops
          <6> QED BY <6>1, <2>7 DEF PrimaryLog
        <5> QED BY <4>1, <5>1, <5>2, <2>11
      <4>2. CASE r # Primary
        BY SMTT(30), <4>2, <1>1, <2>7, <2>10, <2>11 DEF Commits
      <4> QED BY <4>1, <4>2
    <3>2. ASSUME NEW o \in Ops, o <= this PROVE QuorumCounted(acks'[o])
      <4>1. acks'[o] = acks[o]
        BY <3>2, <2>7, <1>2, <1>4 DEF Ops
      <4>2. o <= commit_min[Primary] \/ o = this
        BY <3>2, <1>2 DEF Ops
      <4> QED BY <4>1, <4>2, <1>1, <2>12 DEF Commits
    <3> QED BY <3>1, <3>2, <2>11 DEF Commits
  <2>14. Committing'
    <3>1. ASSUME NEW r \in Replicas, committing'[r]
          PROVE  /\ commit_min'[r] < op'[r]
                 /\ journal'[r][commit_min'[r] + 1] # NoHeader
                 /\ r # Primary => commit_min'[r] < commit_max'[r]
      <4>1. CASE r = Primary
        <5>1. this < head /\ this + 1 \in Ops /\ this + 1 <= op'[Primary]
          BY <4>1, <3>1, <2>5, <2>10, <2>11, <1>2
        <5> QED BY <4>1, <5>1, <2>7, <2>10, <2>11 DEF PrimaryLog
      <4>2. CASE r # Primary
        <5>1. /\ commit_min[r] < op[r] /\ journal[r][commit_min[r] + 1] # NoHeader
              /\ commit_min[r] < commit_max[r] /\ commit_min[r] + 1 \in Ops
          <6>1. committing[r]
            BY <4>2, <3>1, <2>11
          <6>2. /\ commit_min[r] < op[r] /\ journal[r][commit_min[r] + 1] # NoHeader
                /\ commit_min[r] < commit_max[r]
            BY <6>1, <4>2, <1>1 DEF Committing
          <6>3. op[r] \in 0 .. MaxOp /\ commit_min[r] \in 0 .. MaxOp
            BY <1>1 DEF TypeOK
          <6> QED BY <6>2, <6>3, BoundAssumption DEF Ops
        <5> QED BY <4>2, <5>1, <2>7, <2>10, <2>11
      <4> QED BY <4>1, <4>2
    <3>2. committing'[Primary] => QuorumCounted(acks'[commit_min'[Primary] + 1])
      BY <2>5, <2>11
    <3> QED BY <3>1, <3>2 DEF Committing
  <2> QED BY <2>7, <2>9, <2>13, <2>14 DEF Inductive
<1> QED BY <1>9, <1>10, <1>11

-----------------------------------------------------------------------------
(* The steps of the backups *)

\* What a handler of a backup may do to its own log and commit pipeline: grow
\* by entries of the primary's log, learn of commits the primary has executed,
\* execute the next op, and acknowledge what it journaled.
BackupMove(r, head, slots, cmin, cmax, enter) ==
  /\ head \in 0 .. MaxOp /\ slots \in [Ops -> Header \cup {NoHeader}]
  /\ cmin \in 0 .. MaxOp /\ cmax \in 0 .. MaxOp /\ enter \in BOOLEAN
  /\ op' = [op EXCEPT ![r] = head]
  /\ journal' = [journal EXCEPT ![r] = slots]
  /\ commit_min' = [commit_min EXCEPT ![r] = cmin]
  /\ commit_max' = [commit_max EXCEPT ![r] = cmax]
  /\ committing' = [committing EXCEPT ![r] = enter]
  /\ UNCHANGED <<primaryVars, panicked, lost>>
  /\ op[r] <= head /\ head <= op[Primary] /\ head <= cmax + PipelineMax
  /\ cmin <= head /\ cmin <= cmax /\ cmax <= commit_min[Primary]
  /\ \A o \in Ops :
       /\ journal[r][o] # NoHeader => slots[o] = journal[r][o]
       /\ slots[o] # NoHeader => o <= head /\ slots[o] = journal[Primary][o]
       /\ o <= cmin => slots[o] # NoHeader
  /\ enter => cmin < head /\ slots[cmin + 1] # NoHeader /\ cmin < cmax
  /\ network' \subseteq Message
  /\ \A m \in network' \ network :
       m.type = "prepare_ok" /\ m.from = r /\ slots[m.op] # NoHeader

LEMMA BackupMoves ==
  ASSUME Inductive, NEW r \in Backups,
         NEW head, NEW slots, NEW cmin, NEW cmax, NEW enter,
         BackupMove(r, head, slots, cmin, cmax, enter)
  PROVE  Inductive'
<1> USE ClusterAssumption, BoundAssumption DEF BackupMove
<1>1. /\ TypeOK /\ PrimaryLog /\ BackupLogs /\ Messages /\ AcksAreJournaled
      /\ Commits /\ Committing /\ CommitFollowsPrimary /\ HeadWithinPipeline
      /\ BackupsNeverPanic
      /\ r \in Replicas /\ Primary \in Replicas /\ r # Primary
  BY DEF Inductive, Replicas, Backups
<1>2. /\ op'[r] = head /\ journal'[r] = slots /\ commit_min'[r] = cmin
      /\ commit_max'[r] = cmax /\ committing'[r] = enter
      /\ \A s \in Replicas : s # r =>
           /\ op'[s] = op[s] /\ journal'[s] = journal[s]
           /\ commit_min'[s] = commit_min[s] /\ commit_max'[s] = commit_max[s]
           /\ committing'[s] = committing[s]
  BY <1>1 DEF TypeOK
<1>3. /\ op'[Primary] = op[Primary] /\ journal'[Primary] = journal[Primary]
      /\ commit_min'[Primary] = commit_min[Primary]
      /\ commit_max'[Primary] = commit_max[Primary]
      /\ committing'[Primary] = committing[Primary]
      /\ acks' = acks /\ panicked' = panicked
  BY <1>1, <1>2 DEF primaryVars
<1>4. \A s \in Replicas : \A o \in Ops :
        journal[s][o] # NoHeader => journal'[s][o] = journal[s][o]
  BY <1>2
<1>5. TypeOK'
  BY <1>1 DEF TypeOK, primaryVars
<1>6. PrimaryLog'
  BY <1>1, <1>3 DEF PrimaryLog
<1>7. BackupLogs'
  BY <1>1, <1>2, <1>3 DEF BackupLogs
<1>8. Messages'
  <2> SUFFICES ASSUME NEW m \in network'
               PROVE  /\ m.type = "prepare" =>
                           m.op <= op[Primary] /\ m.header = journal[Primary][m.op]
                      /\ m.type = "prepare_ok" => journal'[m.from][m.op] # NoHeader
                      /\ m.type = "commit" =>
                           /\ m.commit <= commit_min[Primary]
                           /\ m.commit > 0 => m.header = journal[Primary][m.commit]
    BY <1>3 DEF Messages
  <2>1. CASE m \in network' \ network
    BY <2>1, <1>2
  <2>2. CASE m \in network
    <3>1. m.type = "prepare_ok" => /\ m.from \in Replicas /\ m.op \in Ops
                                   /\ journal[m.from][m.op] # NoHeader
      BY <2>2, <1>1 DEF TypeOK, Message, Messages, Backups
    <3> QED BY <2>2, <3>1, <1>1, <1>4 DEF Messages
  <2> QED BY <2>1, <2>2
<1>9. AcksAreJournaled'
  <2>1. \A o \in Ops : \A s \in acks[o] : s \in Replicas /\ journal[s][o] # NoHeader
    BY <1>1 DEF AcksAreJournaled, TypeOK
  <2> QED BY <2>1, <1>1, <1>3, <1>4 DEF AcksAreJournaled
<1>10. Commits'
  BY <1>1, <1>2, <1>3 DEF Commits
<1>11. Committing'
  BY <1>1, <1>2, <1>3 DEF Committing
<1>12. CommitFollowsPrimary'
  BY <1>1, <1>2, <1>3 DEF CommitFollowsPrimary
<1>13. HeadWithinPipeline'
  BY <1>1, <1>2 DEF HeadWithinPipeline
<1>14. BackupsNeverPanic'
  BY <1>1, <1>3 DEF BackupsNeverPanic, Live
<1> QED BY <1>5, <1>6, <1>7, <1>8, <1>9, <1>10, <1>11, <1>12, <1>13, <1>14 DEF Inductive

\* What the invariant says of one backup, in the terms of BackupMoves.
LEMMA BackupState ==
  ASSUME Inductive, NEW r \in Backups
  PROVE  /\ r \in Replicas /\ Primary \in Replicas /\ r # Primary /\ Live(r)
         /\ op[r] \in 0 .. MaxOp /\ journal[r] \in [Ops -> Header \cup {NoHeader}]
         /\ commit_min[r] \in 0 .. MaxOp /\ commit_max[r] \in 0 .. MaxOp
         /\ committing[r] \in BOOLEAN
         /\ op[r] <= op[Primary] /\ op[r] <= commit_max[r] + PipelineMax
         /\ commit_min[r] <= op[r] /\ commit_min[r] <= commit_max[r]
         /\ commit_max[r] <= commit_min[Primary]
         /\ commit_min[Primary] \in 0 .. MaxOp /\ op[Primary] \in 0 .. MaxOp
         /\ \A o \in Ops :
              /\ journal[r][o] # NoHeader => o <= op[r] /\ journal[r][o] = journal[Primary][o]
              /\ o <= commit_min[r] => journal[r][o] # NoHeader
         /\ committing[r] => /\ commit_min[r] < op[r] /\ commit_min[r] < commit_max[r]
                             /\ journal[r][commit_min[r] + 1] # NoHeader
<1>1. r \in Replicas /\ Primary \in Replicas /\ r # Primary
  BY ClusterAssumption DEF Replicas, Backups
<1>2. /\ TypeOK /\ BackupLogs /\ Commits /\ Committing /\ CommitFollowsPrimary
      /\ HeadWithinPipeline /\ BackupsNeverPanic
  BY DEF Inductive
<1> QED BY <1>1, <1>2 DEF TypeOK, BackupLogs, Commits, Committing, CommitFollowsPrimary,
                          HeadWithinPipeline, BackupsNeverPanic

\* What the invariant says of a prepare that arrives.
LEMMA PrepareState ==
  ASSUME Inductive, NEW m \in network, m.type = "prepare"
  PROVE  /\ m.to \in Backups /\ m.op \in Ops /\ m.op <= op[Primary]
         /\ m.header \in Header /\ m.header = journal[Primary][m.op]
         /\ m.header # NoHeader
         /\ m.header.commit \in 0 .. MaxOp /\ m.header.commit <= commit_min[Primary]
         /\ m.op <= m.header.commit + PipelineMax
         /\ m.op > 1 => m.header.parent = journal[Primary][m.op - 1].request
<1>1. m \in Message /\ Messages /\ PrimaryLog
  BY DEF Inductive, TypeOK
<1>2. m.to \in Backups /\ m.op \in Ops /\ m.header \in Header
  BY <1>1 DEF Message
<1>3. m.op <= op[Primary] /\ m.header = journal[Primary][m.op]
  BY <1>1 DEF Messages
<1> QED BY <1>1, <1>2, <1>3 DEF PrimaryLog, Header

\* A delivery adds what it sends and nothing else.
LEMMA DeliveredAdds ==
  ASSUME NEW m \in network, NEW sent, Delivered(m, sent)
  PROVE  network' \subseteq network \cup sent
BY DEF Delivered

LEMMA StepPrepareInvalid ==
  ASSUME Inductive, NEW m \in network, OnPrepareInvalid(m)
  PROVE  Inductive'
<1>1. network' \subseteq network
  BY DeliveredShrinks DEF OnPrepareInvalid
<1>2. lost' \in 0 .. MaxLost
  BY DEF Inductive, TypeOK, OnPrepareInvalid
<1> QED BY <1>1, <1>2, OnlyNetworkShrinks DEF OnPrepareInvalid

LEMMA StepPrepareClean ==
  ASSUME Inductive, NEW m \in network, OnPrepareClean(m)
  PROVE  Inductive'
<1> DEFINE ok == PrepareOk(m.to, m.op, m.header)
<1>1. network' \subseteq network \cup {ok}
  BY DeliveredAdds DEF OnPrepareClean
<1>2. /\ TypeOK /\ Messages /\ m.to \in Backups /\ m.op \in Ops
      /\ m.header \in Header /\ m.header # NoHeader
      /\ journal[m.to][m.op] = m.header
  BY PrepareState DEF OnPrepareClean, Clean, Inductive
<1>3. ok \in Message /\ ok.type = "prepare_ok" /\ journal[ok.from][ok.op] # NoHeader
  BY <1>2, PrepareOkType DEF PrepareOk
<1> HIDE DEF ok
<1>4. network' \subseteq Message
  BY <1>1, <1>2, <1>3 DEF TypeOK
<1>5. UNCHANGED <<logVars, commitVars, primaryVars, panicked, lost>>
  BY DEF OnPrepareClean
<1>6. Messages'
  BY <1>1, <1>2, <1>3, <1>5 DEF Messages, logVars, commitVars
<1>7. prepare_timer' \in BOOLEAN /\ abdicate_timer' \in BOOLEAN /\ abdicating' \in BOOLEAN
  BY <1>2, <1>5 DEF TypeOK, primaryVars
<1> QED BY <1>4, <1>5, <1>6, <1>7, OnlyNetworkChanges DEF primaryVars

\* commit_journal enters the commit pipeline only when the next op is there, and
\* a pipeline that was entered stays so while the log grows.
LEMMA EnterIsReady ==
  ASSUME Inductive, NEW r \in Backups, NEW slots, NEW head, NEW cmax,
         head \in 0 .. MaxOp, cmax \in 0 .. MaxOp,
         op[r] <= head, commit_max[r] <= cmax,
         \A o \in Ops : journal[r][o] # NoHeader => slots[o] = journal[r][o],
         committing[r] \/ JournalReady(slots, head, commit_min[r], cmax)
  PROVE  commit_min[r] < head /\ slots[commit_min[r] + 1] # NoHeader /\ commit_min[r] < cmax
<1> USE BoundAssumption
<1>1. CASE committing[r]
  <2>1. /\ commit_min[r] < op[r] /\ commit_min[r] < commit_max[r]
        /\ journal[r][commit_min[r] + 1] # NoHeader
        /\ op[r] \in 0 .. MaxOp /\ commit_min[r] \in 0 .. MaxOp /\ commit_max[r] \in 0 .. MaxOp
    BY <1>1, BackupState
  <2>2. commit_min[r] + 1 \in Ops
    BY <2>1 DEF Ops
  <2> QED BY <2>1, <2>2
<1>2. CASE JournalReady(slots, head, commit_min[r], cmax)
  BY <1>2 DEF JournalReady
<1> QED BY <1>1, <1>2

LEMMA StepPrepareAccepted ==
  ASSUME Inductive, NEW m \in network, OnPrepareAccepted(m)
  PROVE  Inductive'
<1> USE ClusterAssumption, BoundAssumption
<1> DEFINE r     == m.to
           slots == [journal[r] EXCEPT ![m.op] = m.header]
           cmax  == MaxOf(commit_max[r], m.header.commit)
           before == IF m.op = 1 THEN NoHeader ELSE journal[r][m.op - 1]
           enter == committing[r] \/ JournalReady(slots, m.op, commit_min[r], cmax)
           ok    == PrepareOk(r, m.op, m.header)
<1>1. m.type = "prepare" /\ m.op = op[r] + 1
  BY DEF OnPrepareAccepted
<1> USE BackupState, PrepareState
<1>2. r \in Backups /\ m.op \in Ops /\ m.header \in Header /\ TypeOK
  BY <1>1 DEF Inductive
<1>3. ~(before # NoHeader /\ before.request # m.header.parent)
  <2>1. CASE m.op = 1
    BY <2>1
  <2>2. CASE m.op > 1
    <3>1. m.op - 1 \in Ops
      BY <2>2, <1>2 DEF Ops
    <3>2. journal[r][m.op - 1] # NoHeader =>
            journal[r][m.op - 1].request = m.header.parent
      BY <2>2, <3>1, <1>1, <1>2
    <3> QED BY <3>2, <2>2
  <2> QED BY <2>1, <2>2, <1>2 DEF Ops
<1>4. /\ op' = [op EXCEPT ![r] = m.op]
      /\ journal' = [journal EXCEPT ![r] = slots]
      /\ commit_max' = [commit_max EXCEPT ![r] = cmax]
      /\ committing' = [committing EXCEPT ![r] = enter]
      /\ network' \subseteq network \cup {ok}
      /\ UNCHANGED <<commit_min, primaryVars, panicked, lost>>
  BY <1>3, DeliveredAdds DEF OnPrepareAccepted, CommitJournal
<1>5. /\ cmax \in 0 .. MaxOp /\ cmax <= commit_min[Primary] /\ commit_max[r] <= cmax
      /\ m.op <= cmax + PipelineMax
  BY <1>1, <1>2 DEF MaxOf
<1>6. slots \in [Ops -> Header \cup {NoHeader}] /\ slots[m.op] = m.header
  BY <1>1, <1>2
<1>7. \A o \in Ops :
        /\ journal[r][o] # NoHeader => slots[o] = journal[r][o]
        /\ slots[o] # NoHeader => o <= m.op /\ slots[o] = journal[Primary][o]
        /\ o <= commit_min[r] => slots[o] # NoHeader
  <2> SUFFICES ASSUME NEW o \in Ops
               PROVE  /\ journal[r][o] # NoHeader => slots[o] = journal[r][o]
                      /\ slots[o] # NoHeader => o <= m.op /\ slots[o] = journal[Primary][o]
                      /\ o <= commit_min[r] => slots[o] # NoHeader
    OBVIOUS
  <2>1. CASE o = m.op
    <3>1. journal[r][o] = NoHeader
      BY <2>1, <1>1, <1>2 DEF Ops
    <3> QED BY <2>1, <3>1, <1>1, <1>2, <1>6 DEF Ops
  <2>2. CASE o # m.op
    <3>1. slots[o] = journal[r][o]
      BY <2>2, <1>2
    <3>2. journal[r][o] # NoHeader => o <= m.op /\ journal[r][o] = journal[Primary][o]
      BY <1>1, <1>2 DEF Ops
    <3>3. o <= commit_min[r] => journal[r][o] # NoHeader
      BY <1>2
    <3> QED BY <3>1, <3>2, <3>3
  <2> QED BY <2>1, <2>2
<1>8. enter => commit_min[r] < m.op /\ slots[commit_min[r] + 1] # NoHeader /\ commit_min[r] < cmax
  <2>1. m.op \in 0 .. MaxOp /\ op[r] <= m.op
    BY <1>1, <1>2 DEF Ops
  <2> HIDE BackupState, PrepareState
  <2> HIDE DEF slots, cmax, r
  <2> QED BY <2>1, <1>2, <1>5, <1>7, EnterIsReady
<1>9. ok \in Message /\ ok.type = "prepare_ok" /\ ok.from = r /\ slots[ok.op] # NoHeader
  BY <1>1, <1>2, <1>6, PrepareOkType DEF PrepareOk
<1>10. /\ network' \subseteq Message
       /\ \A n \in network' \ network :
            n.type = "prepare_ok" /\ n.from = r /\ slots[n.op] # NoHeader
  <2> HIDE DEF ok, slots, r
  <2> QED BY <1>2, <1>4, <1>9 DEF TypeOK
<1>11. enter \in BOOLEAN
  BY <1>2 DEF JournalReady
<1>12. /\ commit_min' = [commit_min EXCEPT ![r] = commit_min[r]]
       /\ commit_min[r] \in 0 .. MaxOp /\ m.op \in 0 .. MaxOp
       /\ op[r] <= m.op /\ m.op <= op[Primary]
       /\ commit_min[r] <= m.op /\ commit_min[r] <= cmax
  <2>1. /\ op[r] \in Nat /\ commit_min[r] \in 0 .. MaxOp /\ commit_max[r] \in Nat
        /\ m.op \in 1 .. MaxOp /\ m.op <= op[Primary]
        /\ commit_min[r] <= op[r] /\ commit_min[r] <= commit_max[r]
    BY <1>1, <1>2 DEF Ops
  <2>2. commit_min' = [commit_min EXCEPT ![r] = commit_min[r]]
    BY <1>2, <1>4 DEF TypeOK
  <2> HIDE DEF cmax
  <2> QED BY <2>1, <2>2, <1>1, <1>5
<1> HIDE BackupState, PrepareState
<1> HIDE DEF slots, cmax, enter, ok, r
<1>13. BackupMove(r, m.op, slots, commit_min[r], cmax, enter)
  BY <1>2, <1>4, <1>5, <1>6, <1>7, <1>8, <1>10, <1>11, <1>12 DEF BackupMove
<1> QED BY <1>2, <1>13, BackupMoves

LEMMA StepPrepareStale ==
  ASSUME Inductive, NEW m \in network, OnPrepareStale(m)
  PROVE  Inductive'
<1> USE ClusterAssumption, BoundAssumption
<1> DEFINE r     == m.to
           fills == /\ journal[r][op[r]] # NoHeader
                    /\ m.op < op[r] \/ journal[r][m.op] = m.header
           slots == IF fills THEN [journal[r] EXCEPT ![m.op] = m.header] ELSE journal[r]
           enter == \/ committing[r]
                    \/ fills /\ JournalReady(slots, op[r], commit_min[r], commit_max[r])
<1>1. m.type = "prepare" /\ m.op <= op[r]
  BY DEF OnPrepareStale
<1>2. /\ r \in Backups /\ m.op \in Ops /\ m.header \in Header /\ TypeOK
      /\ m.header = journal[Primary][m.op] /\ m.header # NoHeader
  BY <1>1, PrepareState DEF Inductive
<1>3. /\ journal' = [journal EXCEPT ![r] = slots]
      /\ committing' = [committing EXCEPT ![r] = enter]
      /\ network' \subseteq network
      /\ UNCHANGED <<op, commit_max, commit_min, primaryVars, panicked, lost>>
  <2>1. CASE fills
    BY <2>1, DeliveredShrinks DEF OnPrepareStale, CommitJournal
  <2>2. CASE ~fills
    <3>1. UNCHANGED <<journal, committing>>
      BY <2>2 DEF OnPrepareStale
    <3>2. journal = [journal EXCEPT ![r] = slots] /\ committing = [committing EXCEPT ![r] = enter]
      BY <1>2, <2>2, BackupState DEF TypeOK
    <3> QED BY <3>1, <3>2, DeliveredShrinks DEF OnPrepareStale
  <2> QED BY <2>1, <2>2
<1>4. slots \in [Ops -> Header \cup {NoHeader}]
  BY <1>2, BackupState
<1>5. \A o \in Ops :
        /\ journal[r][o] # NoHeader => slots[o] = journal[r][o]
        /\ slots[o] # NoHeader => o <= op[r] /\ slots[o] = journal[Primary][o]
        /\ o <= commit_min[r] => slots[o] # NoHeader
  <2>1. \A o \in Ops :
          /\ journal[r][o] # NoHeader => o <= op[r] /\ journal[r][o] = journal[Primary][o]
          /\ o <= commit_min[r] => journal[r][o] # NoHeader
    BY <1>2, BackupState
  <2>2. \A o \in Ops : slots[o] = journal[r][o] \/ (o = m.op /\ slots[o] = m.header)
    BY <1>2, BackupState
  <2> QED BY <1>1, <1>2, <2>1, <2>2
<1>6. enter \in BOOLEAN
  BY <1>2, BackupState DEF JournalReady
<1>7. enter => /\ commit_min[r] < op[r] /\ slots[commit_min[r] + 1] # NoHeader
               /\ commit_min[r] < commit_max[r]
  <2>1. op[r] \in 0 .. MaxOp /\ commit_max[r] \in 0 .. MaxOp
    BY <1>2, BackupState
  <2>2. op[r] <= op[r] /\ commit_max[r] <= commit_max[r]
    BY <2>1
  <2> HIDE DEF slots, r, fills
  <2> QED BY <1>2, <1>5, <2>1, <2>2, EnterIsReady
<1>8. /\ network' \subseteq Message
      /\ op' = [op EXCEPT ![r] = op[r]]
      /\ commit_min' = [commit_min EXCEPT ![r] = commit_min[r]]
      /\ commit_max' = [commit_max EXCEPT ![r] = commit_max[r]]
  BY <1>2, <1>3 DEF TypeOK
<1>9. /\ op[r] \in 0 .. MaxOp /\ commit_min[r] \in 0 .. MaxOp /\ commit_max[r] \in 0 .. MaxOp
      /\ op[r] <= op[r] /\ op[r] <= op[Primary] /\ op[r] <= commit_max[r] + PipelineMax
      /\ commit_min[r] <= op[r] /\ commit_min[r] <= commit_max[r]
      /\ commit_max[r] <= commit_min[Primary]
  BY <1>2, BackupState
<1> HIDE DEF slots, enter, r, fills
<1>10. BackupMove(r, op[r], slots, commit_min[r], commit_max[r], enter)
  BY <1>3, <1>4, <1>5, <1>6, <1>7, <1>8, <1>9 DEF BackupMove
<1> QED BY <1>2, <1>10, BackupMoves

LEMMA StepPrepareFuture ==
  ASSUME Inductive, NEW m \in network, OnPrepareFuture(m)
  PROVE  Inductive'
<1> USE ClusterAssumption, BoundAssumption
<1> DEFINE r    == m.to
           cmax == MaxOf(commit_max[r], m.header.commit)
           head == m.op - 1
<1>1. m.type = "prepare" /\ m.op > op[r] + 1
  BY DEF OnPrepareFuture
<1>2. /\ r \in Backups /\ m.op \in Ops /\ TypeOK /\ m.op <= op[Primary]
      /\ m.header.commit \in 0 .. MaxOp /\ m.header.commit <= commit_min[Primary]
      /\ m.op <= m.header.commit + PipelineMax
  BY <1>1, PrepareState DEF Inductive
<1>3. /\ op[r] \in 0 .. MaxOp /\ commit_min[r] \in 0 .. MaxOp /\ commit_max[r] \in 0 .. MaxOp
      /\ commit_min[r] <= op[r] /\ commit_min[r] <= commit_max[r]
      /\ commit_max[r] <= commit_min[Primary] /\ commit_min[Primary] \in 0 .. MaxOp
      /\ op[Primary] \in 0 .. MaxOp
      /\ journal[r] \in [Ops -> Header \cup {NoHeader}] /\ committing[r] \in BOOLEAN
  BY <1>2, BackupState
<1>4. /\ head \in Ops /\ head \in 0 .. MaxOp /\ op[r] < head /\ head < m.op
  BY SMTT(30), <1>1, <1>2, <1>3 DEF Ops
<1>5. \A o \in Ops :
        /\ journal[r][o] # NoHeader => o <= op[r] /\ journal[r][o] = journal[Primary][o]
        /\ o <= commit_min[r] => journal[r][o] # NoHeader
  BY <1>2, BackupState
<1>6. journal[r][head] = NoHeader
  BY <1>3, <1>4, <1>5
<1>7. /\ op' = [op EXCEPT ![r] = head]
      /\ commit_max' = [commit_max EXCEPT ![r] = cmax]
      /\ network' \subseteq network
      /\ UNCHANGED <<journal, commitVars, primaryVars, panicked, lost>>
  BY <1>6, DeliveredShrinks DEF OnPrepareFuture
<1>8. /\ cmax \in 0 .. MaxOp /\ cmax <= commit_min[Primary] /\ commit_max[r] <= cmax
      /\ m.header.commit <= cmax
  BY <1>2, <1>3 DEF MaxOf
<1>9. /\ journal' = [journal EXCEPT ![r] = journal[r]]
      /\ commit_min' = [commit_min EXCEPT ![r] = commit_min[r]]
      /\ committing' = [committing EXCEPT ![r] = committing[r]]
      /\ network' \subseteq Message
      /\ UNCHANGED <<primaryVars, panicked, lost>>
  BY <1>2, <1>7 DEF TypeOK, commitVars
<1>10. \A o \in Ops : journal[r][o] # NoHeader => o <= head /\ journal[r][o] = journal[Primary][o]
  BY <1>3, <1>4, <1>5 DEF Ops
<1>11. committing[r] => /\ commit_min[r] < head /\ journal[r][commit_min[r] + 1] # NoHeader
                        /\ commit_min[r] < cmax
  <2>1. committing[r] => /\ commit_min[r] < op[r] /\ commit_min[r] < commit_max[r]
                         /\ journal[r][commit_min[r] + 1] # NoHeader
    BY <1>2, BackupState
  <2> HIDE DEF cmax, head
  <2> QED BY <2>1, <1>3, <1>4, <1>8
<1>12. /\ op[r] <= head /\ head <= op[Primary] /\ head <= cmax + PipelineMax
       /\ commit_min[r] <= head /\ commit_min[r] <= cmax
  <2>1. m.op \in Nat /\ head \in Nat /\ m.header.commit \in Nat /\ cmax \in Nat
    BY <1>2, <1>4, <1>8 DEF Ops
  <2> HIDE DEF cmax, head, r
  <2>2. op[r] <= head /\ head <= op[Primary]
    BY <2>1, <1>2, <1>3, <1>4
  <2>3. head <= cmax + PipelineMax
    BY <2>1, <1>2, <1>4, <1>8
  <2>4. commit_min[r] <= head /\ commit_min[r] <= cmax
    BY <2>1, <1>3, <1>4, <1>8
  <2> QED BY <2>2, <2>3, <2>4
<1> HIDE DEF head, cmax, r
<1>13. BackupMove(r, head, journal[r], commit_min[r], cmax, committing[r])
  BY <1>3, <1>4, <1>5, <1>7, <1>8, <1>9, <1>10, <1>11, <1>12 DEF BackupMove
<1> QED BY <1>2, <1>13, BackupMoves

LEMMA StepCommit ==
  ASSUME Inductive, NEW m \in network, OnCommit(m)
  PROVE  Inductive'
<1> USE ClusterAssumption, BoundAssumption
<1> DEFINE r     == m.to
           cmax  == MaxOf(commit_max[r], m.commit)
           entry == IF m.commit = 0 THEN NoHeader ELSE journal[r][m.commit]
           enter == committing[r] \/ JournalReady(journal[r], op[r], commit_min[r], cmax)
<1>1. /\ m.type = "commit" /\ r \in Backups /\ m.commit \in 0 .. MaxOp /\ TypeOK
      /\ m.commit <= commit_min[Primary]
      /\ m.commit > 0 => m.header = journal[Primary][m.commit]
  BY DEF OnCommit, Inductive, TypeOK, Message, Messages
<1>2. /\ op[r] \in 0 .. MaxOp /\ commit_min[r] \in 0 .. MaxOp /\ commit_max[r] \in 0 .. MaxOp
      /\ commit_min[r] <= op[r] /\ commit_min[r] <= commit_max[r]
      /\ commit_max[r] <= commit_min[Primary] /\ commit_min[Primary] \in 0 .. MaxOp
      /\ op[r] <= op[Primary] /\ op[r] <= commit_max[r] + PipelineMax
      /\ journal[r] \in [Ops -> Header \cup {NoHeader}] /\ committing[r] \in BOOLEAN
  BY <1>1, BackupState
<1>3. \A o \in Ops :
        /\ journal[r][o] # NoHeader => o <= op[r] /\ journal[r][o] = journal[Primary][o]
        /\ o <= commit_min[r] => journal[r][o] # NoHeader
  BY <1>1, BackupState
<1>4. entry = NoHeader \/ entry = m.header
  BY <1>1, <1>3 DEF Ops
<1>5. /\ commit_max' = [commit_max EXCEPT ![r] = cmax]
      /\ committing' = [committing EXCEPT ![r] = enter]
      /\ network' \subseteq network
      /\ UNCHANGED <<op, journal, commit_min, primaryVars, panicked, lost>>
  BY <1>4, DeliveredShrinks DEF OnCommit, CommitJournal
<1>6. /\ cmax \in 0 .. MaxOp /\ cmax <= commit_min[Primary] /\ commit_max[r] <= cmax
  BY <1>1, <1>2 DEF MaxOf
<1>7. /\ op' = [op EXCEPT ![r] = op[r]]
      /\ journal' = [journal EXCEPT ![r] = journal[r]]
      /\ commit_min' = [commit_min EXCEPT ![r] = commit_min[r]]
      /\ network' \subseteq Message
  BY <1>1, <1>5 DEF TypeOK
<1>8. enter \in BOOLEAN
  BY <1>2 DEF JournalReady
<1>9. enter => /\ commit_min[r] < op[r] /\ journal[r][commit_min[r] + 1] # NoHeader
               /\ commit_min[r] < cmax
  <2>1. op[r] <= op[r]
    BY <1>2
  <2> HIDE DEF cmax, r
  <2> QED BY <1>1, <1>2, <1>6, <2>1, EnterIsReady
<1>10. op[r] <= op[r] /\ op[r] <= cmax + PipelineMax /\ commit_min[r] <= cmax
  <2> HIDE DEF cmax
  <2> QED BY <1>2, <1>6
<1> HIDE DEF cmax, enter, r, entry
<1>11. BackupMove(r, op[r], journal[r], commit_min[r], cmax, enter)
  BY <1>2, <1>3, <1>5, <1>6, <1>7, <1>8, <1>9, <1>10 DEF BackupMove
<1> QED BY <1>1, <1>11, BackupMoves

LEMMA StepCommitExecuteBackup ==
  ASSUME Inductive, NEW r \in Backups, CommitExecuteBackup(r)
  PROVE  Inductive'
<1> USE ClusterAssumption, BoundAssumption
<1> DEFINE this  == commit_min[r] + 1
           enter == JournalReady(journal[r], op[r], this, commit_max[r])
<1>1. /\ op[r] \in 0 .. MaxOp /\ commit_min[r] \in 0 .. MaxOp /\ commit_max[r] \in 0 .. MaxOp
      /\ op[r] <= op[Primary] /\ op[r] <= commit_max[r] + PipelineMax
      /\ commit_max[r] <= commit_min[Primary]
      /\ commit_min[r] < op[r] /\ commit_min[r] < commit_max[r]
      /\ journal[r] \in [Ops -> Header \cup {NoHeader}] /\ journal[r][this] # NoHeader
      /\ TypeOK
  BY BackupState DEF CommitExecuteBackup, Inductive
<1>2. \A o \in Ops :
        /\ journal[r][o] # NoHeader => o <= op[r] /\ journal[r][o] = journal[Primary][o]
        /\ o <= commit_min[r] => journal[r][o] # NoHeader
  BY BackupState
<1>3. /\ this \in 0 .. MaxOp /\ this <= op[r] /\ this <= commit_max[r]
      /\ MaxOf(commit_max[r], this) = commit_max[r] /\ op[r] <= op[r]
  BY <1>1 DEF MaxOf
<1>4. \A o \in Ops : o <= this => journal[r][o] # NoHeader
  BY <1>1, <1>2 DEF Ops
<1>5. /\ commit_min' = [commit_min EXCEPT ![r] = this]
      /\ commit_max' = [commit_max EXCEPT ![r] = commit_max[r]]
      /\ committing' = [committing EXCEPT ![r] = enter]
      /\ UNCHANGED <<op, journal, primaryVars, panicked, network, lost>>
  BY <1>3 DEF CommitExecuteBackup
<1>6. /\ op' = [op EXCEPT ![r] = op[r]]
      /\ journal' = [journal EXCEPT ![r] = journal[r]]
      /\ network' \subseteq Message /\ network' \ network = {}
  BY <1>1, <1>5 DEF TypeOK
<1>7. enter \in BOOLEAN
  BY DEF JournalReady
<1>8. enter => /\ this < op[r] /\ journal[r][this + 1] # NoHeader /\ this < commit_max[r]
  BY DEF JournalReady
<1> HIDE DEF this, enter
<1>9. BackupMove(r, op[r], journal[r], this, commit_max[r], enter)
  BY <1>1, <1>2, <1>3, <1>4, <1>5, <1>6, <1>7, <1>8 DEF BackupMove
<1> QED BY <1>9, BackupMoves

-----------------------------------------------------------------------------
(* The invariance *)

LEMMA StepLose ==
  ASSUME Inductive, NEW m \in network, Lose(m)
  PROVE  Inductive'
<1>1. network' \subseteq network /\ UNCHANGED <<logVars, commitVars, primaryVars, panicked>>
  BY DEF Lose
<1>2. lost' \in 0 .. MaxLost
  BY BoundAssumption DEF Lose, Inductive, TypeOK
<1> QED BY <1>1, <1>2, OnlyNetworkShrinks

LEMMA StutterStep == Inductive /\ UNCHANGED vars => Inductive'
<1> SUFFICES ASSUME Inductive, UNCHANGED vars PROVE Inductive'
  OBVIOUS
<1>1. UNCHANGED <<logVars, commitVars, primaryVars, panicked, network, lost>>
  BY DEF vars
<1>2. network' \subseteq network /\ lost' \in 0 .. MaxLost
  BY <1>1 DEF Inductive, TypeOK
<1> QED BY <1>1, <1>2, OnlyNetworkShrinks

LEMMA InitInductive == Init => Inductive
<1> SUFFICES ASSUME Init PROVE Inductive
  OBVIOUS
<1> USE ClusterAssumption, BoundAssumption DEF Init
<1>1. TypeOK
  <2>1. /\ op \in [Replicas -> 0 .. MaxOp] /\ commit_min \in [Replicas -> 0 .. MaxOp]
        /\ commit_max \in [Replicas -> 0 .. MaxOp] /\ committing \in [Replicas -> BOOLEAN]
        /\ panicked \in [Replicas -> PanicKind] /\ lost \in 0 .. MaxLost
    BY DEF PanicKind
  <2>2. /\ journal \in [Replicas -> [Ops -> Header \cup {NoHeader}]]
        /\ acks \in [Ops -> SUBSET Replicas]
        /\ request_queue \in Seq(Requests) /\ network \subseteq Message
    OBVIOUS
  <2>3. prepare_timer \in BOOLEAN /\ abdicate_timer \in BOOLEAN /\ abdicating \in BOOLEAN
    OBVIOUS
  <2> QED BY <2>1, <2>2, <2>3 DEF TypeOK
<1>2. PrimaryLog /\ BackupLogs /\ Messages /\ AcksAreJournaled
  BY DEF PrimaryLog, BackupLogs, Messages, AcksAreJournaled, Replicas, Ops
<1>3. Commits /\ Committing
  BY DEF Commits, Committing, Replicas, Ops
<1>4. CommitFollowsPrimary /\ HeadWithinPipeline /\ BackupsNeverPanic
  BY DEF CommitFollowsPrimary, HeadWithinPipeline, BackupsNeverPanic, Live, Replicas, Backups
<1> QED BY <1>1, <1>2, <1>3, <1>4 DEF Inductive

LEMMA NextInductive == Inductive /\ [Next]_vars => Inductive'
<1> SUFFICES ASSUME Inductive, [Next]_vars PROVE Inductive'
  OBVIOUS
<1>1. CASE PrimaryNext
  <2>1. ASSUME NEW v \in Requests, OnRequest(v) PROVE Inductive'
    BY <2>1, StepRequest
  <2>2. ASSUME NEW v \in Requests, OnRequestQueued(v) PROVE Inductive'
    BY <2>2, StepRequestQueued
  <2>3. ASSUME NEW m \in network, OnPrepareOk(m) PROVE Inductive'
    BY <2>3, StepPrepareOk
  <2>4. ASSUME NEW m \in network, OnPrepareOkIgnored(m) PROVE Inductive'
    BY <2>4, StepPrepareOkIgnored
  <2>5. ASSUME NEW wantsPulse \in BOOLEAN, CommitExecutePrimary(wantsPulse) PROVE Inductive'
    BY <2>5, StepCommitExecutePrimary
  <2>6. OnPrepareTimeout \/ SendCommit \/ OnAbdicateTimeout => Inductive'
    BY StepPrepareTimeout, StepSendCommit, StepAbdicateTimeout
  <2> QED BY <1>1, <2>1, <2>2, <2>3, <2>4, <2>5, <2>6 DEF PrimaryNext
<1>2. CASE BackupNext
  <2>1. ASSUME NEW m \in network, OnPrepareInvalid(m) PROVE Inductive'
    BY <2>1, StepPrepareInvalid
  <2>2. ASSUME NEW m \in network, OnPrepareAccepted(m) PROVE Inductive'
    BY <2>2, StepPrepareAccepted
  <2>3. ASSUME NEW m \in network, OnPrepareClean(m) PROVE Inductive'
    BY <2>3, StepPrepareClean
  <2>4. ASSUME NEW m \in network, OnPrepareStale(m) PROVE Inductive'
    BY <2>4, StepPrepareStale
  <2>5. ASSUME NEW m \in network, OnPrepareFuture(m) PROVE Inductive'
    BY <2>5, StepPrepareFuture
  <2>6. ASSUME NEW m \in network, OnCommit(m) PROVE Inductive'
    BY <2>6, StepCommit
  <2>7. ASSUME NEW r \in Backups, CommitExecuteBackup(r) PROVE Inductive'
    BY <2>7, StepCommitExecuteBackup
  <2> QED BY <1>2, <2>1, <2>2, <2>3, <2>4, <2>5, <2>6, <2>7 DEF BackupNext
<1>3. ASSUME NEW m \in network, Lose(m) PROVE Inductive'
  BY <1>3, StepLose
<1> QED BY <1>1, <1>2, <1>3, StutterStep DEF Next

\* Every reachable state satisfies the inductive invariant: the primary's log
\* has no hole, the other logs and the messages are parts of it, and what is
\* executed is journaled and acknowledged by a quorum.
THEOREM Invariance == Spec => []Inductive
<1> QED BY InitInductive, NextInductive, PTL DEF Spec

\* Every handler of replica.rs modelled here keeps the state well typed.
THEOREM TypeCorrect == Spec => []TypeOK
<1>1. Inductive => TypeOK
  BY DEF Inductive
<1> QED BY <1>1, Invariance, PTL

\* No replica learns of a commit before the primary has executed it
\* (commit_max is set from heartbeats and prepares, set_op_and_commit_max).
THEOREM CommitIsFollowed == Spec => []CommitFollowsPrimary
<1>1. Inductive => CommitFollowsPrimary
  BY DEF Inductive
<1> QED BY <1>1, Invariance, PTL

\* The assertion of op_repair_max holds for every pipeline length: requests
\* popped from the queue and pulses never carry a head further.
THEOREM HeadIsBounded == Spec => []HeadWithinPipeline
<1>1. Inductive => HeadWithinPipeline
  BY DEF Inductive
<1> QED BY <1>1, Invariance, PTL

\* No message makes a backup fail an assertion of on_prepare, of on_commit or
\* of jump_to_newer_op in a single view.
THEOREM BackupsLive == Spec => []BackupsNeverPanic
<1>1. Inductive => BackupsNeverPanic
  BY DEF Inductive
<1> QED BY <1>1, Invariance, PTL

\* What two replicas have both executed (commit_execute) is the same.
THEOREM ExecutedAgree == Spec => []Agreement
<1>1. Inductive => Agreement
  BY DEF Inductive, Commits, BackupLogs, Agreement
<1> QED BY <1>1, Invariance, PTL

\* What commit_execute executes anywhere is journaled by a replication quorum,
\* for every cluster size: commit_start_pipeline asserts the count.
THEOREM ExecutedSurvives == Spec => []ExecutedIsReplicated
<1>1. Inductive => ExecutedIsReplicated
  <2> SUFFICES ASSUME Inductive, NEW r \in Replicas, NEW o \in Ops, o <= commit_min[r]
               PROVE  \E Q \in SUBSET Replicas :
                        /\ Cardinality(Q) >= Quorum
                        /\ \A s \in Q : journal[s][o] = journal[r][o] /\ journal[s][o] # NoHeader
    BY DEF ExecutedIsReplicated
  <2>1. TypeOK /\ Commits /\ BackupLogs /\ AcksAreJournaled /\ CommitFollowsPrimary
    BY DEF Inductive
  <2>2. o <= commit_min[Primary]
    <3>1. o \in Nat /\ commit_min[r] \in Nat /\ commit_max[r] \in Nat /\ commit_min[Primary] \in Nat
      BY <2>1, ClusterAssumption, BoundAssumption DEF TypeOK, Ops, Replicas
    <3>2. commit_min[r] <= commit_max[r] /\ commit_max[r] <= commit_min[Primary]
      BY <2>1 DEF CommitFollowsPrimary
    <3> QED BY <3>1, <3>2
  <2>3. acks[o] \in SUBSET Replicas /\ Cardinality(acks[o]) >= Quorum
    BY <2>1, <2>2 DEF TypeOK, Commits, QuorumCounted
  <2>4. \A s \in acks[o] : journal[s][o] = journal[r][o] /\ journal[s][o] # NoHeader
    BY <2>1, <2>3 DEF Commits, BackupLogs, AcksAreJournaled
  <2> QED BY <2>3, <2>4
<1> QED BY <1>1, Invariance, PTL

-----------------------------------------------------------------------------
(* What a step may do *)

\* At most one replica executes, one op, and the primary never rewrites its log.
Executes(r) == commit_min' = [commit_min EXCEPT ![r] = commit_min[r] + 1]

Monotone ==
  /\ UNCHANGED commit_min \/ \E r \in Replicas : Executes(r)
  /\ \A r \in Replicas : commit_min'[r] >= commit_min[r]
  /\ \A o \in Ops : o <= op[Primary] => journal'[Primary][o] = journal[Primary][o]

LEMMA StepMonotone == Inductive /\ [Next]_vars => Monotone
<1> SUFFICES ASSUME Inductive, [Next]_vars PROVE Monotone
  OBVIOUS
<1> USE ClusterAssumption, BoundAssumption
<1>1. /\ TypeOK /\ Primary \in Replicas /\ Commits
      /\ \A r \in Replicas : commit_min[r] \in Nat /\ op[r] \in Nat
  BY SMTT(30) DEF Inductive, Replicas, TypeOK
<1>2. UNCHANGED <<journal, commit_min>> => Monotone
  BY <1>1 DEF Monotone
<1>3. ASSUME NEW s \in Seq(Entries), NEW c, NEW len, Prepare(s, c, len),
             commit_min' \in {commit_min,
                              [commit_min EXCEPT ![Primary] = commit_min[Primary] + 1]}
      PROVE  Monotone
  <2>1. ASSUME NEW o \in Ops, o <= op[Primary]
        PROVE  journal'[Primary][o] = journal[Primary][o]
    <3>1. o \notin op[Primary] + 1 .. op[Primary] + Len(s)
      BY <2>1, <1>1 DEF Ops
    <3> QED BY <3>1, <1>1, <1>3 DEF Prepare, TypeOK
  <2>2. \A r \in Replicas : commit_min'[r] >= commit_min[r]
    BY <1>1, <1>3 DEF TypeOK
  <2> QED BY <1>1, <1>3, <2>1, <2>2 DEF Monotone, Executes
<1>4. ASSUME NEW r \in Backups, NEW slots,
             journal' \in {journal, [journal EXCEPT ![r] = slots]},
             commit_min' \in {commit_min, [commit_min EXCEPT ![r] = commit_min[r] + 1]}
      PROVE  Monotone
  <2>1. r \in Replicas /\ r # Primary
    BY DEF Backups, Replicas
  <2>2. UNCHANGED commit_min \/ \E s \in Replicas : Executes(s)
    BY <2>1, <1>4 DEF Executes
  <2>3. \A s \in Replicas : commit_min'[s] >= commit_min[s]
    BY SMTT(30), <2>1, <1>1, <1>4 DEF TypeOK
  <2>4. journal'[Primary] = journal[Primary]
    BY <2>1, <1>1, <1>4 DEF TypeOK
  <2> QED BY <2>2, <2>3, <2>4 DEF Monotone
<1>5. CASE PrimaryNext
  <2>1. ASSUME NEW v \in Requests, OnRequest(v) PROVE Monotone
    <3>1. <<v>> \in Seq(Entries)
      BY DEF Entries
    <3> QED BY <2>1, <3>1, <1>3 DEF OnRequest, commitVars
  <2>2. ASSUME NEW wantsPulse \in BOOLEAN, CommitExecutePrimary(wantsPulse) PROVE Monotone
    <3> DEFINE popped == IF request_queue = <<>> THEN <<>>
                         ELSE <<request_queue[Len(request_queue)]>>
    <3>1. popped \in Seq(Entries)
      <4>1. request_queue \in Seq(Requests)
        BY <1>1 DEF TypeOK
      <4>2. CASE request_queue = <<>>
        BY <4>2
      <4>3. CASE request_queue # <<>>
        <5>1. request_queue[Len(request_queue)] \in Entries
          BY <4>1, <4>3 DEF Entries
        <5> QED BY <4>3, <5>1
      <4> QED BY <4>2, <4>3
    <3>2. <<>> \in Seq(Entries) /\ <<Pulse>> \in Seq(Entries)
      BY DEF Entries
    <3>3. popped \o <<>> \in Seq(Entries) /\ popped \o <<Pulse>> \in Seq(Entries)
      BY <3>1, <3>2
    <3> HIDE DEF popped
    <3>4. \/ UNCHANGED <<journal, commit_min>>
          \/ \E s \in Seq(Entries) :
               /\ Prepare(s, commit_min[Primary] + 1, PipelineLen - 1)
               /\ commit_min' = [commit_min EXCEPT ![Primary] = commit_min[Primary] + 1]
      BY <2>2, <3>3 DEF CommitExecutePrimary, Panic, logVars, commitVars, popped
    <3> QED BY <3>4, <1>2, <1>3
  <2>3. ASSUME ~(\E v \in Requests : OnRequest(v)),
               ~(\E wantsPulse \in BOOLEAN : CommitExecutePrimary(wantsPulse))
        PROVE  UNCHANGED <<journal, commit_min>>
    BY <2>3, <1>5 DEF PrimaryNext, OnRequestQueued, OnPrepareOk, OnPrepareOkIgnored,
       OnPrepareTimeout, SendCommit, OnAbdicateTimeout, Panic, logVars, commitVars
  <2> QED BY <2>1, <2>2, <2>3, <1>2
<1>6. CASE BackupNext
  <2>1. ASSUME NEW m \in network, OnPrepareAccepted(m) \/ OnPrepareStale(m)
        PROVE  Monotone
    <3>1. m.to \in Backups
      BY <2>1, PrepareState DEF OnPrepareAccepted, OnPrepareStale
    <3>2. /\ journal' \in {journal, [journal EXCEPT ![m.to] = [journal[m.to] EXCEPT ![m.op] = m.header]]}
          /\ commit_min' = commit_min
      BY <2>1 DEF OnPrepareAccepted, OnPrepareStale, Panic, logVars, commitVars
    <3> QED BY <3>1, <3>2, <1>4
  <2>2. ASSUME NEW r \in Backups, CommitExecuteBackup(r) PROVE Monotone
    BY <2>2, <1>4 DEF CommitExecuteBackup
  <2>3. ASSUME ~(\E m \in network : OnPrepareAccepted(m) \/ OnPrepareStale(m)),
               ~(\E r \in Backups : CommitExecuteBackup(r))
        PROVE  UNCHANGED <<journal, commit_min>>
    BY <2>3, <1>6 DEF BackupNext, OnPrepareInvalid, OnPrepareClean, OnPrepareFuture,
       OnCommit, Panic, logVars, commitVars
  <2> QED BY <2>1, <2>2, <2>3, <1>2
<1>7. CASE \E m \in network : Lose(m)
  BY <1>7, <1>2 DEF Lose, logVars, commitVars
<1>8. CASE UNCHANGED vars
  BY <1>8, <1>2 DEF vars, logVars, commitVars
<1> QED BY <1>5, <1>6, <1>7, <1>8 DEF Next

\* No handler takes back an executed op or replaces its header.
THEOREM ExecutedStays == Spec => ExecutedIsStable
<1> DEFINE Stable == \A r \in Replicas :
                       /\ commit_min'[r] >= commit_min[r]
                       /\ \A o \in Ops : o <= commit_min[r] => journal'[r][o] = journal[r][o]
<1>1. Inductive /\ Inductive' /\ [Next]_vars => Stable
  <2> SUFFICES ASSUME Inductive, Inductive', Monotone,
                      NEW r \in Replicas, NEW o \in Ops, o <= commit_min[r]
               PROVE  journal'[r][o] = journal[r][o]
    BY StepMonotone DEF Monotone
  <2>1. /\ TypeOK /\ Commits /\ BackupLogs /\ BackupLogs' /\ Commits' /\ TypeOK'
        /\ r \in Replicas /\ Primary \in Replicas
    BY ClusterAssumption DEF Inductive, Replicas
  <2>2. o <= op[Primary]
    BY SMTT(30), <2>1, BoundAssumption DEF Commits, BackupLogs, TypeOK, Ops
  <2>3. journal[r][o] = journal[Primary][o]
    BY <2>1 DEF Commits, BackupLogs
  <2>4. o <= commit_min'[r]
    BY SMTT(30), <2>1, BoundAssumption DEF TypeOK, Ops, Monotone
  <2>5. journal'[r][o] = journal'[Primary][o]
    BY <2>1, <2>4 DEF Commits, BackupLogs
  <2> QED BY <2>2, <2>3, <2>5 DEF Monotone
<1> QED BY <1>1, Invariance, PTL DEF Spec, ExecutedIsStable

-----------------------------------------------------------------------------
(* The cluster implements one log *)

\* The log of the refinement mapping is a sequence as long as the primary's
\* executed ops.
ExecutedLogTyped ==
  /\ executed_log \in Seq(Entries)
  /\ Len(executed_log) = commit_min[Primary]
  /\ \A o \in 1 .. commit_min[Primary] : executed_log[o] = journal[Primary][o].request

LEMMA ExecutedLogType == Inductive => ExecutedLogTyped
<1> SUFFICES ASSUME Inductive PROVE ExecutedLogTyped
  OBVIOUS
<1> USE ClusterAssumption, BoundAssumption
<1>1. /\ TypeOK /\ Commits /\ Primary \in Replicas /\ commit_min[Primary] \in 0 .. MaxOp
  BY DEF Inductive, TypeOK, Replicas
<1>2. \A o \in 1 .. commit_min[Primary] : journal[Primary][o].request \in Entries
  <2> SUFFICES ASSUME NEW o \in 1 .. commit_min[Primary]
               PROVE  journal[Primary][o].request \in Entries
    OBVIOUS
  <2>1. o \in Ops /\ o <= commit_min[Primary]
    BY <1>1 DEF Ops
  <2>2. journal[Primary][o] \in Header
    BY <1>1, <2>1 DEF TypeOK, Commits
  <2> QED BY <2>2 DEF Header
<1> QED BY <1>1, <1>2 DEF executed_log, ExecutedLogTyped

\* A step that executes nothing leaves the log of the mapping alone, and so does
\* the execution of a backup.
LEMMA ExecutedLogKept ==
  ASSUME Inductive, Inductive', Monotone, commit_min'[Primary] = commit_min[Primary]
  PROVE  executed_log' = executed_log
<1> USE ClusterAssumption, BoundAssumption
<1>1. /\ TypeOK /\ Primary \in Replicas /\ commit_min[Primary] \in 0 .. MaxOp
      /\ commit_min[Primary] <= op[Primary] /\ op[Primary] \in 0 .. MaxOp
  BY DEF Inductive, TypeOK, Commits, Replicas
<1>2. \A o \in 1 .. commit_min[Primary] : journal'[Primary][o] = journal[Primary][o]
  BY <1>1 DEF Monotone, Ops
<1> QED BY <1>2 DEF executed_log

LEMMA ExecutedLogGrows ==
  ASSUME Inductive, Inductive', Monotone, Executes(Primary)
  PROVE  \E v \in Entries : executed_log' = Append(executed_log, v)
<1> USE ClusterAssumption, BoundAssumption
<1> DEFINE n == commit_min[Primary]
           v == executed_log'[n + 1]
<1>1. /\ TypeOK /\ Primary \in Replicas /\ n \in 0 .. MaxOp
      /\ n <= op[Primary] /\ op[Primary] \in 0 .. MaxOp
  BY DEF Inductive, TypeOK, Commits, Replicas
<1>2. commit_min'[Primary] = n + 1
  BY <1>1 DEF Executes, TypeOK
<1>3. /\ executed_log \in Seq(Entries) /\ Len(executed_log) = n
      /\ \A o \in 1 .. n : executed_log[o] = journal[Primary][o].request
  BY ExecutedLogType DEF ExecutedLogTyped
<1>4. /\ executed_log' \in Seq(Entries) /\ Len(executed_log') = n + 1
      /\ \A o \in 1 .. n + 1 : executed_log'[o] = journal'[Primary][o].request
  <2>1. ExecutedLogTyped'
    BY ExecutedLogType, PTL
  <2> QED BY <1>2, <2>1 DEF ExecutedLogTyped
<1>5. v \in Entries
  <2>1. n + 1 \in 1 .. Len(executed_log')
    BY <1>1, <1>4
  <2> QED BY <1>4, <2>1, ElementOfSeq
<1>6. \A o \in 1 .. n : executed_log'[o] = executed_log[o]
  <2>1. \A o \in 1 .. n : o \in Ops /\ o <= op[Primary] /\ o \in 1 .. n + 1
    BY <1>1 DEF Ops
  <2>2. \A o \in 1 .. n : journal'[Primary][o] = journal[Primary][o]
    BY <2>1 DEF Monotone
  <2> QED BY <1>3, <1>4, <2>1, <2>2
<1> HIDE DEF v
<1>7. executed_log' = Append(executed_log, v)
  <2> DEFINE t == Append(executed_log, v)
  <2>1. /\ t \in Seq(Entries) /\ Len(t) = n + 1
        /\ \A o \in 1 .. n : t[o] = executed_log[o]
        /\ t[n + 1] = v
    BY <1>3, <1>5, AppendProperties
  <2> HIDE DEF t
  <2>2. \A o \in 1 .. n + 1 : o \in 1 .. n \/ o = n + 1
    BY <1>1
  <2>3. \A o \in 1 .. n + 1 : executed_log'[o] = t[o]
    BY <2>1, <2>2, <1>6 DEF v
  <2> QED BY <1>4, <2>1, <2>3, SeqEqual DEF t
<1> QED BY <1>5, <1>7

\* The primary decides each entry of one log by executing it, and the backups
\* execute that log in order (commit_execute), whatever is lost or repeated.
THEOREM Refinement == Spec => ImplementsCommittedLog
<1>1. Init => Committed!Init
  <2> SUFFICES ASSUME Init PROVE Committed!Init
    OBVIOUS
  <2>1. commit_min[Primary] = 0
    BY ClusterAssumption DEF Init, Replicas
  <2>2. executed_log = <<>>
    BY <2>1 DEF executed_log
  <2> QED BY <2>2 DEF Init, Committed!Init
<1>2. Inductive /\ Inductive' /\ [Next]_vars => [Committed!Next]_(Committed!vars)
  <2> SUFFICES ASSUME Inductive, Inductive', Monotone
               PROVE  Committed!Next \/ UNCHANGED Committed!vars
    BY StepMonotone
  <2>1. /\ TypeOK /\ CommitFollowsPrimary' /\ Len(executed_log) = commit_min[Primary]
        /\ Primary \in Replicas
        /\ \A r \in Replicas : commit_min[r] \in Nat /\ commit_max'[r] \in Nat
    <3>1. TypeOK /\ CommitFollowsPrimary' /\ TypeOK'
      BY DEF Inductive
    <3>2. Len(executed_log) = commit_min[Primary] /\ Primary \in Replicas
      BY ExecutedLogType, ClusterAssumption DEF ExecutedLogTyped, Replicas
    <3> QED BY <3>1, <3>2, BoundAssumption DEF TypeOK
  <2>2. CASE UNCHANGED commit_min
    <3>1. executed_log' = executed_log
      BY <2>2, ExecutedLogKept
    <3> QED BY <2>2, <3>1 DEF Committed!vars
  <2>3. CASE Executes(Primary)
    <3>1. PICK v \in Entries : executed_log' = Append(executed_log, v)
      BY <2>3, ExecutedLogGrows
    <3>2. Committed!Decide(Primary, v)
      BY <2>1, <2>3, <3>1 DEF Committed!Decide, Executes
    <3> QED BY <2>1, <3>2 DEF Committed!Next
  <2>4. ASSUME NEW r \in Replicas, r # Primary, Executes(r)
        PROVE  Committed!Next
    <3>1. commit_min'[Primary] = commit_min[Primary] /\ commit_min'[r] = commit_min[r] + 1
      BY <2>1, <2>4 DEF Executes, TypeOK
    <3>2. executed_log' = executed_log
      BY <3>1, ExecutedLogKept
    <3>3. commit_min'[r] <= commit_min'[Primary]
      <4>1. commit_min'[r] <= commit_max'[r] /\ commit_max'[r] <= commit_min'[Primary]
        BY <2>1 DEF CommitFollowsPrimary
      <4> QED BY <2>1, <3>1, <4>1
    <3>4. commit_min[r] < Len(executed_log)
      BY <2>1, <3>1, <3>3
    <3>5. Committed!Follow(r)
      BY <2>4, <3>2, <3>4 DEF Committed!Follow, Executes
    <3> QED BY <3>5 DEF Committed!Next
  <2> QED BY <2>2, <2>3, <2>4 DEF Monotone
<1> QED BY <1>1, <1>2, Invariance, PTL DEF Spec, ImplementsCommittedLog, Committed!Spec
=============================================================================
