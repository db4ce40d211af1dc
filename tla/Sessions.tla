------------------------------ MODULE Sessions ------------------------------
(* Clients and the session table: client.rs, client_sessions.rs and, of     *)
(* replica.rs, the tests a primary makes of a request, the execution of a    *)
(* request, the eviction of a session and the answers to the client.         *)
(*                                                                           *)
(* Below it lies the log. Of a view change it keeps only the promise: what   *)
(* any primary has executed is in the log of the new one (module ViewChange  *)
(* is about that). A primary that lost its view may not know, and goes on    *)
(* in the old one.                                                           *)
(*                                                                           *)
(* A reply names the op it answers: its context, the checksum of the reply   *)
(* with a fixed view, does the same. Messages are sets: they are lost,       *)
(* delayed, repeated and overtaken.                                          *)
EXTENDS Integers, Sequences, FiniteSets, Functions

CONSTANTS
  Clients,      \* the ids of the clients; an id is used by one client only
  ClientsMax,   \* CLIENTS_MAX, the entries of a session table
  PipelineMax,  \* PIPELINE_PREPARE_QUEUE_MAX
  None,         \* no request in flight
  MaxView,      \* bound: the last view
  MaxOp,        \* bound: the ops of a log, those that wait for one included
  MaxRequest    \* bound: the last request a client numbers; the first is 0

ASSUME SessionsAssumption ==
  /\ ClientsMax \in Nat \ {0} /\ PipelineMax \in Nat \ {0}
  /\ MaxView \in Nat /\ MaxOp \in Nat /\ MaxRequest \in Nat

Views == 0..MaxView

\* A request with what it is stamped with.
Requests == [client : Clients, request : Nat, session : Nat, parent : Nat, view : Views]

ASSUME NoneAssumption == None \notin Requests

VARIABLES
  clients,    \* the state of each client
  requests,   \* every request a client has sent, with what it was stamped with as
              \* it was sent for the first time; all of it makes its checksum
  replies,    \* every reply sent to a client
  evictions,  \* every eviction sent to a client
  view,       \* the last view that started
  log,        \* log[v]: the prepares of the primary of view v
  executed,   \* executed[v]: commit_min of that primary
  table,      \* table[v]: its client_sessions, session and latest reply by client
  queue,      \* queue[v]: its request_queue
  kept,       \* kept[v]: the prepares of that log later views have kept
  stopped     \* the views whose primary an assertion has stopped

clientVars == <<clients, requests>>
primaryVars == <<view, log, executed, table, queue, kept>>
vars == <<clientVars, primaryVars, replies, evictions, stopped>>

\* Request 0 registers the client.
Registers(r) == r.request = 0

-----------------------------------------------------------------------------
(* The session table t of a replica.                                        *)

Oldest(t) == CHOOSE c \in DOMAIN t : \A d \in DOMAIN t : t[c].op <= t[d].op

\* A full table loses the client with the oldest reply to make room.
WithRoom(t) ==
  IF Cardinality(DOMAIN t) < ClientsMax THEN t
  ELSE Restrict(t, DOMAIN t \ {Oldest(t)})

\* Mutant of Recorded: the entry keeps the context of the reply before.
KeepsContext(t, op, r) ==
  IF Registers(r)
    THEN [c \in DOMAIN WithRoom(t) \cup {r.client} |->
            IF c = r.client THEN [session |-> op, op |-> op, of |-> r] ELSE t[c]]
    ELSE [c \in DOMAIN t |->
            IF c = r.client THEN [t[c] EXCEPT !.of = r] ELSE t[c]]

\* The table after op executed r: the op of a register becomes the session;
\* the reply to a client that was evicted meanwhile is not recorded.
Recorded(t, op, r) ==
  IF Registers(r)
    THEN [c \in DOMAIN WithRoom(t) \cup {r.client} |->
            IF c = r.client THEN [session |-> op, op |-> op, of |-> r] ELSE t[c]]
    ELSE [c \in DOMAIN t |->
            IF c = r.client THEN [t[c] EXCEPT !.op = op, !.of = r] ELSE t[c]]

\* The assertions on the way: a client has one session, and its requests are
\* executed in the order of their numbers.
Unexpected(t, r) ==
  IF Registers(r) THEN r.client \in DOMAIN WithRoom(t)
  ELSE r.client \in DOMAIN t /\ t[r.client].of.request + 1 # r.request

\* The table of a replica that has executed the first n ops of l.
TableAfter(l, n) ==
  LET t[i \in 0..n] == IF i = 0 THEN << >> ELSE Recorded(t[i - 1], i, l[i])
  IN t[n]

-----------------------------------------------------------------------------
(* A primary looks at a request.                                             *)

\* Mutant of PipelineHolds: only the table is looked at.
ForgetsPipeline(v, c) == FALSE

PipelineHolds(v, c) ==
  \E op \in executed[v] + 1..Len(log[v]) : log[v][op].client = c

\* Mutant of Evicts: a request with an old session is dropped.
DropsOldSession(v, r) ==
  /\ ~Registers(r) /\ r.client \notin DOMAIN table[v]
  /\ ~PipelineHolds(v, r.client)

\* The session is not, or no longer, that of the client.
Evicts(v, r) ==
  /\ ~Registers(r)
  /\ IF r.client \in DOMAIN table[v]
       THEN table[v][r.client].session > r.session
       ELSE ~PipelineHolds(v, r.client)

InSession(v, r) ==
  /\ r.client \in DOMAIN table[v]
  /\ Registers(r) \/ table[v][r.client].session = r.session

\* The latest reply answers this request: it is sent again.
Repeats(v, r) == InSession(v, r) /\ table[v][r.client].of = r

\* A first register, or the next request of a client that has the last reply.
Accepts(v, r) ==
  IF r.client \in DOMAIN table[v]
    THEN /\ InSession(v, r)
         /\ table[v][r.client].of.request + 1 = r.request
         /\ table[v][r.client].op = r.parent
    ELSE Registers(r)

\* A reply carries the view of the log of its sender.
Reply(r, op, v) == [of |-> r, op |-> op, view |-> v]

OnRequestEvicted(v, r) ==
  /\ Evicts(v, r)
  /\ evictions' = evictions \cup {[client |-> r.client, view |-> v]}
  /\ UNCHANGED <<clientVars, primaryVars, replies, stopped>>

\* The reply is rebuilt from the table, taken from a write in flight or read,
\* which delays it; without a storage, or with every read busy, the request is
\* dropped and its client must ask again.
OnRequestRepeated(v, r) ==
  /\ Repeats(v, r)
  /\ \E dropped \in BOOLEAN :
       replies' = IF dropped THEN replies
                  ELSE replies \cup {Reply(r, table[v][r.client].op, v)}
  /\ UNCHANGED <<clientVars, primaryVars, evictions, stopped>>

\* Nothing tells whether the request already waits or is being prepared. What
\* a primary prepares after its view was left finds no quorum: left out.
OnRequestAccepted(v, r) ==
  /\ Accepts(v, r)
  /\ v = view
  /\ Len(log[v]) + Len(queue[v]) < MaxOp
  /\ IF Len(log[v]) - executed[v] >= PipelineMax
       THEN queue' = [queue EXCEPT ![v] = Append(@, r)] /\ UNCHANGED log
       ELSE log' = [log EXCEPT ![v] = Append(@, r)] /\ UNCHANGED queue
  /\ UNCHANGED <<clientVars, view, executed, table, kept, replies, evictions,
                 stopped>>

\* A view above the primary's own is not answered.
OnRequest(v) == \E r \in requests :
  /\ v \notin stopped /\ v <= view /\ r.view <= v
  /\ OnRequestEvicted(v, r) \/ OnRequestRepeated(v, r) \/ OnRequestAccepted(v, r)

\* A primary that has executed the op of a session and has no entry for it
\* evicts the client that pings with it.
OnPingClient(v, c) ==
  /\ v \notin stopped /\ v <= view
  /\ clients[c].session \in 1..executed[v]
  /\ c \notin DOMAIN table[v]
  /\ evictions' = evictions \cup {[client |-> c, view |-> v]}
  /\ UNCHANGED <<clientVars, primaryVars, replies, stopped>>

\* The op is executed, its session recorded, its client answered, evicted or
\* not, and the request that came last to the queue is prepared. pulse_enabled
\* asserts that it did not fill the pipeline again. An assertion that fails
\* stops the primary, and what the call did is lost with it.
CommitExecute(v) ==
  /\ v \notin stopped /\ v <= view
  /\ executed[v] < Len(log[v]) /\ executed[v] < kept[v]
  /\ LET op       == executed[v] + 1
         r        == log[v][op]
         waiting  == Len(queue[v])
         prepared == IF waiting = 0 THEN log[v]
                     ELSE Append(log[v], queue[v][waiting])
     IN IF Unexpected(table[v], r) \/ Len(prepared) - op >= PipelineMax
          THEN /\ stopped' = stopped \cup {v}
               /\ UNCHANGED <<primaryVars, replies>>
          ELSE /\ executed' = [executed EXCEPT ![v] = op]
               /\ table' = [table EXCEPT ![v] = Recorded(@, op, r)]
               /\ replies' = replies \cup {Reply(r, op, v)}
               /\ log' = [log EXCEPT ![v] = prepared]
               /\ queue' = [queue EXCEPT ![v] =
                              IF waiting = 0 THEN @ ELSE SubSeq(@, 1, waiting - 1)]
               /\ UNCHANGED <<view, kept, stopped>>
  /\ UNCHANGED <<clientVars, evictions>>

\* The next primary keeps the log up to n, which covers all that was executed,
\* has executed e of it, and prepares the rest again. Its queue is empty.
StartView == \E n \in 0..Len(log[view]), e \in 0..MaxOp :
  LET next == view + 1
  IN /\ view < MaxView
     /\ \A v \in 0..view : executed[v] <= n
     /\ \E v \in 0..view : e <= executed[v]
     /\ n - e <= PipelineMax
     /\ view' = next
     /\ log' = [log EXCEPT ![next] = SubSeq(log[view], 1, n)]
     /\ executed' = [executed EXCEPT ![next] = e]
     /\ table' = [table EXCEPT ![next] = TableAfter(log[view], e)]
     /\ kept' = [v \in Views |-> IF v <= view /\ n < kept[v] THEN n ELSE kept[v]]
     /\ UNCHANGED <<clientVars, queue, replies, evictions, stopped>>

-----------------------------------------------------------------------------
(* The client: one request in flight, repeated until it is answered.         *)

Send(c, r) ==
  /\ clients' = [clients EXCEPT ![c].request_number = @ + 1, ![c].inflight = r]
  /\ requests' = requests \cup {r}
  /\ UNCHANGED <<primaryVars, replies, evictions, stopped>>

Stamped(c) ==
  [client |-> c, request |-> clients[c].request_number,
   session |-> clients[c].session, parent |-> clients[c].parent,
   view |-> clients[c].view]

Register(c) ==
  /\ clients[c].request_number = 0
  /\ Send(c, Stamped(c))

RawRequest(c) ==
  /\ ~clients[c].evicted
  /\ clients[c].inflight = None
  /\ clients[c].request_number \in 1..MaxRequest
  /\ Send(c, Stamped(c))

Later(v, w) == IF v < w THEN w ELSE v

\* Replies to earlier requests are ignored; the context of the reply becomes
\* the parent of the next request, the op of a register the session.
OnReply(c) == \E m \in replies :
  /\ ~clients[c].evicted
  /\ clients[c].inflight # None
  /\ m.of.client = c /\ m.of.request = clients[c].inflight.request
  /\ clients' = [clients EXCEPT ![c].inflight = None,
                                ![c].parent = m.op,
                                ![c].session = IF Registers(m.of) THEN m.op ELSE @,
                                ![c].view = Later(@, m.view)]
  /\ UNCHANGED <<requests, primaryVars, replies, evictions, stopped>>

\* An eviction by a primary of an older view than the client knows is ignored.
OnEviction(c) == \E m \in evictions :
  /\ ~clients[c].evicted
  /\ m.client = c /\ m.view >= clients[c].view
  /\ clients' = [clients EXCEPT ![c].evicted = TRUE]
  /\ UNCHANGED <<requests, primaryVars, replies, evictions, stopped>>

\* Any replica may have sent the pong, in any view that started.
OnPongClient(c) == \E v \in 0..view :
  /\ ~clients[c].evicted
  /\ v > clients[c].view
  /\ clients' = [clients EXCEPT ![c].view = v]
  /\ UNCHANGED <<requests, primaryVars, replies, evictions, stopped>>

-----------------------------------------------------------------------------
Init ==
  /\ clients = [c \in Clients |->
                  [request_number |-> 0, inflight |-> None, parent |-> 0,
                   session |-> 0, view |-> 0, evicted |-> FALSE]]
  /\ requests = {} /\ replies = {} /\ evictions = {}
  /\ view = 0
  /\ log = [v \in Views |-> << >>]
  /\ executed = [v \in Views |-> 0]
  /\ table = [v \in Views |-> << >>]
  /\ queue = [v \in Views |-> << >>]
  /\ kept = [v \in Views |-> MaxOp]
  /\ stopped = {}

ClientStep(c) ==
  \/ Register(c) \/ RawRequest(c)
  \/ OnReply(c) \/ OnEviction(c) \/ OnPongClient(c)

PrimaryStep(v) ==
  \/ OnRequest(v) \/ CommitExecute(v)
  \/ \E c \in Clients : OnPingClient(v, c)

Next ==
  \/ \E c \in Clients : ClientStep(c)
  \/ \E v \in Views : PrimaryStep(v)
  \/ StartView

Spec == Init /\ [][Next]_vars

-----------------------------------------------------------------------------
(* Properties.                                                              *)

\* The table of the primary that has executed the most.
LastTable == table[CHOOSE v \in Views : \A w \in Views : executed[w] <= executed[v]]

HasSession(c) ==
  /\ c \in DOMAIN LastTable /\ clients[c].session # 0
  /\ LastTable[c].session = clients[c].session

\* A cluster that has the session of a client and the client itself agree on
\* where they are, whatever was repeated, lost or evicted and registered again:
\* the last reply in the table is the one the client holds, or it answers the
\* request in flight; so the client's next request is never taken for an old
\* one or for that of a client that missed a reply (ignore_request_message).
SessionFollowsClient ==
  \A c \in Clients : HasSession(c) =>
    LET entry   == LastTable[c]
        holds   == IF clients[c].inflight = None THEN clients[c].request_number - 1
                   ELSE clients[c].inflight.request - 1
    IN \/ entry.of.request = holds /\ entry.op = clients[c].parent
       \/ clients[c].inflight # None /\ entry.of = clients[c].inflight

\* A client that believes it was evicted has no session: neither a primary that
\* lost its view nor one that has not executed the register yet makes a client
\* stop whose session is alive (ignore_request_message, ignore_ping_client).
EvictedHasNoSession ==
  \A c \in Clients : clients[c].evicted => ~HasSession(c)

\* A request in flight is never dropped for good: once the primary of the last
\* view has executed what it prepared, it knows the request for one to answer,
\* to prepare or to evict, whatever session, parent and view the request was
\* stamped with (ignore_request_message). A primary that stopped before that
\* serves nothing until the next view.
RequestIsServed ==
  \A c \in Clients :
    LET r == clients[c].inflight
    IN /\ r # None /\ ~clients[c].evicted
       /\ executed[view] = Len(log[view]) /\ queue[view] = << >>
       => /\ r.view <= view /\ clients[c].view <= view
          /\ Evicts(view, r) \/ Repeats(view, r) \/ Accepts(view, r)

\* "Request numbers are strictly sequential per client" (replica.rs:7808-7810):
\* the next request of a session a primary executes is the one that follows the
\* latest reply of the session (on_request, client_table_entry_update).
RequestsAreSequential ==
  \A v \in 0..view :
    executed[v] < Len(log[v]) =>
      LET r == log[v][executed[v] + 1]
      IN r.client \in DOMAIN table[v] /\ ~Registers(r)
           => r.request = table[v][r.client].of.request + 1

=============================================================================
