--------------------------- MODULE SessionsProofs ---------------------------
(* What clients and the session table agree on, for any number of clients,  *)
(* views, requests and ops, and tables and pipelines of any size.           *)
EXTENDS Sessions, Extremes, SequenceTheorems, TLAPS

-----------------------------------------------------------------------------
(* The inductive invariant: one history of tables, of which every primary   *)
(* has been through a part.                                                 *)

ClientStates == [request_number : Nat, inflight : Requests \cup {None}, parent : Nat,
                 session : Nat, view : Views, evicted : BOOLEAN]

Types ==
  /\ clients \in [Clients -> ClientStates]
  /\ requests \subseteq Requests
  /\ replies \subseteq [of : Requests, op : Nat, view : Views]
  /\ evictions \subseteq [client : Clients, view : Views]
  /\ view \in Views
  /\ log \in [Views -> Seq(Requests)] /\ queue \in [Views -> Seq(Requests)]
  /\ executed \in [Views -> Nat] /\ kept \in [Views -> Nat]

\* The entry of c after i ops of the log g: it has been in every table h[j]
\* since the session began, which executed each of its requests once.
EntryAt(g, h, i, c) ==
  LET e == h[i][c]
  IN /\ c \in Clients
     /\ e \in [session : Nat, op : Nat, of : Requests]
     /\ 1 <= e.session /\ e.session <= e.op /\ e.op <= i
     /\ g[e.session].client = c /\ Registers(g[e.session])
     /\ e.of = g[e.op] /\ e.of.client = c
     /\ \A k \in e.session .. i : g[k].client = c => g[k].request <= e.of.request
     /\ \A k, l \in e.session .. i :
          g[k].client = c /\ g[l].client = c /\ g[k].request = g[l].request => k = l
     /\ \A j \in e.session .. i : c \in DOMAIN h[j] /\ h[j][c].session = e.session

\* The tables h after each of the first n ops of the log g.
Past(g, h, n) ==
  /\ g \in Seq(Requests) /\ n \in Nat /\ n <= Len(g)
  /\ h[0] = << >>
  /\ \A i \in 1 .. n : h[i] = Recorded(h[i - 1], i, g[i]) /\ ~Unexpected(h[i - 1], g[i])
  /\ \A i \in 0 .. n : \A c \in DOMAIN h[i] : EntryAt(g, h, i, c)
  /\ \A i \in 1 .. n : Registers(g[i]) =>
       g[i].client \in DOMAIN h[i] /\ h[i][g[i].client].session = i

\* No primary has executed more than n ops; one has executed as many.
Executed(n) ==
  /\ \A v \in Views : /\ executed[v] <= n /\ executed[v] <= kept[v]
                      /\ executed[v] <= Len(log[v])
  /\ \E v \in Views : v <= view /\ executed[v] = n

\* What is kept of a log is the beginning of every later one.
Logs ==
  /\ \A v \in Views : kept[v] <= MaxOp /\ (v >= view => kept[v] = MaxOp)
  /\ \A v, w \in Views : v <= w => kept[v] <= kept[w]
  /\ \A v, w \in Views : v <= w /\ v < view /\ w <= view => kept[v] <= Len(log[w])
  /\ \A v \in Views : v <= view => \A i \in 1 .. Len(log[view]) :
       i <= kept[v] /\ i <= Len(log[v]) => log[v][i] = log[view][i]

\* What is prepared was sent, in a session that had begun.
Prepared ==
  /\ \A v \in Views : /\ \A i \in 1 .. Len(log[v]) : log[v][i] \in requests
                      /\ \A i \in 1 .. Len(queue[v]) : queue[v][i] \in requests
  /\ \A i \in 1 .. Len(log[view]) : log[view][i].request >= 1 => log[view][i].session < i

\* A primary of view u or of one before it has executed op s.
Known(s, u) == \E w \in Views : w <= u /\ s <= executed[w]

\* The last request of a client that was answered.
Answered(k) == IF k.inflight = None THEN k.request_number - 1 ELSE k.request_number - 2

ClientAt(c, n) ==
  LET k == clients[c]
      g == log[view]
  IN /\ k.view <= view
     /\ \A r \in requests : r.client = c => r.request < k.request_number
     /\ k.inflight # None => /\ k.inflight \in requests /\ k.inflight.client = c
                             /\ k.inflight.request + 1 = k.request_number
                             /\ k.inflight.session = k.session
                             /\ k.inflight.parent = k.parent
     /\ IF Answered(k) < 0 THEN k.session = 0
        ELSE /\ 1 <= k.session /\ k.session <= k.parent /\ k.parent <= n
             /\ g[k.session].client = c /\ Registers(g[k.session])
             /\ g[k.parent].client = c /\ g[k.parent].request = Answered(k)
             /\ Known(k.session, k.view)

Sent(r) ==
  /\ r.view <= view
  /\ r.request >= 1 => /\ r.session = clients[r.client].session /\ r.session >= 1
                       /\ Known(r.session, r.view)
  /\ \A q \in requests : q.client = r.client /\ q.request = r.request => q = r

Replied(m, n) ==
  /\ m.view <= view /\ 1 <= m.op /\ m.op <= n /\ m.op <= executed[m.view]
  /\ m.of \in requests /\ m.of = log[view][m.op]

\* The session of c has ended: some table after it began does not have it.
Ended(c, h, n) ==
  LET s == clients[c].session
  IN s >= 1 /\ \E j \in s .. n : ~ (c \in DOMAIN h[j] /\ h[j][c].session = s)

History(h, n) ==
  /\ Past(log[view], h, n) /\ table = [v \in Views |-> h[executed[v]]]
  /\ Executed(n) /\ Logs /\ Prepared
  /\ \A c \in Clients : ClientAt(c, n) /\ (clients[c].evicted => Ended(c, h, n))
  /\ \A r \in requests : Sent(r)
  /\ \A m \in replies : Replied(m, n)
  /\ \A m \in evictions : Ended(m.client, h, n)

IInv == Types /\ \E h, n : History(h, n)

-----------------------------------------------------------------------------
(* Tables *)

\* A request is a record of the requests.
LEMMA RequestFields ==
  ASSUME NEW r \in Requests
  PROVE  /\ r.client \in Clients /\ r.request \in Nat /\ r.session \in Nat
         /\ r.parent \in Nat /\ r.view \in Views
BY DEF Requests

\* The element of a log is a request.
LEMMA Element ==
  ASSUME NEW g \in Seq(Requests), NEW i \in 1 .. Len(g)
  PROVE  g[i] \in Requests
OBVIOUS

\* Making room takes entries away, and changes none.
LEMMA Room ==
  ASSUME NEW t
  PROVE  DOMAIN WithRoom(t) \subseteq DOMAIN t
BY DEF WithRoom, Restrict

\* After a register the table has the entry of the session that begins.
LEMMA Begins ==
  ASSUME NEW t, NEW i, NEW r, Registers(r)
  PROVE  /\ r.client \in DOMAIN Recorded(t, i, r)
         /\ Recorded(t, i, r)[r.client] = [session |-> i, op |-> i, of |-> r]
BY DEF Recorded

\* The other entries it has, it had before.
LEMMA Others ==
  ASSUME NEW t, NEW i, NEW r, NEW c \in DOMAIN Recorded(t, i, r), c # r.client
  PROVE  c \in DOMAIN t /\ Recorded(t, i, r)[c] = t[c]
<1>1. CASE Registers(r)
  BY <1>1, Room DEF Recorded
<1>2. CASE ~Registers(r)
  BY <1>2 DEF Recorded
<1> QED BY <1>1, <1>2

\* After another request the table has the clients it had.
LEMMA SameClients ==
  ASSUME NEW t, NEW i, NEW r, ~Registers(r)
  PROVE  DOMAIN Recorded(t, i, r) = DOMAIN t
BY DEF Recorded

Entries == [session : Nat, op : Nat, of : Requests]

\* The entry of its client goes on with the session.
LEMMA Updated ==
  ASSUME NEW t, NEW i \in Nat, NEW r \in Requests, ~Registers(r),
         r.client \in DOMAIN t, t[r.client] \in Entries
  PROVE  /\ Recorded(t, i, r)[r.client] \in Entries
         /\ Recorded(t, i, r)[r.client].session = t[r.client].session
         /\ Recorded(t, i, r)[r.client].op = i /\ Recorded(t, i, r)[r.client].of = r
<1> DEFINE e == t[r.client]
<1>1. Recorded(t, i, r)[r.client] = [e EXCEPT !.op = i, !.of = r]
  BY DEF Recorded
<1>2. e \in [session : Nat, op : Nat, of : Requests]
  BY DEF Entries
<1> HIDE DEF e
<1>3. /\ [e EXCEPT !.op = i, !.of = r] \in [session : Nat, op : Nat, of : Requests]
      /\ [e EXCEPT !.op = i, !.of = r].session = e.session
      /\ [e EXCEPT !.op = i, !.of = r].op = i /\ [e EXCEPT !.op = i, !.of = r].of = r
  BY <1>2
<1> USE DEF e
<1> QED BY <1>1, <1>3 DEF Entries

\* An entry depends on the ops executed, and on the tables up to its own.
LEMMA EntryStays ==
  ASSUME NEW g, NEW f, NEW h, NEW m, NEW i \in Nat, NEW c \in DOMAIN h[i],
         \A k \in 1 .. i : f[k] = g[k], \A j \in 0 .. i : m[j] = h[j],
         EntryAt(g, h, i, c)
  PROVE  EntryAt(f, m, i, c)
<1> DEFINE e == h[i][c]
<1>1. e \in [session : Nat, op : Nat, of : Requests] /\ 1 <= e.session /\ e.session <= e.op /\ e.op <= i
  BY DEF EntryAt
<1>2. e.session \in 1 .. i /\ e.op \in 1 .. i /\ m[i] = h[i]
  BY <1>1
<1>3. f[e.session] = g[e.session] /\ f[e.op] = g[e.op]
  BY <1>2
<1>4. \A k \in e.session .. i : f[k] = g[k] /\ m[k] = h[k]
  BY <1>2
<1> QED BY <1>1, <1>2, <1>3, <1>4 DEF EntryAt

\* The past does not depend on what is not executed.
LEMMA PastStays ==
  ASSUME NEW g, NEW h, NEW n, Past(g, h, n),
         NEW f \in Seq(Requests), n <= Len(f), \A k \in 1 .. n : f[k] = g[k]
  PROVE  Past(f, h, n)
<1>1. n \in Nat
  BY DEF Past
<1>2. ASSUME NEW i \in 0 .. n, NEW c \in DOMAIN h[i]
      PROVE  EntryAt(f, h, i, c)
  <2>1. EntryAt(g, h, i, c) /\ i \in Nat /\ \A k \in 1 .. i : f[k] = g[k]
    BY <1>1, <1>2 DEF Past
  <2> QED BY <2>1, EntryStays
<1> QED BY <1>1, <1>2 DEF Past

\* The entry of a client that registers.
LEMMA NewSession ==
  ASSUME NEW g, NEW i \in Nat, i >= 1, NEW m, NEW t, NEW r \in Requests,
         g[i] = r, m[i] = Recorded(t, i, r), Registers(r)
  PROVE  r.client \in DOMAIN m[i] /\ EntryAt(g, m, i, r.client) /\ m[i][r.client].session = i
<1>1. r.client \in DOMAIN m[i] /\ m[i][r.client] = [session |-> i, op |-> i, of |-> r]
  BY Begins
<1>2. r.client \in Clients /\ r.request \in Nat
  BY RequestFields
<1>3. \A k \in i .. i : k = i
  OBVIOUS
<1> QED BY <1>1, <1>2, <1>3 DEF EntryAt, Entries

\* The entry of a client whose next request is executed.
LEMMA NextOfSession ==
  ASSUME NEW g \in Seq(Requests), NEW n \in Nat, n + 1 <= Len(g), NEW h, NEW m,
         \A j \in 0 .. n : m[j] = h[j], NEW r \in Requests, g[n + 1] = r,
         m[n + 1] = Recorded(h[n], n + 1, r), ~Registers(r), ~Unexpected(h[n], r),
         r.client \in DOMAIN h[n], EntryAt(g, h, n, r.client)
  PROVE  EntryAt(g, m, n + 1, r.client)
<1> DEFINE c == r.client
           e == h[n][c]
           d == m[n + 1][c]
<1>1. /\ c \in Clients /\ e \in Entries
      /\ 1 <= e.session /\ e.session <= e.op /\ e.op <= n
      /\ g[e.session].client = c /\ Registers(g[e.session])
      /\ \A k \in e.session .. n : g[k].client = c => g[k].request <= e.of.request
      /\ \A k, l \in e.session .. n :
           g[k].client = c /\ g[l].client = c /\ g[k].request = g[l].request => k = l
      /\ \A j \in e.session .. n : c \in DOMAIN h[j] /\ h[j][c].session = e.session
  BY DEF EntryAt, Entries
<1>2. c \in DOMAIN m[n + 1] /\ d \in Entries /\ d.session = e.session /\ d.op = n + 1 /\ d.of = r
  <2> DEFINE t == h[n]
             u == Recorded(t, n + 1, r)
  <2>1. /\ u[c] \in Entries /\ u[c].session = t[c].session /\ u[c].op = n + 1 /\ u[c].of = r
        /\ DOMAIN u = DOMAIN t
    <3>1. n + 1 \in Nat /\ t[c] \in Entries /\ c \in DOMAIN t
      BY <1>1
    <3> HIDE DEF t
    <3>2. DOMAIN u = DOMAIN t
      BY SameClients
    <3>3. /\ u[c] \in Entries /\ u[c].session = t[c].session
          /\ u[c].op = n + 1 /\ u[c].of = r
      BY <3>1, Updated
    <3> QED BY <3>2, <3>3
  <2>2. m[n + 1] = u
    OBVIOUS
  <2> HIDE DEF u
  <2> QED BY <2>1, <2>2
<1>3. e.of.request + 1 = r.request /\ e.of.request \in Nat /\ r.request \in Nat
  BY <1>1, RequestFields DEF Unexpected, Entries
<1>4. e.session \in Nat /\ e.op \in Nat
  BY <1>1 DEF Entries
<1> HIDE DEF d, e
<1>5. \A k \in e.session .. n + 1 : k = n + 1 \/ k \in e.session .. n
  BY <1>4
<1>6. \A k \in e.session .. n : g[k].request \in Nat
  <2>1. \A k \in e.session .. n : k \in 1 .. Len(g)
    BY <1>1, <1>4
  <2> QED BY <2>1, Element, RequestFields
<1>7. \A k \in e.session .. n + 1 : g[k].client = c => g[k].request <= r.request
  BY SMTT(60), <1>1, <1>3, <1>5, <1>6
<1>8. \A k \in e.session .. n : g[k].client = c => g[k].request # r.request
  BY <1>1, <1>3, <1>6
<1>9. \A k, l \in e.session .. n + 1 :
        g[k].client = c /\ g[l].client = c /\ g[k].request = g[l].request => k = l
  BY <1>1, <1>5, <1>8
<1>10. \A j \in e.session .. n + 1 : c \in DOMAIN m[j] /\ m[j][c].session = e.session
  <2>1. ASSUME NEW j \in e.session .. n
        PROVE  m[j] = h[j]
    BY <1>1, <1>4
  <2>2. m[n + 1][c] = d
    BY DEF d
  <2> QED BY <1>1, <1>2, <1>5, <2>1, <2>2
<1>11. 1 <= d.session /\ d.session <= d.op /\ d.op <= n + 1
  BY <1>1, <1>2, <1>4
<1>12. d.of = g[d.op] /\ d.of.client = c /\ g[d.session].client = c /\ Registers(g[d.session])
  BY <1>1, <1>2
<1> QED BY ZenonT(60), <1>1, <1>2, <1>7, <1>9, <1>10, <1>11, <1>12 DEF EntryAt, Entries, d

\* The entry of another client.
LEMMA OldEntry ==
  ASSUME NEW g, NEW h, NEW n, Past(g, h, n), n < Len(g), NEW m,
         \A j \in 0 .. n : m[j] = h[j], NEW r, m[n + 1] = Recorded(h[n], n + 1, r),
         NEW c \in DOMAIN m[n + 1], c # r.client, g[n + 1] = r
  PROVE  EntryAt(g, m, n + 1, c)
<1> DEFINE e == h[n][c]
<1>1. n \in Nat /\ g \in Seq(Requests)
  BY DEF Past
<1>2. c \in DOMAIN h[n] /\ m[n + 1][c] = e
  <2> DEFINE u == Recorded(h[n], n + 1, r)
  <2>1. c \in DOMAIN u
    OBVIOUS
  <2>2. c \in DOMAIN h[n] /\ u[c] = h[n][c]
    BY <2>1, Others
  <2> QED BY <2>2
<1>3. EntryAt(g, h, n, c)
  BY <1>1, <1>2 DEF Past
<1>4. /\ c \in Clients
      /\ e \in [session : Nat, op : Nat, of : Requests]
      /\ 1 <= e.session /\ e.session <= e.op /\ e.op <= n
      /\ g[e.session].client = c /\ Registers(g[e.session])
      /\ e.of = g[e.op] /\ e.of.client = c
      /\ \A k \in e.session .. n : g[k].client = c => g[k].request <= e.of.request
      /\ \A k, l \in e.session .. n :
           g[k].client = c /\ g[l].client = c /\ g[k].request = g[l].request => k = l
      /\ \A j \in e.session .. n : c \in DOMAIN h[j] /\ h[j][c].session = e.session
  BY <1>3 DEF EntryAt
<1>5. \A k \in e.session .. n + 1 : k = n + 1 \/ k \in e.session .. n
  BY <1>1, <1>4
<1>6. \A j \in e.session .. n + 1 : c \in DOMAIN m[j] /\ m[j][c].session = e.session
  <2>1. ASSUME NEW j \in e.session .. n
        PROVE  m[j] = h[j]
    BY <1>1, <1>4
  <2> QED BY <1>2, <1>4, <1>5, <2>1
<1>7. e.op <= n + 1
  BY <1>1, <1>4
<1>8. \A k \in e.session .. n + 1 : g[k].client = c => k \in e.session .. n
  BY <1>5
<1> HIDE DEF e
<1> QED BY <1>2, <1>4, <1>6, <1>7, <1>8 DEF EntryAt, e

\* One op more is executed.
LEMMA PastGrows ==
  ASSUME NEW g, NEW h, NEW n, Past(g, h, n), n < Len(g), ~Unexpected(h[n], g[n + 1]),
         NEW m, \A j \in 0 .. n : m[j] = h[j], m[n + 1] = Recorded(h[n], n + 1, g[n + 1])
  PROVE  Past(g, m, n + 1)
<1> DEFINE r == g[n + 1]
<1>1. /\ n \in Nat /\ g \in Seq(Requests) /\ n + 1 \in Nat /\ n + 1 <= Len(g)
      /\ n + 1 >= 1 /\ r \in Requests
  <2>1. n \in Nat /\ g \in Seq(Requests) /\ n + 1 \in 1 .. Len(g)
    BY DEF Past
  <2> QED BY <2>1, Element
<1>2. ASSUME NEW i \in 0 .. n + 1, NEW c \in DOMAIN m[i]
      PROVE  EntryAt(g, m, i, c)
  <2>1. CASE i = n + 1
    <3> DEFINE q == r
    <3>1. q \in Requests /\ g[n + 1] = q /\ m[n + 1] = Recorded(h[n], n + 1, q) /\ ~Unexpected(h[n], q)
      BY <1>1
    <3> HIDE DEF q
    <3>2. CASE c # q.client
      BY <1>2, <2>1, <3>1, <3>2, OldEntry
    <3>3. CASE c = q.client /\ Registers(q)
      BY <1>1, <2>1, <3>1, <3>3, NewSession
    <3>4. CASE c = q.client /\ ~Registers(q)
      <4>1. c \in DOMAIN h[n]
        BY <1>2, <2>1, <3>1, <3>4, SameClients
      <4>2. EntryAt(g, h, n, c)
        BY <1>1, <4>1 DEF Past
      <4> QED BY <1>1, <2>1, <3>1, <3>4, <4>1, <4>2, NextOfSession
    <3> QED BY <3>2, <3>3, <3>4
  <2>2. CASE i \in 0 .. n
    <3>1. m[i] = h[i] /\ c \in DOMAIN h[i] /\ \A j \in 0 .. i : m[j] = h[j]
      BY <1>1, <1>2, <2>2
    <3>2. EntryAt(g, h, i, c)
      BY <3>1, <2>2 DEF Past
    <3>3. i \in Nat /\ \A k \in 1 .. i : g[k] = g[k]
      BY <1>1
    <3> QED BY <3>1, <3>2, <3>3, EntryStays
  <2> QED BY <1>1, <2>1, <2>2
<1>3. ASSUME NEW i \in 1 .. n + 1
      PROVE  /\ m[i] = Recorded(m[i - 1], i, g[i]) /\ ~Unexpected(m[i - 1], g[i])
             /\ Registers(g[i]) => g[i].client \in DOMAIN m[i] /\ m[i][g[i].client].session = i
  <2>1. CASE i = n + 1
    <3> DEFINE q == r
    <3>1. m[i - 1] = h[n] /\ i = n + 1 /\ g[n + 1] = q /\ q \in Requests /\ m[n + 1] = Recorded(h[n], n + 1, q)
      BY <1>1, <2>1
    <3> HIDE DEF q
    <3>2. Registers(q) => q.client \in DOMAIN m[n + 1] /\ m[n + 1][q.client].session = n + 1
      BY <1>1, <3>1, NewSession
    <3> QED BY <3>1, <3>2
  <2>2. CASE i \in 1 .. n
    <3>1. m[i] = h[i] /\ m[i - 1] = h[i - 1]
      BY <1>1, <2>2
    <3> QED BY <2>2, <3>1 DEF Past
  <2> QED BY <1>1, <2>1, <2>2
<1>4. m[0] = << >>
  BY <1>1 DEF Past
<1> QED BY <1>1, <1>2, <1>3, <1>4 DEF Past

\* A recursive table is that of the history: where they differed first, they
\* would have been the same before.
LEMMA TableOfHistory ==
  ASSUME NEW g, NEW h, NEW n, Past(g, h, n), NEW e \in 0 .. n
  PROVE  TableAfter(g, e) = h[e]
<1> DEFINE F(t) == [i \in 0 .. e |-> IF i = 0 THEN << >> ELSE Recorded(t[i - 1], i, g[i])]
           t == CHOOSE t : t = F(t)
           m == [i \in 0 .. e |-> h[i]]
<1>1. n \in Nat /\ e \in Nat /\ h[0] = << >> /\ \A i \in 1 .. e : h[i] = Recorded(h[i - 1], i, g[i])
  BY DEF Past
<1>2. m = F(m)
  <2>1. ASSUME NEW i \in 0 .. e
        PROVE  m[i] = IF i = 0 THEN << >> ELSE Recorded(m[i - 1], i, g[i])
    <3>1. CASE i = 0
      BY <1>1, <3>1
    <3>2. CASE i # 0
      <4>1. i \in 1 .. e /\ i - 1 \in 0 .. e
        BY <1>1, <3>2
      <4> QED BY <1>1, <3>2, <4>1
    <3> QED BY <3>1, <3>2
  <2> QED BY <2>1
<1>3. t = F(t)
  BY <1>2
<1> HIDE DEF t
<1> DEFINE U == {i \in 0 .. e : t[i] # h[i]}
<1>4. U = {}
  <2> SUFFICES ASSUME U # {} PROVE FALSE
    OBVIOUS
  <2>1. PICK b \in U : \A c \in U : b <= c
    <3>1. U \subseteq Nat
      BY <1>1
    <3> HIDE DEF U
    <3> QED BY <3>1, LeastElement
  <2>2. b \in 0 .. e /\ t[b] # h[b]
    BY <2>1
  <2>3. t[b] = IF b = 0 THEN << >> ELSE Recorded(t[b - 1], b, g[b])
    BY <1>3, <2>2
  <2>4. b # 0
    BY <1>1, <2>2, <2>3
  <2>5. b - 1 \in 0 .. e /\ b - 1 < b /\ b \in 1 .. e
    BY <1>1, <2>2, <2>4
  <2>6. t[b - 1] = h[b - 1]
    BY <1>1, <2>1, <2>5
  <2> QED BY <1>1, <2>2, <2>3, <2>4, <2>5, <2>6
<1>5. e \in 0 .. e
  BY <1>1
<1>6. TableAfter(g, e) = t[e]
  BY DEF TableAfter, t
<1> QED BY <1>4, <1>5, <1>6

-----------------------------------------------------------------------------
(* What the invariant says of a client *)

\* The table of the primary that has executed the most is the last of the
\* history.
LEMMA LastOfHistory ==
  ASSUME Types, NEW h, NEW n, History(h, n)
  PROVE  LastTable = h[n]
<1> DEFINE P(v) == \A w \in Views : executed[w] <= executed[v]
           u == CHOOSE v \in Views : P(v)
<1>1. n \in Nat /\ \A w \in Views : executed[w] \in Nat /\ executed[w] <= n
  BY DEF Types, History, Past, Executed
<1>2. PICK x \in Views : executed[x] = n
  BY DEF History, Executed
<1>3. P(x)
  BY <1>1, <1>2
<1>4. u \in Views /\ P(u)
  BY <1>3
<1> HIDE DEF u
<1>5. executed[u] = n
  BY <1>1, <1>2, <1>4
<1>6. table[u] = h[n]
  BY <1>4, <1>5 DEF History
<1> QED BY <1>6 DEF LastTable, u

\* The fields of a client.
LEMMA ClientFields ==
  ASSUME Types, NEW c \in Clients
  PROVE  /\ clients[c] \in ClientStates
         /\ clients[c].request_number \in Nat /\ clients[c].inflight \in Requests \cup {None}
         /\ clients[c].parent \in Nat /\ clients[c].session \in Nat
         /\ clients[c].view \in Views /\ clients[c].evicted \in BOOLEAN
<1>1. clients[c] \in ClientStates
  BY DEF Types
<1> QED BY <1>1 DEF ClientStates

\* The number of the last answer is that of the request in flight less one.
LEMMA Numbers ==
  ASSUME Types, NEW h, NEW n, History(h, n), NEW c \in Clients
  PROVE  /\ Answered(clients[c]) \in Int
         /\ Answered(clients[c]) = IF clients[c].inflight = None
                                     THEN clients[c].request_number - 1
                                     ELSE clients[c].inflight.request - 1
         /\ clients[c].inflight # None => /\ clients[c].inflight \in requests
                                          /\ clients[c].inflight \in Requests
                                          /\ clients[c].inflight.client = c
                                          /\ clients[c].inflight.request \in Nat
<1> DEFINE k == clients[c]
<1>1. k.request_number \in Nat /\ k.inflight \in Requests \cup {None}
  BY ClientFields
<1>2. ClientAt(c, n)
  BY DEF History
<1>3. k.inflight # None => /\ k.inflight \in requests /\ k.inflight \in Requests
                           /\ k.inflight.client = c
                           /\ k.inflight.request + 1 = k.request_number
  BY <1>1, <1>2 DEF ClientAt
<1> HIDE DEF k
<1>4. k.inflight # None => k.inflight.request \in Nat
  BY <1>3, RequestFields
<1>5. Answered(k) = IF k.inflight = None THEN k.request_number - 1 ELSE k.inflight.request - 1
  BY <1>1, <1>3, <1>4 DEF Answered
<1> QED BY <1>1, <1>3, <1>4, <1>5 DEF k

\* A client that was answered has a session, which a register of its began.
LEMMA InSessionAt ==
  ASSUME Types, NEW h, NEW n, History(h, n), NEW c \in Clients, clients[c].session >= 1
  PROVE  LET k == clients[c]
             g == log[view]
         IN /\ 1 <= k.session /\ k.session <= k.parent /\ k.parent <= n
            /\ k.session \in Nat /\ k.parent \in Nat
            /\ g[k.session].client = c /\ Registers(g[k.session])
            /\ g[k.parent].client = c /\ g[k.parent].request = Answered(k)
            /\ Known(k.session, k.view)
<1> DEFINE k == clients[c]
           g == log[view]
<1>1. k.session \in Nat /\ k.parent \in Nat
  BY ClientFields
<1>2. ClientAt(c, n)
  BY DEF History
<1>3. ~ (Answered(k) < 0)
  BY <1>1, <1>2 DEF ClientAt
<1>4. /\ 1 <= k.session /\ k.session <= k.parent /\ k.parent <= n
      /\ g[k.session].client = c /\ Registers(g[k.session])
      /\ g[k.parent].client = c /\ g[k.parent].request = Answered(k)
      /\ Known(k.session, k.view)
  BY <1>2, <1>3 DEF ClientAt
<1> QED BY <1>1, <1>4

\* An executed request was sent.
LEMMA ExecutedIsSent ==
  ASSUME Types, NEW h, NEW n, History(h, n), NEW i \in 1 .. n
  PROVE  log[view][i] \in requests /\ i \in 1 .. Len(log[view])
<1>1. n \in Nat /\ n <= Len(log[view]) /\ view \in Views /\ log[view] \in Seq(Requests)
  BY DEF Types, History, Past
<1>2. i \in 1 .. Len(log[view])
  BY <1>1
<1> QED BY <1>1, <1>2 DEF History, Prepared

\* The entry of a client is one of the session it began, once.
LEMMA EntryOf ==
  ASSUME Types, NEW h, NEW n, History(h, n), NEW i \in 0 .. n, NEW c \in DOMAIN h[i]
  PROVE  /\ c \in Clients /\ h[i][c] \in Entries
         /\ 1 <= h[i][c].session /\ h[i][c].session <= h[i][c].op /\ h[i][c].op <= i
         /\ h[i][c].session \in Nat /\ h[i][c].op \in Nat /\ h[i][c].of \in Requests
         /\ h[i][c].of \in requests /\ h[i][c].of.client = c
         /\ h[i][c].of = log[view][h[i][c].op]
         /\ \A j \in h[i][c].session .. i : c \in DOMAIN h[j] /\ h[j][c].session = h[i][c].session
<1> DEFINE e == h[i][c]
<1>1. EntryAt(log[view], h, i, c) /\ n \in Nat /\ i <= n /\ i \in Nat
  BY DEF History, Past
<1>2. /\ c \in Clients /\ e \in Entries
      /\ 1 <= e.session /\ e.session <= e.op /\ e.op <= i
      /\ e.of = log[view][e.op] /\ e.of.client = c
      /\ \A j \in e.session .. i : c \in DOMAIN h[j] /\ h[j][c].session = e.session
  BY <1>1 DEF EntryAt, Entries
<1>3. e.session \in Nat /\ e.op \in Nat /\ e.of \in Requests
  BY <1>2 DEF Entries
<1>4. e.of \in requests
  <2>1. e.op \in 1 .. n
    BY <1>1, <1>2, <1>3
  <2> QED BY <1>2, <2>1, ExecutedIsSent
<1> QED BY <1>2, <1>3, <1>4

\* The table and the client that share a session agree.
LEMMA Agree ==
  ASSUME Types, NEW h, NEW n, History(h, n), NEW c \in Clients, clients[c].session >= 1,
         c \in DOMAIN h[n], h[n][c].session = clients[c].session
  PROVE  \/ h[n][c].of.request = Answered(clients[c]) /\ h[n][c].op = clients[c].parent
         \/ clients[c].inflight # None /\ h[n][c].of = clients[c].inflight
<1> DEFINE k == clients[c]
           g == log[view]
           e == h[n][c]
           a == Answered(k)
<1>1. n \in Nat /\ n \in 0 .. n
  BY DEF History, Past
<1>2. EntryAt(g, h, n, c)
  BY <1>1 DEF History, Past
<1>3. /\ e.session \in Nat /\ e.op \in Nat /\ e.of \in Requests /\ e.of \in requests
      /\ 1 <= e.session /\ e.session <= e.op /\ e.op <= n
      /\ e.of.client = c /\ e.of = g[e.op]
  BY <1>1, EntryOf
<1>4. /\ \A i \in e.session .. n : g[i].client = c => g[i].request <= e.of.request
      /\ \A i, j \in e.session .. n :
           g[i].client = c /\ g[j].client = c /\ g[i].request = g[j].request => i = j
  BY <1>2 DEF EntryAt
<1>5. /\ e.session = k.session /\ k.session <= k.parent /\ k.parent <= n /\ k.parent \in Nat
      /\ g[k.parent].client = c /\ g[k.parent].request = a
  BY InSessionAt
<1>6. e.of.request \in Nat /\ e.of.request < k.request_number /\ k.request_number \in Nat
  <2>1. ClientAt(c, n)
    BY DEF History
  <2>2. e.of.request < k.request_number
    BY <1>3, <2>1 DEF ClientAt
  <2> QED BY <1>3, <2>2, RequestFields, ClientFields
<1>7. /\ a \in Int
      /\ a = IF k.inflight = None THEN k.request_number - 1 ELSE k.inflight.request - 1
      /\ k.inflight # None => /\ k.inflight \in requests /\ k.inflight.client = c
                              /\ k.inflight.request \in Nat
                              /\ k.inflight.request + 1 = k.request_number
  <2>1. ClientAt(c, n)
    BY DEF History
  <2>2. k.inflight # None => k.inflight.request + 1 = k.request_number
    BY <2>1 DEF ClientAt
  <2> QED BY <2>2, Numbers
<1>8. \A q \in requests : q.client = c /\ q.request = e.of.request => q = e.of
  <2>1. Sent(e.of)
    BY <1>3 DEF History
  <2> QED BY <1>3, <2>1 DEF Sent
<1> HIDE DEF k, g, e, a
<1>9. k.parent \in e.session .. n /\ e.op \in e.session .. n
  BY <1>1, <1>3, <1>5
<1>10. a <= e.of.request
  BY <1>4, <1>5, <1>9
<1>11. CASE a = e.of.request
  BY <1>3, <1>4, <1>5, <1>9, <1>11 DEF k, e, a
<1>12. CASE a # e.of.request
  <2>1. k.inflight # None /\ k.inflight.request = e.of.request
    BY <1>6, <1>7, <1>10, <1>12
  <2>2. k.inflight = e.of
    BY <1>7, <1>8, <2>1
  <2> QED BY <2>1, <2>2 DEF k, e
<1> QED BY <1>11, <1>12

\* SessionFollowsClient follows.
LEMMA Follows ==
  ASSUME Types, NEW h, NEW n, History(h, n)
  PROVE  SessionFollowsClient
<1> SUFFICES ASSUME NEW c \in Clients, HasSession(c)
             PROVE  LET entry == LastTable[c]
                        holds == IF clients[c].inflight = None THEN clients[c].request_number - 1
                                 ELSE clients[c].inflight.request - 1
                    IN \/ entry.of.request = holds /\ entry.op = clients[c].parent
                       \/ clients[c].inflight # None /\ entry.of = clients[c].inflight
  BY DEF SessionFollowsClient
<1>1. LastTable = h[n]
  BY LastOfHistory
<1>2. clients[c].session >= 1 /\ c \in DOMAIN h[n] /\ h[n][c].session = clients[c].session
  <2>1. clients[c].session \in Nat
    BY ClientFields
  <2> QED BY <1>1, <2>1 DEF HasSession
<1> QED BY <1>1, <1>2, Agree, Numbers

\* A session that has ended is in no later table.
LEMMA StaysEnded ==
  ASSUME Types, NEW h, NEW n, History(h, n), NEW c \in Clients, Ended(c, h, n)
  PROVE  ~ (c \in DOMAIN h[n] /\ h[n][c].session = clients[c].session)
<1> SUFFICES ASSUME c \in DOMAIN h[n], h[n][c].session = clients[c].session
             PROVE  FALSE
  OBVIOUS
<1> DEFINE s == clients[c].session
<1>1. PICK j \in s .. n : ~ (c \in DOMAIN h[j] /\ h[j][c].session = s)
  BY DEF Ended
<1>2. n \in 0 .. n
  BY DEF History, Past
<1>3. \A i \in s .. n : c \in DOMAIN h[i] /\ h[i][c].session = s
  BY <1>2, EntryOf
<1> QED BY <1>1, <1>3

\* EvictedHasNoSession follows.
LEMMA EvictedFollows ==
  ASSUME Types, NEW h, NEW n, History(h, n)
  PROVE  EvictedHasNoSession
<1> SUFFICES ASSUME NEW c \in Clients, clients[c].evicted, HasSession(c)
             PROVE  FALSE
  BY DEF EvictedHasNoSession
<1>1. LastTable = h[n]
  BY LastOfHistory
<1>2. Ended(c, h, n)
  BY DEF History
<1> QED BY <1>1, <1>2, StaysEnded DEF HasSession

\* The table that has executed a register has its session, or a later one.
LEMMA NotBefore ==
  ASSUME Types, NEW h, NEW n, History(h, n), NEW c \in Clients, clients[c].session >= 1,
         NEW i \in 0 .. n, clients[c].session <= i, c \in DOMAIN h[i]
  PROVE  clients[c].session <= h[i][c].session
<1> DEFINE s == clients[c].session
           d == h[i][c].session
<1>1. n \in Nat /\ i \in Nat /\ i <= n
  BY DEF History, Past
<1>2. s \in Nat /\ log[view][s].client = c /\ Registers(log[view][s])
  BY InSessionAt
<1>3. s \in 1 .. n
  BY <1>1, <1>2
<1>4. h[s][c].session = s
  BY <1>2, <1>3 DEF History, Past
<1>5. d \in Nat /\ \A j \in d .. i : h[j][c].session = d
  BY EntryOf
<1> HIDE DEF s, d
<1>6. CASE d < s
  <2>1. s \in d .. i
    BY <1>2, <1>5, <1>6 DEF s
  <2> QED BY <1>4, <1>5, <1>6, <2>1
<1> QED BY <1>2, <1>5, <1>6 DEF s, d

\* RequestIsServed follows.
LEMMA Served ==
  ASSUME Types, NEW h, NEW n, History(h, n)
  PROVE  RequestIsServed
<1> SUFFICES ASSUME NEW c \in Clients, clients[c].inflight # None,
                    executed[view] = Len(log[view])
             PROVE  LET r == clients[c].inflight
                    IN /\ r.view <= view /\ clients[c].view <= view
                       /\ Evicts(view, r) \/ Repeats(view, r) \/ Accepts(view, r)
  BY DEF RequestIsServed
<1> DEFINE k == clients[c]
           r == k.inflight
           t == table[view]
<1>1. view \in Views /\ n \in Nat /\ n \in 0 .. n /\ executed[view] = n /\ t = h[n]
  <2>1. view \in Views /\ n \in Nat /\ n <= Len(log[view]) /\ executed[view] \in Nat
    BY DEF Types, History, Past
  <2>2. executed[view] <= n
    BY <2>1 DEF History, Executed
  <2>3. executed[view] = n
    BY <2>1, <2>2
  <2> QED BY <2>1, <2>3 DEF History
<1>2. /\ r \in requests /\ r \in Requests /\ r.client = c /\ r.request \in Nat
      /\ Answered(k) = r.request - 1
  BY Numbers
<1>3. /\ k.view <= view /\ r.request + 1 = k.request_number
      /\ r.session = k.session /\ r.parent = k.parent
      /\ \A q \in requests : q.client = c => q.request < k.request_number
  <2>1. ClientAt(c, n)
    BY DEF History
  <2> QED BY <2>1 DEF ClientAt
<1>4. /\ r.view <= view
      /\ r.request >= 1 => k.session >= 1
      /\ \A q \in requests : q.client = c /\ q.request = r.request => q = r
  <2>1. Sent(r)
    BY <1>2 DEF History
  <2> QED BY <1>2, <2>1 DEF Sent
<1>5. ~PipelineHolds(view, c)
  <2>1. executed[view] + 1 .. Len(log[view]) = {}
    BY <1>1
  <2> QED BY <2>1 DEF PipelineHolds
<1>6. k.session \in Nat
  BY ClientFields
<1> DEFINE e == h[n][c]
<1>7. CASE c \in DOMAIN t /\ Registers(r)
  <2>1. e.of \in requests /\ e.of \in Requests /\ e.of.client = c
    BY <1>1, <1>7, EntryOf
  <2>2. e.of.request \in Nat /\ e.of.request < r.request + 1
    BY <1>3, <2>1, RequestFields
  <2>3. e.of.request = r.request
    BY <1>2, <1>7, <2>2 DEF Registers
  <2>4. e.of = r
    BY <1>4, <2>1, <2>3
  <2>5. Repeats(view, r)
    BY <1>1, <1>2, <1>7, <2>4 DEF Repeats, InSession
  <2> QED BY <1>3, <1>4, <2>5
<1>8. CASE c \in DOMAIN t /\ ~Registers(r)
  <2>1. r.request >= 1 /\ k.session >= 1
    BY <1>2, <1>4, <1>8 DEF Registers
  <2>2. e.session \in Nat /\ e.of \in Requests
    BY <1>1, <1>8, EntryOf
  <2>3. k.session <= n
    BY <1>1, <2>1, InSessionAt
  <2>4. k.session <= e.session
    BY <1>1, <1>8, <2>1, <2>3, NotBefore
  <2>5. CASE k.session < e.session
    <3>1. Evicts(view, r)
      BY <1>1, <1>2, <1>3, <1>8, <2>5, <2>2, <1>6 DEF Evicts
    <3> QED BY <1>3, <1>4, <3>1
  <2>6. CASE k.session = e.session
    <3>1. \/ e.of.request = r.request - 1 /\ e.op = k.parent
          \/ e.of = r
      BY <1>1, <1>2, <1>8, <2>1, <2>6, Agree
    <3>2. InSession(view, r)
      BY <1>1, <1>2, <1>3, <1>8, <2>6 DEF InSession
    <3>3. CASE e.of = r
      BY <1>1, <1>2, <1>3, <1>4, <3>2, <3>3 DEF Repeats
    <3>4. CASE e.of.request = r.request - 1 /\ e.op = k.parent
      <4>1. e.of.request + 1 = r.request
        BY <1>2, <3>4
      <4>2. Accepts(view, r)
        BY <1>1, <1>2, <1>3, <1>8, <3>2, <3>4, <4>1 DEF Accepts
      <4> QED BY <1>3, <1>4, <4>2
    <3> QED BY <3>1, <3>3, <3>4
  <2> QED BY <1>6, <2>2, <2>4, <2>5, <2>6
<1>9. CASE c \notin DOMAIN t
  <2>1. CASE Registers(r)
    <3>1. Accepts(view, r)
      BY <1>2, <1>9, <2>1 DEF Accepts
    <3> QED BY <1>3, <1>4, <3>1
  <2>2. CASE ~Registers(r)
    <3>1. Evicts(view, r)
      BY <1>2, <1>5, <1>9, <2>2 DEF Evicts
    <3> QED BY <1>3, <1>4, <3>1
  <2> QED BY <2>1, <2>2
<1> QED BY <1>7, <1>8, <1>9

-----------------------------------------------------------------------------
(* What a step leaves alone *)

\* The primaries go on with what they have: at least n ops executed stay.
Onward(n, k) ==
  /\ UNCHANGED <<clients, requests>>
  /\ view \in Views /\ view' \in Views /\ view <= view' /\ n \in Nat /\ k \in Nat /\ n <= k
  /\ \A i \in 1 .. n : log'[view'][i] = log[view][i]
  /\ \A w \in Views : w <= view => executed[w] \in Nat /\ executed'[w] \in Nat
                                   /\ executed[w] <= executed'[w]

\* An op that is known stays known.
LEMMA KnownStays ==
  ASSUME NEW n, NEW k, Onward(n, k), NEW s \in Nat, NEW u \in Views, u <= view, Known(s, u)
  PROVE  Known(s, u)'
<1>1. PICK w \in Views : w <= u /\ s <= executed[w]
  BY DEF Known
<1>2. w <= view
  BY <1>1 DEF Onward, Views
<1>3. s <= executed'[w]
  BY <1>1, <1>2 DEF Onward
<1> QED BY <1>1, <1>3 DEF Known

\* What a client is to the primaries stays.
LEMMA ClientStays ==
  ASSUME Types, NEW n, NEW k, Onward(n, k), NEW c \in Clients, ClientAt(c, n)
  PROVE  ClientAt(c, k)'
<1> DEFINE x == clients[c]
           g == log[view]
           f == log'[view']
<1>1. /\ x.view \in Views /\ x.session \in Nat /\ x.parent \in Nat
      /\ x.request_number \in Nat /\ x.inflight \in Requests \cup {None}
  BY ClientFields
<1>2. clients'[c] = x /\ requests' = requests /\ view <= view' /\ n <= k
      /\ view \in Nat /\ view' \in Nat /\ x.view \in Nat /\ n \in Nat /\ k \in Nat
  BY <1>1 DEF Onward, Views
<1>3. x.view <= view /\ x.view <= view'
  BY <1>2 DEF ClientAt
<1>4. CASE Answered(x) < 0
  BY <1>2, <1>3, <1>4 DEF ClientAt
<1>5. CASE ~ (Answered(x) < 0)
  <2>1. /\ 1 <= x.session /\ x.session <= x.parent /\ x.parent <= n
        /\ g[x.session].client = c /\ Registers(g[x.session])
        /\ g[x.parent].client = c /\ g[x.parent].request = Answered(x)
        /\ Known(x.session, x.view)
    BY <1>5 DEF ClientAt
  <2>2. x.session \in 1 .. n /\ x.parent \in 1 .. n /\ x.parent <= k
    BY <1>1, <1>2, <2>1
  <2>3. f[x.session] = g[x.session] /\ f[x.parent] = g[x.parent]
    BY <2>2 DEF Onward
  <2>4. Known(x.session, x.view)'
    <3>1. Known(x.session, x.view) /\ clients'[c] = clients[c]
      BY <1>2, <2>1
    <3> DEFINE s == x.session
               u == x.view
    <3>2. s \in Nat /\ u \in Views /\ u <= view
      BY <1>1, <1>3
    <3>3. Known(s, u)
      BY <3>1
    <3>4. \E w \in Views : w <= u /\ s <= executed'[w]
      <4>1. PICK w \in Views : w <= u /\ s <= executed[w]
        BY <3>3 DEF Known
      <4>2. w <= view
        BY <3>2, <4>1 DEF Onward, Views
      <4>3. s <= executed'[w]
        BY <3>2, <4>1, <4>2 DEF Onward
      <4> QED BY <4>1, <4>3
    <3> QED BY <1>2, <3>4 DEF Known
  <2> QED BY <1>2, <1>3, <1>5, <2>1, <2>2, <2>3, <2>4 DEF ClientAt
<1> QED BY <1>4, <1>5

\* A request stays in its session.
LEMMA SentStays ==
  ASSUME Types, NEW n, NEW k, Onward(n, k), NEW r \in requests, Sent(r)
  PROVE  Sent(r)'
<1>1. r \in Requests
  BY DEF Types
<1>2. r.view \in Views /\ r.session \in Nat /\ r.view <= view
  BY <1>1, RequestFields DEF Sent
<1>3. r.view <= view'
  BY <1>2 DEF Onward, Views
<1>4. r.request >= 1 => Known(r.session, r.view)'
  <2>1. r.request >= 1 => Known(r.session, r.view)
    BY DEF Sent
  <2> QED BY <1>2, <2>1, KnownStays
<1> QED BY <1>3, <1>4 DEF Sent, Onward

\* A reply stays true.
LEMMA RepliedStays ==
  ASSUME Types, NEW n, NEW k, Onward(n, k), NEW m \in replies, Replied(m, n)
  PROVE  Replied(m, k)'
<1>1. m.op \in Nat /\ m.view \in Views
  BY DEF Types
<1>2. m.view <= view /\ 1 <= m.op /\ m.op <= n /\ m.op <= executed[m.view] /\ m.of = log[view][m.op]
      /\ m.of \in requests
  BY DEF Replied
<1>3. m.op \in 1 .. n
  BY <1>1, <1>2 DEF Onward
<1>4. log'[view'][m.op] = log[view][m.op]
  BY <1>3 DEF Onward
<1>5. m.view <= view' /\ m.op <= k /\ m.op <= executed'[m.view]
  BY <1>1, <1>2 DEF Onward, Views
<1> QED BY <1>2, <1>4, <1>5 DEF Replied, Onward

\* What has ended stays so.
LEMMA EndedStays ==
  ASSUME Types, NEW h, NEW n, NEW m, NEW k \in Nat, NEW c, c \in Clients,
         n \in Nat, n <= k, \A j \in 0 .. n : m[j] = h[j],
         clients'[c].session = clients[c].session, Ended(c, h, n)
  PROVE  Ended(c, m, k)'
<1> DEFINE s == clients[c].session
<1>1. s \in Nat
  BY ClientFields
<1>2. s >= 1
  BY DEF Ended
<1>3. PICK j \in s .. n : ~ (c \in DOMAIN h[j] /\ h[j][c].session = s)
  BY DEF Ended
<1> HIDE DEF s
<1>4. j \in s .. k /\ m[j] = h[j]
  BY <1>1, <1>3
<1> USE DEF s
<1>5. clients'[c].session = s
  OBVIOUS
<1> HIDE DEF s
<1>6. \E i \in s .. k : ~ (c \in DOMAIN m[i] /\ m[i][c].session = s)
  BY <1>3, <1>4
<1> QED BY <1>2, <1>5, <1>6 DEF Ended

\* The messages of the primaries to the clients, in a step of theirs.
LEMMA Onwards ==
  ASSUME Types, NEW h, NEW n, History(h, n), NEW m, NEW k, Onward(n, k),
         \A j \in 0 .. n : m[j] = h[j],
         Past(log[view], m, k)', table' = [v \in Views |-> m[executed'[v]]],
         Executed(k)', Logs', Prepared',
         \A x \in replies' : x \in replies \/ Replied(x, k)',
         \A x \in evictions' : x \in evictions \/ Ended(x.client, m, k)'
  PROVE  History(m, k)'
<1>1. UNCHANGED <<clients, requests>> /\ n \in Nat /\ k \in Nat /\ n <= k
  BY DEF Onward
<1>2. ASSUME NEW c \in Clients
      PROVE  ClientAt(c, k)' /\ (clients'[c].evicted => Ended(c, m, k)')
  <2>1. ClientAt(c, n) /\ (clients[c].evicted => Ended(c, h, n))
    BY DEF History
  <2>2. ClientAt(c, k)'
    BY <2>1, ClientStays
  <2>3. clients[c].evicted => Ended(c, m, k)'
    BY <1>1, <2>1, EndedStays
  <2> QED BY <1>1, <2>2, <2>3
<1>3. ASSUME NEW r \in requests'
      PROVE  Sent(r)'
  <2>1. r \in requests /\ Sent(r)
    BY <1>1 DEF History
  <2> QED BY <2>1, SentStays
<1>4. ASSUME NEW x \in replies'
      PROVE  Replied(x, k)'
  <2>1. CASE x \in replies
    <3>1. Replied(x, n)
      BY <2>1 DEF History
    <3> QED BY <2>1, <3>1, RepliedStays
  <2> QED BY <2>1
<1>5. ASSUME NEW x \in evictions'
      PROVE  Ended(x.client, m, k)'
  <2>1. CASE x \in evictions
    <3>1. Ended(x.client, h, n)
      BY <2>1 DEF History
    <3>2. x.client \in Clients
      BY <2>1 DEF Types
    <3> QED BY <1>1, <3>1, <3>2, EndedStays
  <2> QED BY <2>1
<1> QED BY <1>2, <1>3, <1>4, <1>5 DEF History

-----------------------------------------------------------------------------
(* A primary evicts, answers and prepares *)

\* What the invariant says of a primary.
LEMMA PrimaryAt ==
  ASSUME Types, NEW h, NEW n, History(h, n), NEW v \in Views
  PROVE  /\ n \in Nat /\ n <= Len(log[view]) /\ log[view] \in Seq(Requests) /\ Len(log[view]) \in Nat
         /\ view \in Views /\ view \in Nat /\ v \in Nat
         /\ executed[v] \in Nat /\ kept[v] \in Nat /\ log[v] \in Seq(Requests) /\ Len(log[v]) \in Nat
         /\ queue[v] \in Seq(Requests)
         /\ executed[v] <= n /\ executed[v] <= kept[v] /\ executed[v] <= Len(log[v])
         /\ executed[v] \in 0 .. n /\ table[v] = h[executed[v]]
<1>1. /\ n \in Nat /\ n <= Len(log[view]) /\ log[view] \in Seq(Requests)
      /\ view \in Views /\ executed[v] \in Nat /\ kept[v] \in Nat /\ log[v] \in Seq(Requests)
      /\ queue[v] \in Seq(Requests)
  BY DEF Types, History, Past
<1>2. executed[v] <= n /\ executed[v] <= kept[v] /\ executed[v] <= Len(log[v])
  BY DEF History, Executed
<1>3. table[v] = h[executed[v]]
  BY DEF History
<1>4. view \in Nat /\ v \in Nat
  BY <1>1 DEF Views
<1>5. Len(log[view]) \in Nat /\ Len(log[v]) \in Nat
  BY <1>1
<1> QED BY <1>1, <1>2, <1>3, <1>4, <1>5

\* A table without the session, after the op that began it.
LEMMA Ends ==
  ASSUME Types, NEW h, NEW n, History(h, n), NEW c \in Clients, NEW v \in Views,
         clients[c].session >= 1, clients[c].session <= executed[v],
         ~ (c \in DOMAIN table[v] /\ table[v][c].session = clients[c].session)
  PROVE  Ended(c, h, n)
<1>1. executed[v] \in clients[c].session .. n /\ table[v] = h[executed[v]]
  BY PrimaryAt, ClientFields
<1> QED BY <1>1 DEF Ended

\* What a primary has kept, every later one has in its log.
LEMMA KeptIsShared ==
  ASSUME Types, NEW h, NEW n, History(h, n), NEW v \in Views, v <= view,
         NEW w \in Views, w <= v, NEW i \in Nat, 1 <= i, i <= executed[w]
  PROVE  i <= n /\ i <= Len(log[v]) /\ i <= kept[v] /\ log[v][i] = log[view][i]
<1>1. executed[w] \in Nat /\ kept[w] \in Nat /\ executed[w] <= n /\ executed[w] <= kept[w]
      /\ executed[w] <= Len(log[w]) /\ n \in Nat /\ n <= Len(log[view]) /\ Len(log[view]) \in Nat
      /\ w \in Nat /\ view \in Nat /\ view \in Views
  BY PrimaryAt
<1>2. v \in Nat /\ kept[v] \in Nat /\ Len(log[v]) \in Nat
  BY PrimaryAt
<1>3. kept[w] <= kept[v]
  BY DEF History, Logs
<1>4. i <= Len(log[v])
  <2>1. CASE w = v
    BY <1>1, <1>2, <2>1
  <2>2. CASE w # v
    <3>1. w <= v /\ w < view /\ v <= view
      BY <1>1, <1>2, <2>2
    <3>2. kept[w] <= Len(log[v])
      BY <3>1 DEF History, Logs
    <3>3. i <= kept[w] /\ kept[w] \in Nat /\ Len(log[v]) \in Nat
      BY <1>1, <1>2
    <3> QED BY <3>2, <3>3
  <2> QED BY <2>1, <2>2
<1>5. i <= n /\ i <= kept[v] /\ i \in 1 .. Len(log[view])
  BY SMTT(30), <1>1, <1>2, <1>3
<1>6. log[v][i] = log[view][i]
  BY <1>4, <1>5 DEF History, Logs
<1> QED BY <1>4, <1>5, <1>6

\* A primary evicts a client whose session has ended: it has executed the
\* register, or has it in its pipeline.
LEMMA EvictsEnded ==
  ASSUME Types, NEW h, NEW n, History(h, n), NEW v \in Views, v <= view,
         NEW r \in requests, r.view <= v, Evicts(v, r)
  PROVE  r.client \in Clients /\ Ended(r.client, h, n)
<1> DEFINE c == r.client
           s == clients[c].session
<1>1. /\ r \in Requests /\ c \in Clients /\ r.request \in Nat /\ r.view \in Views
      /\ ~Registers(r)
  <2>1. r \in Requests
    BY DEF Types
  <2> QED BY <2>1, RequestFields DEF Evicts
<1>2. r.session = s /\ s >= 1 /\ Known(s, r.view) /\ s \in Nat
  <2>1. Sent(r) /\ r.request >= 1
    BY <1>1 DEF History, Registers
  <2>2. r.session = s /\ r.session >= 1 /\ Known(r.session, r.view)
    BY <2>1 DEF Sent
  <2> QED BY <1>1, <2>2, ClientFields
<1>3. PICK w \in Views : w <= r.view /\ s <= executed[w]
  BY <1>2 DEF Known
<1>4. w <= v /\ v \in Nat /\ w \in Nat /\ executed[w] \in Nat
  <2>1. v \in Nat /\ w \in Nat /\ r.view \in Nat
    BY <1>1 DEF Views
  <2> QED BY <1>3, <2>1, PrimaryAt
<1>5. executed[v] \in 0 .. n /\ table[v] = h[executed[v]] /\ executed[v] \in Nat
  BY PrimaryAt
<1>6. CASE c \in DOMAIN table[v]
  <2>1. table[v][c].session > s
    BY <1>2, <1>6 DEF Evicts
  <2>2. table[v][c].session \in Nat /\ table[v][c].session <= executed[v]
    BY <1>5, <1>6, EntryOf
  <2>3. s <= executed[v] /\ table[v][c].session # s
    BY <1>2, <1>5, <2>1, <2>2
  <2> QED BY <1>1, <1>2, <2>3, Ends
<1>7. CASE c \notin DOMAIN table[v]
  <2>1. ~PipelineHolds(v, c)
    BY <1>7 DEF Evicts
  <2>2. s <= executed[v]
    <3> SUFFICES ASSUME s > executed[v]
                 PROVE  FALSE
      BY <1>2, <1>5
    <3>1. s <= Len(log[v]) /\ log[v][s] = log[view][s]
      BY <1>2, <1>3, <1>4, KeptIsShared
    <3>2. log[view][s].client = c
      BY <1>1, <1>2, InSessionAt
    <3>3. s \in executed[v] + 1 .. Len(log[v])
      BY <1>2, <1>5, <3>1, PrimaryAt
    <3> QED BY <2>1, <3>1, <3>2, <3>3 DEF PipelineHolds
  <2> QED BY <1>1, <1>2, <1>7, <2>2, Ends
<1> QED BY <1>1, <1>6, <1>7

\* Nothing but messages to the clients, and the flag of a failure, changes.
LEMMA Speaks ==
  ASSUME Types, NEW h, NEW n, History(h, n), UNCHANGED <<clientVars, primaryVars>>,
         \A x \in replies' : x \in replies \/ Replied(x, n),
         \A x \in evictions' : x \in evictions \/ Ended(x.client, h, n)
  PROVE  History(h, n)'
<1>1. UNCHANGED <<clients, requests, view, log, executed, table, queue, kept>>
  BY DEF clientVars, primaryVars
<1>2. \A x \in replies' : Replied(x, n)
  BY DEF History
<1>3. \A x \in evictions' : Ended(x.client, h, n)
  BY DEF History
<1>4. \A x : Replied(x, n) => Replied(x, n)'
  BY <1>1 DEF Replied
<1>5. \A x : Ended(x, h, n) => Ended(x, h, n)'
  BY <1>1 DEF Ended
<1>6. Past(log[view], h, n)' /\ (table = [v \in Views |-> h[executed[v]]])'
  BY <1>1 DEF History
<1>7. Executed(n)' /\ Logs' /\ Prepared'
  BY <1>1 DEF History, Executed, Logs, Prepared
<1>8. \A c \in Clients : ClientAt(c, n)' /\ (clients'[c].evicted => Ended(c, h, n)')
  <2>1. \A c \in Clients : ClientAt(c, n) => ClientAt(c, n)'
    BY <1>1 DEF ClientAt, Known
  <2> QED BY <1>1, <1>5, <2>1 DEF History
<1>9. \A r \in requests' : Sent(r)'
  BY <1>1 DEF History, Sent, Known
<1> QED BY <1>2, <1>3, <1>4, <1>5, <1>6, <1>7, <1>8, <1>9 DEF History

\* A request of an old session is answered with an eviction.
LEMMA EvictedStep ==
  ASSUME Types, NEW h, NEW n, History(h, n), NEW v \in Views, v <= view,
         NEW r \in requests, r.view <= v, OnRequestEvicted(v, r)
  PROVE  Types' /\ History(h, n)'
<1>1. r.client \in Clients /\ Ended(r.client, h, n)
  BY EvictsEnded DEF OnRequestEvicted
<1>2. /\ evictions' = evictions \cup {[client |-> r.client, view |-> v]}
      /\ UNCHANGED <<clientVars, primaryVars, replies, stopped>>
  BY DEF OnRequestEvicted
<1>3. \A x \in evictions' : x \in evictions \/ Ended(x.client, h, n)
  BY <1>1, <1>2
<1>4. \A x \in replies' : x \in replies
  BY <1>2
<1>5. History(h, n)'
  BY <1>2, <1>3, <1>4, Speaks
<1>6. Types'
  BY <1>1, <1>2 DEF Types, clientVars, primaryVars
<1> QED BY <1>5, <1>6

\* A ping of a session that has ended is.
LEMMA PingStep ==
  ASSUME Types, NEW h, NEW n, History(h, n), NEW v \in Views, NEW c \in Clients,
         OnPingClient(v, c)
  PROVE  Types' /\ History(h, n)'
<1>1. /\ clients[c].session >= 1 /\ clients[c].session <= executed[v]
      /\ c \notin DOMAIN table[v]
      /\ evictions' = evictions \cup {[client |-> c, view |-> v]}
      /\ UNCHANGED <<clientVars, primaryVars, replies, stopped>>
  <2>1. executed[v] \in Nat /\ clients[c].session \in 1 .. executed[v]
    BY PrimaryAt DEF OnPingClient
  <2> QED BY <2>1 DEF OnPingClient
<1>2. Ended(c, h, n)
  BY <1>1, Ends
<1>3. \A x \in evictions' : x \in evictions \/ Ended(x.client, h, n)
  BY <1>1, <1>2
<1>4. \A x \in replies' : x \in replies
  BY <1>1
<1>5. History(h, n)'
  BY <1>1, <1>3, <1>4, Speaks
<1>6. Types'
  BY SMTT(60), <1>1 DEF Types, clientVars, primaryVars
<1> QED BY <1>5, <1>6

\* A request that was answered is answered again.
LEMMA RepeatedStep ==
  ASSUME Types, NEW h, NEW n, History(h, n), NEW v \in Views, v <= view,
         NEW r \in requests, OnRequestRepeated(v, r)
  PROVE  Types' /\ History(h, n)'
<1> DEFINE c == r.client
           o == table[v][c].op
<1>1. /\ c \in DOMAIN table[v] /\ table[v][c].of = r
      /\ replies' \subseteq replies \cup {Reply(r, o, v)}
      /\ UNCHANGED <<clientVars, primaryVars, evictions, stopped>>
  BY DEF OnRequestRepeated, Repeats, InSession
<1>2. executed[v] \in 0 .. n /\ table[v] = h[executed[v]] /\ executed[v] \in Nat /\ n \in Nat
  BY PrimaryAt
<1>3. /\ o \in Nat /\ 1 <= table[v][c].session /\ table[v][c].session <= o /\ o <= executed[v]
      /\ r = log[view][o] /\ table[v][c].session \in Nat
  BY <1>1, <1>2, EntryOf
<1> HIDE DEF o
<1>4. 1 <= o /\ o <= n
  BY <1>2, <1>3
<1>5. Replied(Reply(r, o, v), n)
  BY <1>3, <1>4 DEF Replied, Reply
<1>6. \A x \in replies' : x \in replies \/ Replied(x, n)
  BY <1>1, <1>5
<1>7. \A x \in evictions' : x \in evictions
  BY <1>1
<1>8. History(h, n)'
  BY <1>1, <1>6, <1>7, Speaks
<1>9. Types'
  <2>1. Reply(r, o, v) \in [of : Requests, op : Nat, view : Views]
    BY <1>3 DEF Types, Reply
  <2> QED BY <1>1, <2>1 DEF Types, clientVars, primaryVars
<1> QED BY <1>8, <1>9

-----------------------------------------------------------------------------
(* A primary prepares *)

\* One request more at the end of a log.
LEMMA LogGrows ==
  ASSUME Types, NEW h, NEW n, History(h, n), NEW v \in Views, v <= view, NEW r \in requests,
         log' = [log EXCEPT ![v] = Append(@, r)], UNCHANGED <<view, kept, requests>>,
         \A w \in Views : \A i \in 1 .. Len(queue'[w]) : queue'[w][i] \in requests
  PROVE  /\ log' \in [Views -> Seq(Requests)] /\ Logs' /\ Prepared'
         /\ \A w \in Views : /\ Len(log'[w]) \in Nat /\ Len(log[w]) \in Nat
                             /\ Len(log[w]) <= Len(log'[w])
                             /\ \A i \in 1 .. Len(log[w]) : log'[w][i] = log[w][i]
<1>1. /\ n \in Nat /\ n <= Len(log[view]) /\ view \in Views /\ view \in Nat /\ v \in Nat
      /\ log \in [Views -> Seq(Requests)] /\ r \in Requests
  BY PrimaryAt DEF Types
<1>2. /\ log'[v] = Append(log[v], r) /\ log[v] \in Seq(Requests)
      /\ \A w \in Views \ {v} : log'[w] = log[w]
  BY <1>1
<1>3. /\ log'[v] \in Seq(Requests) /\ Len(log'[v]) = Len(log[v]) + 1 /\ Len(log[v]) \in Nat
      /\ log'[v][Len(log[v]) + 1] = r /\ \A i \in 1 .. Len(log[v]) : log'[v][i] = log[v][i]
  BY <1>1, <1>2
<1>4. log' \in [Views -> Seq(Requests)]
  BY <1>1, <1>2, <1>3
<1>5. ASSUME NEW w \in Views
      PROVE  /\ Len(log'[w]) \in Nat /\ Len(log[w]) \in Nat /\ Len(log[w]) <= Len(log'[w])
             /\ \A i \in 1 .. Len(log[w]) : log'[w][i] = log[w][i]
             /\ w # v => log'[w] = log[w]
             /\ \A i \in 1 .. Len(log'[w]) : i \in 1 .. Len(log[w]) \/ (w = v /\ i = Len(log[v]) + 1)
  <2>1. CASE w = v
    BY <1>3, <2>1
  <2>2. CASE w # v
    BY <1>1, <1>2, <2>2
  <2> QED BY <2>1, <2>2
<1>6. Logs'
  <2>1. /\ \A x \in Views : kept[x] <= MaxOp /\ (x >= view => kept[x] = MaxOp)
        /\ \A x, w \in Views : x <= w => kept[x] <= kept[w]
        /\ \A x, w \in Views : x <= w /\ x < view /\ w <= view => kept[x] <= Len(log[w])
        /\ \A x \in Views : x <= view => \A i \in 1 .. Len(log[view]) :
             i <= kept[x] /\ i <= Len(log[x]) => log[x][i] = log[view][i]
    BY DEF History, Logs
  <2>2. \A x, w \in Views : x <= w /\ x < view /\ w <= view => kept[x] <= Len(log'[w])
    BY <1>5, <2>1, PrimaryAt
  <2>3. ASSUME NEW x \in Views, x <= view, NEW i \in 1 .. Len(log'[view]),
               i <= kept[x], i <= Len(log'[x])
        PROVE  log'[x][i] = log'[view][i]
    <3>1. CASE x = view
      BY <3>1
    <3>2. CASE x # view
      <4>1. x \in Nat /\ x < view /\ kept[x] \in Nat
        <5>1. x \in Nat /\ kept[x] \in Nat /\ view \in Nat
          BY PrimaryAt
        <5> QED BY <2>3, <3>2, <5>1
      <4>2. kept[x] <= Len(log[x]) /\ kept[x] <= Len(log[view])
        BY <1>1, <2>1, <4>1
      <4>3. i \in 1 .. Len(log[x]) /\ i \in 1 .. Len(log[view])
        BY <1>1, <1>5, <2>3, <4>1, <4>2
      <4>4. log[x][i] = log[view][i]
        BY <2>1, <2>3, <4>3
      <4> QED BY <1>1, <1>5, <4>3, <4>4
    <3> QED BY <3>1, <3>2
  <2> QED BY <2>1, <2>2, <2>3 DEF Logs
<1>7. Prepared'
  <2>1. /\ \A w \in Views : \A i \in 1 .. Len(log[w]) : log[w][i] \in requests
        /\ \A i \in 1 .. Len(log[view]) : log[view][i].request >= 1 => log[view][i].session < i
    BY DEF History, Prepared
  <2>2. ASSUME NEW w \in Views, NEW i \in 1 .. Len(log'[w])
        PROVE  log'[w][i] \in requests
    BY <1>3, <1>5, <2>1, <2>2
  <2>3. ASSUME NEW i \in 1 .. Len(log'[view]), log'[view][i].request >= 1
        PROVE  log'[view][i].session < i
    <3>1. CASE i \in 1 .. Len(log[view])
      BY <1>1, <1>5, <2>1, <2>3, <3>1
    <3>2. CASE v = view /\ i = Len(log[v]) + 1
      <4>1. log'[view][i] = r /\ Sent(r)
        BY <1>3, <3>2 DEF History
      <4>2. r.session >= 1 /\ Known(r.session, r.view) /\ r.session \in Nat
        BY <1>1, <2>3, <4>1, RequestFields DEF Sent
      <4>3. PICK w \in Views : r.session <= executed[w]
        BY <4>2 DEF Known
      <4>4. executed[w] \in Nat /\ executed[w] <= n
        BY PrimaryAt
      <4> QED BY <1>1, <1>3, <3>2, <4>1, <4>2, <4>3, <4>4
    <3> QED BY <1>1, <1>5, <3>1, <3>2
  <2> QED BY <2>2, <2>3 DEF Prepared
<1> QED BY <1>4, <1>5, <1>6, <1>7

\* The next request of a client is prepared, or waits.
LEMMA AcceptedStep ==
  ASSUME Types, NEW h, NEW n, History(h, n), NEW v \in Views,
         NEW r \in requests, OnRequestAccepted(v, r)
  PROVE  Types' /\ History(h, n)'
<1>1. /\ v = view /\ UNCHANGED <<clients, requests, view, executed, table, kept, replies, evictions>>
      /\ \/ queue' = [queue EXCEPT ![v] = Append(@, r)] /\ log' = log
         \/ log' = [log EXCEPT ![v] = Append(@, r)] /\ queue' = queue
  BY DEF OnRequestAccepted, clientVars
<1>2. /\ n \in Nat /\ n <= Len(log[view]) /\ view \in Views /\ view \in Nat
      /\ r \in Requests /\ \A w \in Views : executed[w] \in Nat
  BY PrimaryAt DEF Types
<1>3. CASE queue' = [queue EXCEPT ![v] = Append(@, r)] /\ log' = log
  <2>1. queue \in [Views -> Seq(Requests)]
    BY DEF Types
  <2>2. /\ queue'[v] = Append(queue[v], r) /\ queue[v] \in Seq(Requests)
        /\ \A w \in Views \ {v} : queue'[w] = queue[w]
    BY <1>3, <2>1
  <2>3. /\ queue'[v] \in Seq(Requests) /\ Len(queue'[v]) = Len(queue[v]) + 1 /\ Len(queue[v]) \in Nat
        /\ queue'[v][Len(queue[v]) + 1] = r /\ \A i \in 1 .. Len(queue[v]) : queue'[v][i] = queue[v][i]
    BY <1>2, <2>2
  <2>4. queue' \in [Views -> Seq(Requests)]
    BY <1>3, <2>1, <2>2, <2>3
  <2>5. \A w \in Views : \A i \in 1 .. Len(queue'[w]) : queue'[w][i] \in requests
    <3>1. \A w \in Views : \A i \in 1 .. Len(queue[w]) : queue[w][i] \in requests
      BY DEF History, Prepared
    <3>2. \A i \in 1 .. Len(queue'[v]) : i \in 1 .. Len(queue[v]) \/ i = Len(queue[v]) + 1
      BY <2>3
    <3>3. \A i \in 1 .. Len(queue'[v]) : queue'[v][i] \in requests
      BY <2>3, <3>1, <3>2
    <3> QED BY <2>2, <3>1, <3>3
  <2>6. Types'
    BY <1>1, <1>3, <2>4 DEF Types
  <2>7. Prepared'
    BY <1>1, <1>3, <2>5 DEF History, Prepared
  <2>8. Executed(n)' /\ Logs' /\ Past(log[view], h, n)' /\ (table = [w \in Views |-> h[executed[w]]])'
    BY <1>1, <1>3 DEF History, Executed, Logs
  <2>9. Onward(n, n)
    BY <1>1, <1>2, <1>3 DEF Onward
  <2>10. History(h, n)'
    BY <1>1, <2>7, <2>8, <2>9, Onwards
  <2> QED BY <2>6, <2>10
<1>4. CASE log' = [log EXCEPT ![v] = Append(@, r)] /\ queue' = queue
  <2>1. \A w \in Views : \A i \in 1 .. Len(queue'[w]) : queue'[w][i] \in requests
    BY <1>4 DEF History, Prepared
  <2>2. /\ log' \in [Views -> Seq(Requests)] /\ Logs' /\ Prepared'
        /\ \A w \in Views : /\ Len(log'[w]) \in Nat /\ Len(log[w]) \in Nat
                            /\ Len(log[w]) <= Len(log'[w])
                            /\ \A i \in 1 .. Len(log[w]) : log'[w][i] = log[w][i]
    <3>1. v <= view /\ UNCHANGED <<view, kept, requests>>
      BY <1>1, <1>2
    <3> QED BY <1>4, <2>1, <3>1, LogGrows
  <2>3. Types'
    BY <1>1, <1>4, <2>2 DEF Types
  <2>4. Executed(n)'
    BY <1>1, <1>2, <2>2 DEF History, Executed
  <2>5. /\ log'[view] \in Seq(Requests) /\ n <= Len(log'[view])
        /\ \A i \in 1 .. n : log'[view][i] = log[view][i]
    BY <1>2, <2>2
  <2>6. Past(log[view], h, n)
    BY DEF History
  <2>7. Past(log'[view], h, n)
    BY <2>5, <2>6, PastStays
  <2>8. Past(log[view], h, n)'
    BY <1>1, <2>7
  <2>9. Onward(n, n)
    BY <1>1, <1>2, <2>5 DEF Onward
  <2>10. (table = [w \in Views |-> h[executed[w]]])'
    BY <1>1 DEF History
  <2>11. History(h, n)'
    BY <1>1, <2>2, <2>4, <2>8, <2>9, <2>10, Onwards
  <2> QED BY <2>3, <2>11
<1> QED BY <1>1, <1>3, <1>4

\* A primary looks at a request.
LEMMA RequestStep ==
  ASSUME Types, NEW h, NEW n, History(h, n), NEW v \in Views, OnRequest(v)
  PROVE  Types' /\ History(h, n)'
<1>1. PICK r \in requests :
        /\ v <= view /\ r.view <= v
        /\ OnRequestEvicted(v, r) \/ OnRequestRepeated(v, r) \/ OnRequestAccepted(v, r)
  BY DEF OnRequest
<1> QED BY <1>1, EvictedStep, RepeatedStep, AcceptedStep

-----------------------------------------------------------------------------
(* A primary executes, and the next one starts *)

\* The next op of a log is the next of the history, where it was executed.
LEMMA NextOp ==
  ASSUME Types, NEW h, NEW n, History(h, n), NEW v \in Views, v <= view,
         executed[v] < Len(log[v]), executed[v] < kept[v]
  PROVE  /\ executed[v] + 1 <= Len(log[view]) /\ log[v][executed[v] + 1] = log[view][executed[v] + 1]
         /\ executed[v] + 1 \in 1 .. Len(log[v]) /\ executed[v] + 1 \in 1 .. Len(log[view])
<1> DEFINE o == executed[v] + 1
<1>1. /\ o \in Nat /\ 1 <= o /\ o <= Len(log[v]) /\ o <= kept[v] /\ kept[v] \in Nat
      /\ Len(log[v]) \in Nat /\ Len(log[view]) \in Nat /\ v \in Nat /\ view \in Nat /\ view \in Views
  BY PrimaryAt
<1> HIDE DEF o
<1>2. CASE v = view
  BY <1>1, <1>2 DEF o
<1>3. CASE v # view
  <2>1. v <= view /\ v < view /\ view <= view /\ v <= v
    BY <1>1, <1>3
  <2>2. kept[v] <= Len(log[view])
    BY <1>1, <2>1 DEF History, Logs
  <2>3. o \in 1 .. Len(log[view])
    BY <1>1, <2>2
  <2>4. log[v][o] = log[view][o]
    BY <1>1, <2>1, <2>3 DEF History, Logs
  <2> QED BY <1>1, <2>3, <2>4 DEF o
<1> QED BY <1>2, <1>3

\* The table after the op: one of the history, or the next.
LEMMA NextTable ==
  ASSUME Types, NEW h, NEW n, History(h, n), NEW v \in Views, v <= view,
         executed[v] < Len(log[v]), executed[v] < kept[v],
         ~Unexpected(table[v], log[v][executed[v] + 1])
  PROVE  \E m, k : /\ k \in Nat /\ n <= k /\ executed[v] + 1 <= k /\ k <= Len(log[view])
                   /\ \A j \in 0 .. n : m[j] = h[j]
                   /\ Past(log[view], m, k)
                   /\ m[executed[v] + 1] = Recorded(table[v], executed[v] + 1, log[v][executed[v] + 1])
                   /\ k = n \/ k = executed[v] + 1
<1> DEFINE o == executed[v] + 1
           g == log[view]
           r == log[v][o]
<1>1. /\ o \in Nat /\ 1 <= o /\ n \in Nat /\ n <= Len(g) /\ o <= n + 1 /\ Len(g) \in Nat
      /\ table[v] = h[o - 1] /\ executed[v] = o - 1
  <2>1. executed[v] \in Nat /\ executed[v] <= n /\ n \in Nat /\ n <= Len(g) /\ Len(g) \in Nat
        /\ table[v] = h[executed[v]]
    BY PrimaryAt
  <2> QED BY <2>1
<1>2. o <= Len(g) /\ r = g[o]
  BY NextOp
<1>3. Past(g, h, n)
  BY DEF History
<1> HIDE DEF o, r, g
<1>4. CASE o <= n
  <2>1. o \in 1 .. n
    BY <1>1, <1>4
  <2>2. h[o] = Recorded(h[o - 1], o, g[o])
    BY <1>3, <2>1 DEF Past
  <2>3. h[o] = Recorded(table[v], o, r)
    BY <1>1, <1>2, <2>2
  <2> QED BY <1>1, <1>3, <1>4, <2>3 DEF o, g, r
<1>5. CASE o = n + 1
  <2> DEFINE t == Recorded(h[n], n + 1, g[n + 1])
             m == [j \in 0 .. n + 1 |-> IF j = n + 1 THEN t ELSE h[j]]
  <2>1. m[n + 1] = t
    BY <1>1
  <2>2. \A j \in 0 .. n : m[j] = h[j]
    BY <1>1
  <2>3. table[v] = h[n] /\ r = g[n + 1]
    BY <1>1, <1>2, <1>5
  <2>4. ~Unexpected(h[n], g[n + 1])
    BY <2>3 DEF r, o
  <2> HIDE DEF m
  <2>5. Past(g, m, n + 1)
    BY <1>1, <1>2, <1>3, <1>5, <2>1, <2>2, <2>4, PastGrows
  <2>6. m[o] = Recorded(table[v], o, r)
    BY <1>5, <2>1, <2>3
  <2> QED BY <1>1, <1>2, <1>5, <2>2, <2>5, <2>6 DEF o, g, r
<1> QED BY <1>1, <1>4, <1>5

\* The queue without its last request.
LEMMA QueueShrinks ==
  ASSUME NEW q \in Seq(Requests), Len(q) # 0
  PROVE  /\ SubSeq(q, 1, Len(q) - 1) \in Seq(Requests)
         /\ \A i \in 1 .. Len(SubSeq(q, 1, Len(q) - 1)) :
              i \in 1 .. Len(q) /\ SubSeq(q, 1, Len(q) - 1)[i] = q[i]
         /\ Len(q) \in 1 .. Len(q)
<1>1. Len(q) \in Nat /\ Len(q) \in 1 .. Len(q) /\ 1 \in Int /\ Len(q) - 1 \in Int
      /\ \A i \in 1 .. Len(q) - 1 : q[i] \in Requests
  OBVIOUS
<1> DEFINE f == SubSeq(q, 1, Len(q) - 1)
           n == Len(q)
<1>2. /\ f \in Seq(Requests) /\ Len(f) = IF 1 <= n - 1 THEN n - 1 - 1 + 1 ELSE 0
      /\ \A i \in 1 .. n - 1 - 1 + 1 : f[i] = q[1 + i - 1]
  BY <1>1, SubSeqProperties
<1>3. n \in Nat /\ n >= 1
  BY <1>1
<1> HIDE DEF f, n
<1>4. \A i \in 1 .. Len(f) : i \in 1 .. n /\ i \in 1 .. n - 1 - 1 + 1 /\ 1 + i - 1 = i
  BY <1>2, <1>3
<1>5. \A i \in 1 .. Len(f) : i \in 1 .. n /\ f[i] = q[i]
  BY <1>2, <1>4
<1> QED BY <1>1, <1>2, <1>5 DEF f, n

\* What follows the execution: the request that came last is prepared.
LEMMA Drains ==
  ASSUME Types, NEW h, NEW n, History(h, n), NEW v \in Views, v <= view,
         UNCHANGED <<view, kept, requests>>,
         IF Len(queue[v]) = 0 THEN UNCHANGED <<log, queue>>
         ELSE /\ log' = [log EXCEPT ![v] = Append(@, queue[v][Len(queue[v])])]
              /\ queue' = [queue EXCEPT ![v] = SubSeq(@, 1, Len(queue[v]) - 1)]
  PROVE  /\ log' \in [Views -> Seq(Requests)] /\ queue' \in [Views -> Seq(Requests)]
         /\ Logs' /\ Prepared'
         /\ \A w \in Views : /\ Len(log'[w]) \in Nat /\ Len(log[w]) \in Nat
                             /\ Len(log[w]) <= Len(log'[w])
                             /\ \A i \in 1 .. Len(log[w]) : log'[w][i] = log[w][i]
<1>1. log \in [Views -> Seq(Requests)] /\ queue \in [Views -> Seq(Requests)] /\ queue[v] \in Seq(Requests)
  BY DEF Types
<1>2. CASE Len(queue[v]) = 0
  <2>1. log' = log /\ queue' = queue
    BY <1>2
  <2>2. Logs' /\ Prepared'
    BY <2>1 DEF History, Logs, Prepared
  <2>3. \A w \in Views : Len(log[w]) \in Nat
    BY <1>1
  <2> QED BY <1>1, <2>1, <2>2, <2>3
<1>3. CASE Len(queue[v]) # 0
  <2> DEFINE q == queue[v]
             r == q[Len(q)]
             f == SubSeq(q, 1, Len(q) - 1)
  <2>1. /\ f \in Seq(Requests) /\ \A i \in 1 .. Len(f) : i \in 1 .. Len(q) /\ f[i] = q[i]
        /\ Len(q) \in 1 .. Len(q)
    BY <1>1, <1>3, QueueShrinks
  <2>2. log' = [log EXCEPT ![v] = Append(@, r)] /\ queue' = [queue EXCEPT ![v] = f]
    BY <1>3
  <2> HIDE DEF f
  <2>3. /\ queue' \in [Views -> Seq(Requests)] /\ queue'[v] = f
        /\ \A w \in Views \ {v} : queue'[w] = queue[w]
    BY <1>1, <2>1, <2>2
  <2>4. \A w \in Views : \A i \in 1 .. Len(queue[w]) : queue[w][i] \in requests
    BY DEF History, Prepared
  <2>5. \A w \in Views : \A i \in 1 .. Len(queue'[w]) : queue'[w][i] \in requests
    BY <2>1, <2>3, <2>4
  <2>6. r \in requests
    BY <2>1, <2>4
  <2> HIDE DEF r
  <2> QED BY <2>2, <2>3, <2>5, <2>6, LogGrows
<1> QED BY <1>2, <1>3

\* A primary executes an op.
LEMMA ExecuteStep ==
  ASSUME Types, NEW h, NEW n, History(h, n), NEW v \in Views, CommitExecute(v),
         v \notin stopped',
         NEW o, o = executed[v] + 1, NEW r, r = log[v][o]
  PROVE  Types' /\ \E m, k : History(m, k)'
<1>1. /\ v <= view /\ executed[v] < Len(log[v]) /\ executed[v] < kept[v]
      /\ UNCHANGED <<clients, requests, evictions>>
  BY DEF CommitExecute, clientVars
<1>0. ~Unexpected(table[v], r)
  <2>1. Unexpected(table[v], r) => stopped' = stopped \cup {v}
    BY DEF CommitExecute
  <2> QED BY <2>1
<1>2. /\ executed' = [executed EXCEPT ![v] = o]
      /\ table' = [table EXCEPT ![v] = Recorded(@, o, r)]
      /\ replies' = replies \cup {Reply(r, o, v)}
      /\ UNCHANGED <<view, kept>>
      /\ IF Len(queue[v]) = 0 THEN UNCHANGED <<log, queue>>
         ELSE /\ log' = [log EXCEPT ![v] = Append(@, queue[v][Len(queue[v])])]
              /\ queue' = [queue EXCEPT ![v] = SubSeq(@, 1, Len(queue[v]) - 1)]
  <2> DEFINE prepared == IF Len(queue[v]) = 0 THEN log[v]
                         ELSE Append(log[v], queue[v][Len(queue[v])])
             rest     == IF Len(queue[v]) = 0 THEN queue[v]
                         ELSE SubSeq(queue[v], 1, Len(queue[v]) - 1)
  <2>1. /\ log' = [log EXCEPT ![v] = prepared] /\ queue' = [queue EXCEPT ![v] = rest]
        /\ executed' = [executed EXCEPT ![v] = o]
        /\ table' = [table EXCEPT ![v] = Recorded(@, o, r)]
        /\ replies' = replies \cup {Reply(r, o, v)}
        /\ UNCHANGED <<view, kept>>
    BY DEF CommitExecute
  <2>2. log \in [Views -> Seq(Requests)] /\ queue \in [Views -> Seq(Requests)]
    BY DEF Types
  <2>3. CASE Len(queue[v]) = 0
    BY <2>1, <2>2, <2>3
  <2>4. CASE Len(queue[v]) # 0
    BY <2>1, <2>2, <2>4
  <2> QED BY <2>3, <2>4
<1>3. /\ log' \in [Views -> Seq(Requests)] /\ queue' \in [Views -> Seq(Requests)]
      /\ Logs' /\ Prepared'
      /\ \A w \in Views : /\ Len(log'[w]) \in Nat /\ Len(log[w]) \in Nat
                          /\ Len(log[w]) <= Len(log'[w])
                          /\ \A i \in 1 .. Len(log[w]) : log'[w][i] = log[w][i]
  BY <1>1, <1>2, Drains
<1>4. PICK m, k : /\ k \in Nat /\ n <= k /\ o <= k /\ k <= Len(log[view])
                  /\ \A j \in 0 .. n : m[j] = h[j]
                  /\ Past(log[view], m, k)
                  /\ m[o] = Recorded(table[v], o, r)
                  /\ k = n \/ k = o
  BY <1>0, <1>1, NextTable
<1>5. /\ o \in Nat /\ 1 <= o /\ o <= Len(log[v]) /\ o <= kept[v] /\ kept[v] \in Nat
      /\ executed[v] = o - 1 /\ n \in Nat
      /\ view \in Views /\ view \in Nat /\ v \in Nat /\ executed \in [Views -> Nat]
      /\ kept \in [Views -> Nat]
      /\ r \in requests /\ r \in Requests /\ r = log[view][o]
  <2>1. /\ o \in Nat /\ 1 <= o /\ o <= Len(log[v]) /\ o <= kept[v] /\ kept[v] \in Nat
        /\ executed[v] = o - 1 /\ n \in Nat /\ view \in Views /\ view \in Nat /\ v \in Nat
    <3>1. executed[v] \in Nat /\ Len(log[v]) \in Nat /\ kept[v] \in Nat /\ n \in Nat
          /\ view \in Views /\ view \in Nat /\ v \in Nat
      BY PrimaryAt
    <3> QED BY <1>1, <3>1
  <2>2. r = log[view][o] /\ o \in 1 .. Len(log[v])
    BY <1>1, NextOp
  <2>3. r \in requests
    BY <2>2 DEF History, Prepared
  <2> QED BY <2>1, <2>2, <2>3 DEF Types
<1>6. executed'[v] = o /\ \A w \in Views \ {v} : executed'[w] = executed[w]
  BY <1>2, <1>5
<1>7. ASSUME NEW w \in Views
      PROVE  /\ executed[w] \in Nat /\ executed'[w] \in Nat /\ executed[w] <= executed'[w]
             /\ executed'[w] <= k /\ executed'[w] <= kept[w] /\ executed'[w] <= Len(log'[w])
  <2> DEFINE a == Len(log[w])
             b == Len(log'[w])
  <2>1. a \in Nat /\ b \in Nat /\ a <= b
    BY <1>3
  <2>2. n \in Nat /\ k \in Nat /\ n <= k /\ o <= k /\ o \in Nat
    BY <1>4, <1>5
  <2>3. CASE w = v
    <3>1. /\ executed[w] = o - 1 /\ executed'[w] = o /\ o \in Nat /\ 1 <= o
          /\ o <= a /\ o <= kept[w]
      BY <1>5, <1>6, <2>3
    <3> HIDE DEF a, b
    <3>2. o - 1 \in Nat /\ o - 1 <= o /\ o <= b
      BY <2>1, <3>1
    <3> QED BY <2>2, <3>1, <3>2 DEF b
  <2>4. CASE w # v
    <3>1. executed[w] \in Nat /\ executed[w] <= n /\ executed[w] <= kept[w] /\ executed[w] <= a
      BY PrimaryAt
    <3>2. executed'[w] = executed[w]
      BY <1>6, <2>4
    <3> HIDE DEF a, b
    <3>3. executed[w] <= k /\ executed[w] <= b
      BY <2>1, <2>2, <3>1
    <3> QED BY <3>1, <3>2, <3>3 DEF b
  <2> QED BY <2>3, <2>4
<1>8. Executed(k)'
  <2>1. \E w \in Views : w <= view /\ executed'[w] = k
    <3>1. CASE k = o
      BY <1>1, <1>6, <3>1
    <3>2. CASE k # o
      <4>1. k = n /\ o <= n
        BY <1>4, <3>2
      <4>2. PICK w \in Views : w <= view /\ executed[w] = n
        BY DEF History, Executed
      <4>3. w # v
        BY <1>5, <4>1, <4>2
      <4> QED BY <1>6, <4>1, <4>2, <4>3
    <3> QED BY <3>1, <3>2
  <2> QED BY <1>2, <1>7, <2>1 DEF Executed
<1>9. \A i \in 1 .. Len(log[view]) : log'[view][i] = log[view][i]
  BY <1>3, <1>5
<1>10. Past(log'[view], m, k)
  <2>1. /\ log'[view] \in Seq(Requests) /\ k <= Len(log'[view])
        /\ \A i \in 1 .. k : log'[view][i] = log[view][i]
    <3> DEFINE a == Len(log[view])
               b == Len(log'[view])
    <3>1. b \in Nat /\ a \in Nat /\ a <= b /\ log'[view] \in Seq(Requests)
      BY <1>3, <1>5
    <3>2. k \in Nat /\ k <= a /\ \A i \in 1 .. a : log'[view][i] = log[view][i]
      BY <1>4, <1>9
    <3> HIDE DEF a, b
    <3>3. k <= b /\ \A i \in 1 .. k : log'[view][i] = log[view][i]
      BY <3>1, <3>2
    <3> QED BY <3>1, <3>3 DEF b
  <2> QED BY <1>4, <2>1, PastStays
<1>11. Onward(n, k)
  <2>1. \A i \in 1 .. n : log'[view][i] = log[view][i]
    <3>1. n <= Len(log[view]) /\ Len(log[view]) \in Nat
      BY PrimaryAt
    <3> QED BY <1>5, <1>9, <3>1
  <2>2. view' = view /\ UNCHANGED <<clients, requests>>
    BY <1>1, <1>2
  <2>3. n \in Nat /\ k \in Nat /\ n <= k /\ view \in Views /\ view <= view
    BY <1>4, <1>5
  <2>4. \A w \in Views : executed[w] \in Nat /\ executed'[w] \in Nat
                          /\ executed[w] <= executed'[w]
    BY <1>7
  <2> QED BY <2>1, <2>2, <2>3, <2>4 DEF Onward
<1>12. table' = [w \in Views |-> m[executed'[w]]]
  <2>1. table = [w \in Views |-> h[executed[w]]]
    BY DEF History
  <2>2. ASSUME NEW w \in Views
        PROVE  table'[w] = m[executed'[w]]
    <3>1. CASE w = v
      BY <1>2, <1>4, <1>6, <2>1, <3>1
    <3>2. CASE w # v
      <4>1. executed[w] \in 0 .. n
        BY PrimaryAt
      <4> QED BY <1>2, <1>4, <1>6, <2>1, <3>2, <4>1
    <3> QED BY <3>1, <3>2
  <2>3. table' = [w \in Views |-> table'[w]]
    BY <1>2, <2>1
  <2> QED BY <2>2, <2>3
<1>13. Replied(Reply(r, o, v), k)'
  <2>1. log'[view][o] = r
    <3>1. o \in 1 .. Len(log[view])
      BY <1>4, <1>5, PrimaryAt
    <3> QED BY <1>5, <1>9, <3>1
  <2> DEFINE x == Reply(r, o, v)
  <2>2. x.of = r /\ x.op = o /\ x.view = v
    BY DEF Reply
  <2>3. r \in requests' /\ r = log'[view'][o] /\ v <= view' /\ 1 <= o /\ o <= k /\ o <= executed'[v]
    BY <1>1, <1>2, <1>4, <1>5, <1>6, <2>1
  <2> HIDE DEF x
  <2>4. Replied(x, k)'
    BY <2>2, <2>3 DEF Replied
  <2> QED BY <2>4 DEF x
<1>14. History(m, k)'
  <2>1. \A x \in replies' : x \in replies \/ Replied(x, k)'
    <3> DEFINE y == Reply(r, o, v)
    <3>1. replies' = replies \cup {y} /\ Replied(y, k)'
      BY <1>2, <1>13
    <3> HIDE DEF y
    <3> QED BY <3>1
  <2>2. \A x \in evictions' : x \in evictions
    BY <1>1
  <2>3. Past(log[view], m, k)'
    BY <1>2, <1>10
  <2> QED BY <1>3, <1>4, <1>8, <1>11, <1>12, <2>1, <2>2, <2>3, Onwards
<1>15. Types'
  <2>1. Reply(r, o, v) \in [of : Requests, op : Nat, view : Views]
    BY <1>5 DEF Reply
  <2>2. executed' \in [Views -> Nat]
    BY <1>2, <1>5
  <2> QED BY <1>1, <1>2, <1>3, <2>1, <2>2 DEF Types
<1> QED BY <1>14, <1>15

\* It does, or an assertion stops the primary.
LEMMA CommitStep ==
  ASSUME Types, NEW h, NEW n, History(h, n), NEW v \in Views, CommitExecute(v)
  PROVE  Types' /\ \E m, k : History(m, k)'
<1>1. PICK o, r : o = executed[v] + 1 /\ r = log[v][o]
  OBVIOUS
<1>2. CASE v \in stopped'
  <2>1. UNCHANGED <<clientVars, primaryVars, replies, evictions>>
    BY <1>2 DEF CommitExecute
  <2>2. History(h, n)'
    BY <2>1, Speaks
  <2>3. Types'
    BY <2>1 DEF Types, clientVars, primaryVars
  <2> QED BY <2>2, <2>3
<1>3. CASE v \notin stopped'
  BY <1>1, <1>3, ExecuteStep
<1> QED BY <1>2, <1>3

\* The next primary starts with the log up to n, and has executed e of it.
LEMMA StartStep ==
  ASSUME Types, NEW h, NEW n, History(h, n), StartView
  PROVE  Types' /\ History(h, n)'
<1> DEFINE u == view + 1
           g == log[view]
<1>1. PICK l \in 0 .. Len(g), e \in 0 .. MaxOp :
        /\ view < MaxView
        /\ \A v \in 0 .. view : executed[v] <= l
        /\ \E v \in 0 .. view : e <= executed[v]
        /\ view' = u
        /\ log' = [log EXCEPT ![u] = SubSeq(g, 1, l)]
        /\ executed' = [executed EXCEPT ![u] = e]
        /\ table' = [table EXCEPT ![u] = TableAfter(g, e)]
        /\ kept' = [v \in Views |-> IF v <= view /\ l < kept[v] THEN l ELSE kept[v]]
        /\ UNCHANGED <<clients, requests, queue, replies, evictions>>
  BY DEF StartView, clientVars
<1>2. /\ view \in Views /\ view \in Nat /\ u \in Views /\ u \in Nat /\ u = view + 1
      /\ n \in Nat /\ n <= Len(g) /\ Len(g) \in Nat /\ g \in Seq(Requests)
      /\ l \in Nat /\ l <= Len(g) /\ e \in Nat /\ e <= MaxOp /\ MaxOp \in Nat
      /\ \A v \in Views : v \in Nat /\ (v \in 0 .. view <=> v <= view)
      /\ 0 .. view \subseteq Views
  <2>1. view \in Views /\ view \in Nat /\ n \in Nat /\ n <= Len(g) /\ Len(g) \in Nat /\ g \in Seq(Requests)
    BY PrimaryAt DEF Types
  <2>2. MaxView \in Nat /\ MaxOp \in Nat
    BY SessionsAssumption
  <2> QED BY <1>1, <2>1, <2>2 DEF Views
<1>3. \A v \in Views : executed[v] \in Nat /\ kept[v] \in Nat /\ executed[v] <= n /\ executed[v] <= kept[v]
                       /\ executed[v] <= Len(log[v]) /\ Len(log[v]) \in Nat
  BY PrimaryAt
<1>4. n <= l
  <2>1. PICK v \in Views : v <= view /\ executed[v] = n
    BY DEF History, Executed
  <2> QED BY <1>1, <1>2, <2>1
<1>5. e <= n /\ e <= l
  <2>1. PICK v \in 0 .. view : e <= executed[v]
    BY <1>1
  <2>2. v \in Views /\ executed[v] \in Nat /\ executed[v] <= n
    BY <1>2, <1>3, <2>1
  <2> QED BY <1>2, <1>4, <2>1, <2>2
<1> DEFINE f == SubSeq(g, 1, l)
<1>6. f \in Seq(Requests) /\ Len(f) = l /\ \A i \in 1 .. l : f[i] = g[i] /\ i \in 1 .. Len(g)
  <2>1. \A i \in 1 .. l : g[i] \in Requests /\ i \in 1 .. Len(g)
    BY <1>2
  <2>2. 1 \in Int /\ l \in Int
    BY <1>2
  <2>3. /\ SubSeq(g, 1, l) \in Seq(Requests)
        /\ Len(SubSeq(g, 1, l)) = IF 1 <= l THEN l - 1 + 1 ELSE 0
        /\ \A i \in 1 .. l - 1 + 1 : SubSeq(g, 1, l)[i] = g[1 + i - 1]
    BY <2>1, <2>2, SubSeqProperties
  <2> HIDE DEF g
  <2>4. /\ f \in Seq(Requests) /\ Len(f) = IF 1 <= l THEN l - 1 + 1 ELSE 0
        /\ \A i \in 1 .. l - 1 + 1 : f[i] = g[1 + i - 1]
    BY <2>3
  <2> HIDE DEF f
  <2>5. \A i \in 1 .. l : i \in 1 .. l - 1 + 1 /\ 1 + i - 1 = i
    BY <1>2
  <2>6. Len(f) = l
    BY <1>2, <2>4
  <2>7. \A i \in 1 .. l : f[i] = g[i]
    BY <2>4, <2>5
  <2> QED BY <2>1, <2>4, <2>6, <2>7
<1> HIDE DEF f
<1>7. log'[u] = f /\ log'[view'] = f /\ log' \in [Views -> Seq(Requests)]
      /\ \A v \in Views \ {u} : log'[v] = log[v]
  <2>1. log \in [Views -> Seq(Requests)] /\ log' = [log EXCEPT ![u] = f]
    BY <1>1 DEF Types, f
  <2> QED BY <1>1, <1>2, <1>6, <2>1
<1>8. executed'[u] = e /\ executed' \in [Views -> Nat] /\ \A v \in Views \ {u} : executed'[v] = executed[v]
  <2>1. executed \in [Views -> Nat]
    BY DEF Types
  <2> QED BY <1>1, <1>2, <2>1
<1>9. /\ kept' \in [Views -> Nat]
      /\ \A v \in Views : /\ kept'[v] <= kept[v]
                          /\ v <= view => kept'[v] <= l
                          /\ kept'[v] = l \/ kept'[v] = kept[v]
                          /\ v > view => kept'[v] = kept[v]
                          /\ l >= kept[v] => kept'[v] = kept[v]
                          /\ v <= view /\ l < kept[v] => kept'[v] = l
  <2>1. \A v \in Views : kept'[v] = IF v <= view /\ l < kept[v] THEN l ELSE kept[v]
    BY <1>1
  <2> QED BY <1>1, <1>2, <1>3, <2>1
<1>10. Past(f, h, n)
  <2>1. Past(g, h, n)
    BY DEF History
  <2>2. f \in Seq(Requests) /\ n <= Len(f) /\ \A i \in 1 .. n : f[i] = g[i]
    BY <1>2, <1>4, <1>6
  <2> QED BY <2>1, <2>2, PastStays
<1>11. Executed(n)'
  <2>1. ASSUME NEW v \in Views
        PROVE  executed'[v] <= n /\ executed'[v] <= kept'[v] /\ executed'[v] <= Len(log'[v])
    <3>1. CASE v = u
      <4>1. v > view /\ v >= view
        BY <1>2, <3>1
      <4>2. kept'[v] = MaxOp
        BY <1>9, <4>1 DEF History, Logs
      <4> QED BY <1>2, <1>5, <1>6, <1>7, <1>8, <3>1, <4>2
    <3>2. CASE v # u
      <4>1. executed'[v] = executed[v] /\ log'[v] = log[v]
        BY <1>7, <1>8, <3>2
      <4>2. executed[v] <= kept'[v]
        <5>1. executed[v] <= l
          BY <1>2, <1>3, <1>4
        <5> QED BY <1>3, <1>9, <5>1
      <4> QED BY <1>3, <4>1, <4>2
    <3> QED BY <3>1, <3>2
  <2>2. \E v \in Views : v <= view' /\ executed'[v] = n
    <3>1. PICK v \in Views : v <= view /\ executed[v] = n
      BY DEF History, Executed
    <3>2. v # u /\ v <= view'
      BY <1>1, <1>2, <3>1
    <3> QED BY <1>8, <3>1, <3>2
  <2> QED BY <2>1, <2>2 DEF Executed
<1>12. /\ \A x \in Views : kept[x] <= MaxOp /\ (x >= view => kept[x] = MaxOp)
       /\ \A x, w \in Views : x <= w => kept[x] <= kept[w]
       /\ \A x, w \in Views : x <= w /\ x < view /\ w <= view => kept[x] <= Len(log[w])
       /\ \A x \in Views : x <= view => \A i \in 1 .. Len(log[view]) :
            i <= kept[x] /\ i <= Len(log[x]) => log[x][i] = log[view][i]
  BY DEF History, Logs
<1>13. Logs'
  <2>1. \A x \in Views : kept'[x] <= MaxOp /\ (x >= view' => kept'[x] = MaxOp)
    BY <1>1, <1>2, <1>3, <1>9, <1>12
  <2>2. ASSUME NEW x \in Views, NEW w \in Views, x <= w
        PROVE  kept'[x] <= kept'[w]
    <3>1. x \in Nat /\ w \in Nat /\ kept[x] \in Nat /\ kept[w] \in Nat /\ kept[x] <= kept[w]
      BY <1>2, <1>3, <1>12, <2>2
    <3>2. CASE w <= view /\ l < kept[w]
      BY <1>2, <1>9, <2>2, <3>1, <3>2
    <3>3. CASE ~ (w <= view /\ l < kept[w])
      <4>1. kept'[w] = kept[w]
        BY <1>2, <1>9, <3>1, <3>3
      <4>2. kept'[x] <= kept[x] /\ kept'[x] \in Nat
        BY <1>9
      <4> QED BY <3>1, <4>1, <4>2
    <3> QED BY <3>2, <3>3
  <2>3. ASSUME NEW x \in Views, NEW w \in Views, x <= w, x < view', w <= view'
        PROVE  kept'[x] <= Len(log'[w])
    <3>1. x \in Nat /\ w \in Nat /\ x <= view /\ kept[x] \in Nat /\ kept'[x] \in Nat
          /\ kept'[x] <= l /\ kept'[x] <= kept[x]
      BY <1>1, <1>2, <1>3, <1>9, <2>3
    <3>2. CASE w = u
      BY <1>6, <1>7, <3>1, <3>2
    <3>3. CASE w # u
      <4>1. w <= view /\ log'[w] = log[w]
        BY <1>1, <1>2, <1>7, <2>3, <3>1, <3>3
      <4>2. CASE x < view
        <5>1. kept[x] <= Len(log[w])
          BY <1>12, <2>3, <4>1, <4>2
        <5> QED BY <1>3, <3>1, <4>1, <5>1
      <4>3. CASE x = view
        <5>1. w = view
          BY <1>2, <2>3, <3>1, <4>1, <4>3
        <5> QED BY <1>2, <3>1, <4>1, <5>1
      <4> QED BY <1>2, <3>1, <4>2, <4>3
    <3> QED BY <3>2, <3>3
  <2>4. ASSUME NEW x \in Views, x <= view', NEW i \in 1 .. Len(log'[view']),
               i <= kept'[x], i <= Len(log'[x])
        PROVE  log'[x][i] = log'[view'][i]
    <3>1. CASE x = u
      BY <1>7, <3>1
    <3>2. CASE x # u
      <4>1. x <= view /\ log'[x] = log[x] /\ kept'[x] \in Nat /\ kept[x] \in Nat /\ kept'[x] <= kept[x]
        BY <1>1, <1>2, <1>3, <1>7, <1>9, <2>4, <3>2
      <4>2. i \in 1 .. l
        BY <1>6, <1>7, <2>4
      <4>3. i \in 1 .. Len(log[view]) /\ f[i] = log[view][i] /\ i \in Nat
        BY <1>6, <4>2
      <4>4. i <= kept[x] /\ i <= Len(log[x])
        BY <2>4, <4>1, <4>3
      <4>5. log[x][i] = log[view][i]
        BY <1>12, <4>1, <4>3, <4>4
      <4> QED BY <1>7, <4>1, <4>3, <4>5
    <3> QED BY <3>1, <3>2
  <2> QED BY <2>1, <2>2, <2>3, <2>4 DEF Logs
<1>14. Prepared'
  <2>1. /\ \A w \in Views : /\ \A i \in 1 .. Len(log[w]) : log[w][i] \in requests
                            /\ \A i \in 1 .. Len(queue[w]) : queue[w][i] \in requests
        /\ \A i \in 1 .. Len(log[view]) : log[view][i].request >= 1 => log[view][i].session < i
    BY DEF History, Prepared
  <2>2. \A i \in 1 .. Len(f) : f[i] \in requests /\ (f[i].request >= 1 => f[i].session < i)
    BY <1>2, <1>6, <2>1
  <2>3. \A w \in Views : \A i \in 1 .. Len(log'[w]) : log'[w][i] \in requests
    BY <1>7, <2>1, <2>2
  <2> QED BY <1>1, <1>7, <2>1, <2>2, <2>3 DEF Prepared
<1>15. Onward(n, n)
  <2>1. \A i \in 1 .. n : log'[view'][i] = log[view][i]
    BY <1>2, <1>4, <1>6, <1>7
  <2>2. view <= view' /\ view' \in Views
    BY <1>1, <1>2
  <2>3. \A w \in Views : w <= view => executed[w] \in Nat /\ executed'[w] \in Nat
                                      /\ executed[w] <= executed'[w]
    BY <1>2, <1>3, <1>8
  <2>4. UNCHANGED <<clients, requests>> /\ view \in Views /\ n \in Nat /\ n <= n
    BY <1>1, <1>2
  <2> QED BY <2>1, <2>2, <2>3, <2>4 DEF Onward
<1>16. table' = [w \in Views |-> h[executed'[w]]]
  <2>1. table = [w \in Views |-> h[executed[w]]] /\ Past(g, h, n)
    BY DEF History
  <2>2. TableAfter(g, e) = h[e]
    BY <1>2, <1>5, <2>1, TableOfHistory
  <2>3. \A w \in Views : table'[w] = h[executed'[w]]
    BY <1>1, <1>8, <2>1, <2>2
  <2>4. table' = [w \in Views |-> table'[w]]
    BY <1>1, <2>1
  <2> QED BY <2>3, <2>4
<1>17. History(h, n)'
  <2>1. \A x \in replies' : x \in replies
    BY <1>1
  <2>2. \A x \in evictions' : x \in evictions
    BY <1>1
  <2>3. Past(log[view], h, n)'
    BY <1>7, <1>10
  <2> QED BY <1>11, <1>13, <1>14, <1>15, <1>16, <2>1, <2>2, <2>3, Onwards
<1>18. Types'
  BY <1>1, <1>2, <1>7, <1>8, <1>9 DEF Types
<1> QED BY <1>17, <1>18

-----------------------------------------------------------------------------
(* A client sends, and hears from the primaries *)

\* One client changes, and its requests.
LEMMA Moves ==
  ASSUME Types, NEW h, NEW n, History(h, n), NEW c \in Clients, NEW x \in ClientStates,
         clients' = [clients EXCEPT ![c] = x],
         requests \subseteq requests', requests' \subseteq Requests,
         \A q \in requests' : q \in requests \/ q.client = c,
         UNCHANGED <<primaryVars, replies, evictions>>,
         x.session = clients[c].session \/ clients[c].session = 0,
         ClientAt(c, n)', x.evicted => Ended(c, h, n)',
         \A q \in requests' : q.client = c => Sent(q)'
  PROVE  Types' /\ History(h, n)'
<1>1. /\ clients \in [Clients -> ClientStates] /\ clients' \in [Clients -> ClientStates]
      /\ clients'[c] = x /\ \A d \in Clients \ {c} : clients'[d] = clients[d]
  BY DEF Types
<1>2. UNCHANGED <<view, log, executed, table, queue, kept, replies, evictions>>
  BY DEF primaryVars
<1>3. ASSUME NEW d \in Clients, Ended(d, h, n)
      PROVE  Ended(d, h, n)'
  <2>1. clients[d].session >= 1
    BY <1>3 DEF Ended
  <2>2. clients'[d].session = clients[d].session
    BY <1>1, <2>1
  <2> QED BY <1>3, <2>2 DEF Ended
<1>4. ASSUME NEW d \in Clients
      PROVE  ClientAt(d, n)' /\ (clients'[d].evicted => Ended(d, h, n)')
  <2>1. CASE d = c
    BY <1>1, <2>1
  <2>2. CASE d # c
    <3>1. ClientAt(d, n) /\ (clients[d].evicted => Ended(d, h, n)) /\ clients'[d] = clients[d]
      BY <1>1, <2>2 DEF History
    <3>2. \A q \in requests' : q.client = d => q \in requests
      BY <2>2
    <3>3. ClientAt(d, n)'
      BY <1>2, <3>1, <3>2 DEF ClientAt, Known
    <3> QED BY <1>3, <3>1, <3>3
  <2> QED BY <2>1, <2>2
<1>5. ASSUME NEW q \in requests'
      PROVE  Sent(q)'
  <2>1. CASE q.client = c
    BY <2>1
  <2>2. CASE q.client # c
    <3>1. q \in requests /\ Sent(q) /\ q.client \in Clients
      BY <2>2, RequestFields DEF History
    <3>2. clients'[q.client] = clients[q.client]
      BY <1>1, <2>2, <3>1
    <3>3. \A p \in requests' : p.client = q.client => p \in requests
      BY <2>2
    <3> QED BY <1>2, <3>1, <3>2, <3>3 DEF Sent, Known
  <2> QED BY <2>1, <2>2
<1>6. ASSUME NEW m \in replies'
      PROVE  Replied(m, n)'
  <2>1. Replied(m, n)
    BY <1>2 DEF History
  <2> QED BY <1>2, <2>1 DEF Replied
<1>7. ASSUME NEW m \in evictions'
      PROVE  Ended(m.client, h, n)'
  <2>1. Ended(m.client, h, n) /\ m.client \in Clients
    BY <1>2 DEF History, Types
  <2> QED BY <1>3, <2>1
<1>8. Executed(n)' /\ Logs' /\ Past(log[view], h, n)' /\ (table = [v \in Views |-> h[executed[v]]])'
  BY <1>2 DEF History, Executed, Logs
<1>9. Prepared'
  BY <1>2 DEF History, Prepared
<1>10. Types'
  BY <1>1, <1>2 DEF Types
<1> QED BY <1>4, <1>5, <1>6, <1>7, <1>8, <1>9, <1>10 DEF History

\* A client sends its next request.
LEMMA SendStep ==
  ASSUME Types, NEW h, NEW n, History(h, n), NEW c \in Clients,
         clients[c].inflight = None, Send(c, Stamped(c))
  PROVE  Types' /\ History(h, n)'
<1>1. PICK k, r : k = clients[c] /\ r = Stamped(c)
  OBVIOUS
<1>2. /\ k \in ClientStates /\ k.request_number \in Nat /\ k.parent \in Nat /\ k.session \in Nat
      /\ k.view \in Views /\ k.evicted \in BOOLEAN /\ k.inflight = None
  BY <1>1, ClientFields
<1>3. /\ r \in Requests /\ r.client = c /\ r.request = k.request_number
      /\ r.session = k.session /\ r.parent = k.parent /\ r.view = k.view
  BY <1>1, <1>2 DEF Stamped, Requests
<1>4. r # None
  BY <1>3, NoneAssumption
<1> DEFINE x == [k EXCEPT !.request_number = @ + 1, !.inflight = r]
<1>5. /\ x \in ClientStates /\ x.request_number = k.request_number + 1 /\ x.inflight = r
      /\ x.session = k.session /\ x.parent = k.parent /\ x.view = k.view /\ x.evicted = k.evicted
  <2>1. k.request_number + 1 \in Nat /\ r \in Requests
    BY <1>2, <1>3
  <2>2. k \in ClientStates
    BY <1>2
  <2> QED BY <2>1, <2>2 DEF ClientStates
<1>6. /\ clients' = [clients EXCEPT ![c] = x] /\ requests' = requests \cup {r}
      /\ UNCHANGED <<primaryVars, replies, evictions>>
  <2>1. clients \in [Clients -> ClientStates]
    BY DEF Types
  <2> QED BY <1>1, <2>1 DEF Send
<1> HIDE DEF x
<1>7. clients'[c] = x
  BY <1>6 DEF Types
<1>8. UNCHANGED <<view, log, executed>>
  BY <1>6 DEF primaryVars
<1>9. ClientAt(c, n)
  BY DEF History
<1>10. /\ k.view <= view /\ \A q \in requests : q.client = c => q.request < k.request_number
       /\ IF Answered(k) < 0 THEN k.session = 0
          ELSE /\ 1 <= k.session /\ k.session <= k.parent /\ k.parent <= n
               /\ log[view][k.session].client = c /\ Registers(log[view][k.session])
               /\ log[view][k.parent].client = c /\ log[view][k.parent].request = Answered(k)
               /\ Known(k.session, k.view)
  BY <1>1, <1>9 DEF ClientAt
<1>11. Answered(x) = Answered(k) /\ Answered(k) = k.request_number - 1
  BY <1>2, <1>4, <1>5 DEF Answered
<1>12. requests \subseteq Requests /\ requests' \subseteq Requests
  BY <1>3, <1>6 DEF Types
<1>13. ClientAt(c, n)'
  <2>1. \A q \in requests' : q.client = c => q.request < x.request_number
    BY <1>2, <1>3, <1>5, <1>6, <1>10, <1>12, RequestFields
  <2>2. x.inflight \in requests' /\ x.inflight.client = c /\ x.inflight.request + 1 = x.request_number
        /\ x.inflight.session = x.session /\ x.inflight.parent = x.parent
    BY <1>3, <1>5, <1>6
  <2>3. Known(k.session, k.view) => \E w \in Views : w <= x.view /\ x.session <= executed'[w]
    BY <1>5, <1>8 DEF Known
  <2> QED BY <1>5, <1>7, <1>8, <1>10, <1>11, <2>1, <2>2, <2>3 DEF ClientAt, Known
<1>14. x.evicted => Ended(c, h, n)'
  <2>1. k.evicted => Ended(c, h, n)
    BY <1>1 DEF History
  <2>2. clients'[c].session = clients[c].session
    BY <1>1, <1>5, <1>7
  <2> QED BY <1>5, <2>1, <2>2 DEF Ended
<1>15. ASSUME NEW q \in requests', q.client = c
       PROVE  Sent(q)'
  <2>1. CASE q \in requests
    <3>1. Sent(q) /\ q.request < k.request_number /\ q.request \in Nat
      BY <1>10, <1>12, <1>15, <2>1, RequestFields DEF History
    <3>2. \A p \in requests' : p.client = q.client /\ p.request = q.request => p \in requests
      BY <1>2, <1>3, <1>6, <3>1
    <3>3. clients'[q.client].session = clients[q.client].session
      BY <1>1, <1>5, <1>7, <1>15
    <3> QED BY <1>8, <3>1, <3>2, <3>3 DEF Sent, Known
  <2>2. CASE q = r
    <3>1. \A p \in requests' : p.client = c /\ p.request = r.request => p = r
      BY <1>2, <1>3, <1>6, <1>10, <1>12, RequestFields
    <3>2. r.request >= 1 => k.session >= 1 /\ Known(k.session, k.view)
      BY <1>2, <1>3, <1>10, <1>11
    <3> QED BY <1>3, <1>5, <1>7, <1>8, <1>10, <2>2, <3>1, <3>2 DEF Sent, Known
  <2> QED BY <1>6, <2>1, <2>2
<1>16. \A q \in requests' : q \in requests \/ q.client = c
  BY <1>3, <1>6
<1> QED BY <1>1, <1>5, <1>6, <1>12, <1>13, <1>14, <1>15, <1>16, Moves

\* A client is answered.
LEMMA ReplyStep ==
  ASSUME Types, NEW h, NEW n, History(h, n), NEW c \in Clients, OnReply(c)
  PROVE  Types' /\ History(h, n)'
<1>1. PICK k, q : k = clients[c] /\ q = k.inflight
  OBVIOUS
<1>2. PICK m \in replies :
        /\ ~k.evicted /\ q # None
        /\ m.of.client = c /\ m.of.request = q.request
        /\ clients' = [clients EXCEPT ![c].inflight = None, ![c].parent = m.op,
                                      ![c].session = IF Registers(m.of) THEN m.op ELSE @,
                                      ![c].view = Later(@, m.view)]
        /\ UNCHANGED <<requests, primaryVars, replies, evictions, stopped>>
  BY <1>1 DEF OnReply
<1>3. /\ k \in ClientStates /\ k.request_number \in Nat /\ k.parent \in Nat /\ k.session \in Nat
      /\ k.view \in Views /\ k.evicted \in BOOLEAN
  BY <1>1, ClientFields
<1>4. /\ q \in requests /\ q \in Requests /\ q.client = c /\ q.request \in Nat
      /\ Answered(k) = q.request - 1
  BY <1>1, <1>2, Numbers
<1>5. /\ k.view <= view /\ q.request + 1 = k.request_number /\ q.session = k.session
      /\ \A r \in requests : r.client = c => r.request < k.request_number
      /\ IF Answered(k) < 0 THEN k.session = 0 ELSE 1 <= k.session /\ Known(k.session, k.view)
  <2>1. ClientAt(c, n)
    BY DEF History
  <2> QED BY <1>1, <1>2, <2>1 DEF ClientAt
<1>6. /\ m.op \in Nat /\ m.view \in Views /\ m.of \in Requests
      /\ m.view <= view /\ 1 <= m.op /\ m.op <= n /\ m.op <= executed[m.view]
      /\ m.of \in requests /\ m.of = log[view][m.op]
  <2>1. m.op \in Nat /\ m.view \in Views /\ m.of \in Requests
    BY DEF Types
  <2>2. Replied(m, n)
    BY DEF History
  <2> QED BY <2>1, <2>2 DEF Replied
<1>7. m.of = q
  <2>1. Sent(q)
    BY <1>4 DEF History
  <2> QED BY <1>2, <1>4, <1>6, <2>1 DEF Sent
<1> DEFINE x == [k EXCEPT !.inflight = None, !.parent = m.op,
                          !.session = IF Registers(q) THEN m.op ELSE @,
                          !.view = Later(@, m.view)]
<1>8. Later(k.view, m.view) \in Views /\ k.view <= Later(k.view, m.view)
      /\ m.view <= Later(k.view, m.view) /\ Later(k.view, m.view) <= view
  <2>1. k.view \in Nat /\ m.view \in Nat
    BY <1>3, <1>6 DEF Views
  <2> QED BY <1>3, <1>5, <1>6, <2>1 DEF Later
<1>9. /\ x \in ClientStates /\ x.request_number = k.request_number /\ x.inflight = None
      /\ x.session = (IF Registers(q) THEN m.op ELSE k.session) /\ x.parent = m.op
      /\ x.view = Later(k.view, m.view) /\ x.evicted = k.evicted
  BY <1>3, <1>6, <1>8 DEF ClientStates
<1>10. /\ clients' = [clients EXCEPT ![c] = x] /\ requests' = requests
       /\ UNCHANGED <<primaryVars, replies, evictions>>
  <2>1. clients \in [Clients -> ClientStates]
    BY DEF Types
  <2> QED BY <1>1, <1>2, <1>7, <2>1
<1> HIDE DEF x
<1>11. clients'[c] = x
  BY <1>10 DEF Types
<1>12. UNCHANGED <<view, log, executed>>
  BY <1>10 DEF primaryVars
<1>13. Answered(x) = q.request
  BY <1>3, <1>4, <1>5, <1>9 DEF Answered
<1>14. q.request >= 1 => k.session >= 1 /\ Known(k.session, k.view)
  BY <1>3, <1>4, <1>5
<1>15. ClientAt(c, n)'
  <2> DEFINE g == log[view]
  <2>1. g[m.op].client = c /\ g[m.op].request = q.request
    BY <1>4, <1>6, <1>7
  <2>2. CASE Registers(q)
    <3>1. Known(m.op, x.view)'
      BY <1>6, <1>8, <1>9, <1>12 DEF Known
    <3>2. x.session = m.op /\ x.parent = m.op /\ Registers(g[m.op])
      BY <1>6, <1>7, <1>9, <2>2
    <3>3. \E w \in Views : w <= x.view /\ x.session <= executed'[w]
      BY <1>6, <1>8, <1>9, <1>12, <3>2
    <3> QED BY <1>4, <1>5, <1>6, <1>8, <1>9, <1>10, <1>11, <1>12, <1>13, <2>1, <3>2, <3>3
            DEF ClientAt, Known
  <2>3. CASE ~Registers(q)
    <3>1. q.request >= 1 /\ k.session >= 1 /\ x.session = k.session
      BY <1>4, <1>9, <1>14, <2>3 DEF Registers
    <3>2. /\ k.session <= n /\ g[k.session].client = c /\ Registers(g[k.session])
          /\ Known(k.session, k.view)
      <4>1. n \in Nat /\ k.session \in Nat /\ k.parent \in Nat
        BY <1>3, PrimaryAt, <1>6
      <4> QED BY <1>1, <3>1, <4>1, InSessionAt
    <3>3. k.session <= m.op
      <4>1. m.op \in 1 .. Len(log[view])
        BY <1>6, PrimaryAt
      <4>2. log[view][m.op].session < m.op
        BY <1>6, <1>7, <3>1, <4>1 DEF History, Prepared
      <4> QED BY <1>3, <1>5, <1>6, <1>7, <4>2
    <3>4. \E w \in Views : w <= x.view /\ x.session <= executed'[w]
      <4>1. PICK w \in Views : w <= k.view /\ k.session <= executed[w]
        BY <3>2 DEF Known
      <4>2. w <= x.view
        <5>1. w \in Nat /\ k.view \in Nat /\ x.view \in Nat /\ k.view <= x.view
          BY <1>3, <1>8, <1>9 DEF Views
        <5> QED BY <4>1, <5>1
      <4> QED BY <1>12, <3>1, <4>1, <4>2
    <3> QED BY <1>4, <1>5, <1>6, <1>8, <1>9, <1>10, <1>11, <1>12, <1>13, <2>1, <3>1, <3>2, <3>3, <3>4
            DEF ClientAt, Known
  <2> QED BY <2>2, <2>3
<1>16. x.session = clients[c].session \/ clients[c].session = 0
  <2>1. CASE Registers(q)
    BY <1>1, <1>4, <1>5, <2>1 DEF Registers
  <2>2. CASE ~Registers(q)
    BY <1>1, <1>9, <2>2
  <2> QED BY <2>1, <2>2
<1>17. ASSUME NEW r \in requests', r.client = c
       PROVE  Sent(r)'
  <2>1. Sent(r) /\ r \in Requests /\ r \in requests
    BY <1>10 DEF History, Types
  <2>2. r.request \in Nat /\ r.request < q.request + 1
    BY <1>5, <1>17, <2>1, RequestFields
  <2>3. r.request >= 1 => x.session = k.session
    BY <1>4, <1>9, <2>2 DEF Registers
  <2> QED BY <1>1, <1>10, <1>11, <1>12, <1>17, <2>1, <2>3 DEF Sent, Known
<1>18. ~x.evicted
  BY <1>2, <1>9
<1>19. requests \subseteq requests' /\ requests' \subseteq Requests
  BY <1>10 DEF Types
<1> QED BY <1>9, <1>10, <1>15, <1>16, <1>17, <1>18, <1>19, Moves

\* A client is evicted.
LEMMA EvictionStep ==
  ASSUME Types, NEW h, NEW n, History(h, n), NEW c \in Clients, OnEviction(c)
  PROVE  Types' /\ History(h, n)'
<1>1. PICK k : k = clients[c]
  OBVIOUS
<1>2. PICK m \in evictions :
        /\ m.client = c /\ clients' = [clients EXCEPT ![c].evicted = TRUE]
        /\ UNCHANGED <<requests, primaryVars, replies, evictions, stopped>>
  BY DEF OnEviction
<1>3. k \in ClientStates /\ clients \in [Clients -> ClientStates]
  BY <1>1, ClientFields DEF Types
<1> DEFINE x == [k EXCEPT !.evicted = TRUE]
<1>4. /\ x \in ClientStates /\ x.request_number = k.request_number /\ x.inflight = k.inflight
      /\ x.session = k.session /\ x.parent = k.parent /\ x.view = k.view
  BY <1>3 DEF ClientStates
<1>5. clients' = [clients EXCEPT ![c] = x]
  BY <1>1, <1>2, <1>3
<1> HIDE DEF x
<1>6. clients'[c] = x
  BY <1>3, <1>5
<1>7. UNCHANGED <<view, log, executed, requests, replies, evictions>> /\ UNCHANGED primaryVars
  BY <1>2 DEF primaryVars
<1>8. Answered(x) = Answered(k)
  BY <1>4 DEF Answered
<1>9. ClientAt(c, n)'
  <2>1. ClientAt(c, n)
    BY DEF History
  <2> QED BY <1>1, <1>4, <1>6, <1>7, <1>8, <2>1 DEF ClientAt, Known
<1>10. Ended(c, h, n)'
  <2>1. Ended(c, h, n)
    BY <1>2 DEF History
  <2> QED BY <1>1, <1>4, <1>6, <2>1 DEF Ended
<1>11. ASSUME NEW r \in requests', r.client = c
       PROVE  Sent(r)'
  <2>1. Sent(r)
    BY <1>7 DEF History
  <2> QED BY <1>1, <1>4, <1>6, <1>7, <1>11, <2>1 DEF Sent, Known
<1>12. requests \subseteq requests' /\ requests' \subseteq Requests
  BY <1>7 DEF Types
<1> QED BY <1>1, <1>4, <1>5, <1>7, <1>9, <1>10, <1>11, <1>12, Moves

\* A client hears of a view.
LEMMA PongStep ==
  ASSUME Types, NEW h, NEW n, History(h, n), NEW c \in Clients, OnPongClient(c)
  PROVE  Types' /\ History(h, n)'
<1>1. PICK k : k = clients[c]
  OBVIOUS
<1>2. PICK v \in 0 .. view :
        /\ ~k.evicted /\ v > k.view /\ clients' = [clients EXCEPT ![c].view = v]
        /\ UNCHANGED <<requests, primaryVars, replies, evictions, stopped>>
  BY <1>1 DEF OnPongClient
<1>3. /\ k \in ClientStates /\ k.view \in Views /\ clients \in [Clients -> ClientStates]
      /\ view \in Views
  BY <1>1, ClientFields DEF Types
<1>4. v \in Views /\ v <= view /\ k.view <= v
  <2>1. MaxView \in Nat
    BY SessionsAssumption
  <2> QED BY <1>2, <1>3, <2>1 DEF Views
<1> DEFINE x == [k EXCEPT !.view = v]
<1>5. /\ x \in ClientStates /\ x.request_number = k.request_number /\ x.inflight = k.inflight
      /\ x.session = k.session /\ x.parent = k.parent /\ x.view = v /\ x.evicted = k.evicted
  BY <1>3, <1>4 DEF ClientStates
<1>6. clients' = [clients EXCEPT ![c] = x]
  BY <1>1, <1>2, <1>3
<1> HIDE DEF x
<1>7. clients'[c] = x
  BY <1>3, <1>6
<1>8. UNCHANGED <<view, log, executed, requests, replies, evictions>> /\ UNCHANGED primaryVars
  BY <1>2 DEF primaryVars
<1>9. Answered(x) = Answered(k)
  BY <1>5 DEF Answered
<1>10. ClientAt(c, n)'
  <2>1. ClientAt(c, n)
    BY DEF History
  <2>2. Known(k.session, k.view) => \E w \in Views : w <= x.view /\ x.session <= executed'[w]
    <3>1. ASSUME NEW w \in Views, w <= k.view
          PROVE  w <= x.view
      BY <1>3, <1>4, <1>5, <3>1 DEF Views
    <3> QED BY <1>5, <1>8, <3>1 DEF Known
  <2> QED BY <1>1, <1>4, <1>5, <1>7, <1>8, <1>9, <2>1, <2>2 DEF ClientAt, Known
<1>11. ~x.evicted
  BY <1>2, <1>5
<1>12. ASSUME NEW r \in requests', r.client = c
       PROVE  Sent(r)'
  <2>1. Sent(r)
    BY <1>8 DEF History
  <2> QED BY <1>1, <1>5, <1>7, <1>8, <1>12, <2>1 DEF Sent, Known
<1>13. requests \subseteq requests' /\ requests' \subseteq Requests
  BY <1>8 DEF Types
<1> QED BY <1>1, <1>5, <1>6, <1>8, <1>10, <1>11, <1>12, <1>13, Moves

-----------------------------------------------------------------------------
(* Theorems *)

\* Init: nothing was executed, and no client has a session.
LEMMA Starts == Init => IInv
<1> SUFFICES ASSUME Init PROVE IInv
  OBVIOUS
<1>1. view = 0 /\ 0 \in Views /\ view \in Views /\ MaxOp \in Nat
  BY SessionsAssumption DEF Init, Views
<1>2. << >> \in Seq(Requests) /\ Len(<< >>) = 0
  OBVIOUS
<1>3. Types
  <2>1. clients \in [Clients -> ClientStates]
    BY <1>1 DEF Init, ClientStates
  <2>2. log \in [Views -> Seq(Requests)] /\ queue \in [Views -> Seq(Requests)]
    BY <1>2 DEF Init
  <2> QED BY <1>1, <2>1, <2>2 DEF Init, Types
<1> DEFINE h == [i \in {0} |-> << >>]
<1>4. h[0] = << >>
  OBVIOUS
<1> HIDE DEF h
<1>5. Past(log[view], h, 0)
  <2>1. log[view] = << >> /\ 1 .. 0 = {} /\ 0 .. 0 = {0} /\ DOMAIN h[0] = {}
    BY <1>1, <1>4 DEF Init
  <2> QED BY <1>2, <1>4, <2>1 DEF Past
<1>6. table = [v \in Views |-> h[executed[v]]]
  BY <1>4 DEF Init
<1>7. Executed(0) /\ Logs
  <2>1. \A v \in Views : executed[v] = 0 /\ kept[v] = MaxOp /\ Len(log[v]) = 0 /\ v \in Nat
    BY <1>2 DEF Init, Views
  <2>2. Executed(0)
    BY <1>1, <2>1 DEF Executed
  <2>3. \A v \in Views : ~ (v < view)
    BY <1>1, <2>1
  <2>4. 1 .. Len(log[view]) = {}
    BY <1>1, <2>1
  <2> QED BY <1>1, <2>1, <2>2, <2>3, <2>4 DEF Logs
<1>8. Prepared
  <2>1. \A v \in Views : Len(log[v]) = 0 /\ Len(queue[v]) = 0
    BY <1>2 DEF Init
  <2>2. 1 .. 0 = {}
    OBVIOUS
  <2> QED BY <1>1, <2>1, <2>2 DEF Prepared
<1>9. \A c \in Clients : ClientAt(c, 0) /\ ~clients[c].evicted
  BY <1>1 DEF Init, ClientAt, Answered
<1>10. requests = {} /\ replies = {} /\ evictions = {}
  BY DEF Init
<1>11. History(h, 0)
  BY <1>5, <1>6, <1>7, <1>8, <1>9, <1>10 DEF History
<1> QED BY <1>3, <1>11 DEF IInv

\* A step keeps the invariant.
LEMMA EveryStep == IInv /\ [Next]_vars => IInv'
<1> SUFFICES ASSUME Types, NEW h, NEW n, History(h, n), [Next]_vars
             PROVE  Types' /\ \E m, k : History(m, k)'
  BY DEF IInv
<1>1. ASSUME NEW c \in Clients, ClientStep(c)
      PROVE  Types' /\ History(h, n)'
  <2>1. CASE Register(c)
    <3>1. clients[c].inflight = None
      <4>1. ClientAt(c, n)
        BY DEF History
      <4>2. clients[c].inflight # None => clients[c].inflight.request \in Nat
        BY Numbers
      <4> QED BY <2>1, <4>1, <4>2 DEF Register, ClientAt
    <3> QED BY <2>1, <3>1, SendStep DEF Register
  <2>2. CASE RawRequest(c)
    BY <2>2, SendStep DEF RawRequest
  <2> QED BY <1>1, <2>1, <2>2, ReplyStep, EvictionStep, PongStep DEF ClientStep
<1>2. ASSUME NEW v \in Views, PrimaryStep(v)
      PROVE  Types' /\ \E m, k : History(m, k)'
  BY <1>2, RequestStep, CommitStep, PingStep DEF PrimaryStep
<1>3. CASE StartView
  BY <1>3, StartStep
<1>4. CASE UNCHANGED vars
  <2>1. UNCHANGED <<clientVars, primaryVars, replies, evictions>>
    BY <1>4 DEF vars
  <2>2. History(h, n)'
    BY <2>1, Speaks
  <2>3. Types'
    BY <2>1 DEF Types, clientVars, primaryVars
  <2> QED BY <2>2, <2>3
<1> QED BY <1>1, <1>2, <1>3, <1>4 DEF Next

\* In every state there is a history of tables that explains what the primaries,
\* the clients and the messages between them hold.
THEOREM Invariance == Spec => []IInv
<1> QED BY Starts, EveryStep, PTL DEF Spec

\* SessionFollowsClient: a table and a client that share a session agree on
\* its last reply, or the table has answered the request in flight.
THEOREM SessionsAgree == Spec => []SessionFollowsClient
<1>1. IInv => SessionFollowsClient
  BY Follows DEF IInv
<1> QED BY <1>1, Invariance, PTL

\* EvictedHasNoSession: no client whose session is alive is told to stop.
THEOREM EvictionIsFinal == Spec => []EvictedHasNoSession
<1>1. IInv => EvictedHasNoSession
  BY EvictedFollows DEF IInv
<1> QED BY <1>1, Invariance, PTL

\* RequestIsServed: a primary that has executed what it prepared has an answer
\* to every request in flight.
THEOREM RequestsAreServed == Spec => []RequestIsServed
<1>1. IInv => RequestIsServed
  BY Served DEF IInv
<1> QED BY <1>1, Invariance, PTL
=============================================================================
