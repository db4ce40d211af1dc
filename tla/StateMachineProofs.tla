------------------------- MODULE StateMachineProofs -------------------------
(* The ledger of the databases and what the batches and the pulse do to the *)
(* stores, for every instance of the constants.                             *)
(*                                                                          *)
(* The first part is about one database: what a created transfer, a post, a *)
(* void and an expiry do to the balances.  A balance is the sum of what the *)
(* transfers say, so the proof needs that a sum over a finite set grows and *)
(* shrinks by one element at a time; the rest is arithmetic on the two      *)
(* accounts that an event touches.                                          *)
(*                                                                          *)
(* In the second part the persist walk only sees the results of a batch;    *)
(* that it writes what execution decided rests on a history of the          *)
(* databases between the committed stores and the caches, one for every     *)
(* result.                                                                  *)
EXTENDS StateMachine, Extremes, TLAPS

-----------------------------------------------------------------------------
(* Sums *)

Pick(s) == CHOOSE x \in s : TRUE

\* f sums the amounts of every subset of S.
Sums(f, t, S) ==
  f = [s \in SUBSET S |-> IF s = {} THEN 0 ELSE t[Pick(s)].amount + f[s \ {Pick(s)}]]

\* The total of S is what such a function says of S.
LEMMA TotalIsChosen ==
  ASSUME NEW t, NEW S
  PROVE  Total(t, S) = (CHOOSE f : Sums(f, t, S))[S]
BY DEF Total, MapThenSumSet, MapThenFoldSet, Sums, Pick

\* A property of the empty set that passes from the proper subsets of a finite
\* set to the set holds of all of them.
LEMMA SetInduction ==
  ASSUME NEW S, IsFiniteSet(S), NEW P, P \subseteq SUBSET S,
         \A s \in SUBSET S : (\A u \in SUBSET s : u # s => u \in P) => s \in P
  PROVE  P = SUBSET S
<1> DEFINE T == (SUBSET S) \ P
           R == StrictSubsetOrdering(S)
<1> SUFFICES ASSUME T # {} PROVE FALSE
  OBVIOUS
<1>1. IsWellFoundedOn(R, FiniteSubsetsOf(S))
  BY FS_StrictSubsetOrderingWellFounded
<1>2. T \subseteq FiniteSubsetsOf(S)
  BY FS_Subset DEF FiniteSubsetsOf
<1>3. \E x \in T : \A y \in T : ~ (<<y, x>> \in R)
  <2> HIDE DEF T, R
  <2> QED BY <1>1, <1>2, WFMin
<1>4. PICK s \in T : \A y \in T : ~ (<<y, s>> \in R)
  BY <1>3
<1>5. ASSUME NEW u \in SUBSET s, u # s, u \notin P
      PROVE  FALSE
  <2>1. u \in T
    BY <1>5
  <2>2. <<u, s>> \in R
    BY <1>5, <2>1 DEF StrictSubsetOrdering
  <2> QED BY <2>1, <2>2, <1>4
<1>6. s \in SUBSET S /\ s \notin P
  OBVIOUS
<1>7. \A u \in SUBSET s : u # s => u \in P
  BY <1>5
<1> QED BY <1>6, <1>7

\* Two such functions agree where both are defined.
LEMMA SumsAgree ==
  ASSUME NEW t, NEW S, IsFiniteSet(S), NEW T \in SUBSET S, NEW f, NEW g,
         Sums(f, t, S), Sums(g, t, T)
  PROVE  \A s \in SUBSET T : f[s] = g[s]
<1> DEFINE P == {s \in SUBSET T : f[s] = g[s]}
<1>1. IsFiniteSet(T)
  BY FS_Subset
<1>2. ASSUME NEW s \in SUBSET T, \A u \in SUBSET s : u # s => u \in P
      PROVE  s \in P
  <2>1. CASE s = {}
    <3>1. f[s] = 0 /\ g[s] = 0
      BY <2>1 DEF Sums
    <3> QED BY <3>1
  <2>2. CASE s # {}
    <3>1. Pick(s) \in s
      BY <2>2 DEF Pick
    <3>2. s \ {Pick(s)} \in P
      BY <3>1, <1>2
    <3>3. f[s] = t[Pick(s)].amount + f[s \ {Pick(s)}]
      BY <2>2 DEF Sums
    <3>4. g[s] = t[Pick(s)].amount + g[s \ {Pick(s)}]
      BY <2>2 DEF Sums
    <3> QED BY <3>2, <3>3, <3>4
  <2> QED BY <2>1, <2>2
<1>3. P = SUBSET T
  <2>1. P \subseteq SUBSET T
    OBVIOUS
  <2> HIDE DEF P
  <2> QED BY <1>1, <1>2, <2>1, SetInduction
<1> QED BY <1>3

\* There is one for every finite set, and it says what Total says.
LEMMA SumsExist ==
  ASSUME NEW t, NEW S, IsFiniteSet(S)
  PROVE  \E f : Sums(f, t, S)
<1> DEFINE P == {s \in SUBSET S : \E f : Sums(f, t, s)}
<1>1. ASSUME NEW s \in SUBSET S, \A u \in SUBSET s : u # s => u \in P
      PROVE  s \in P
  <2> DEFINE g == [u \in SUBSET s |-> IF u = {} THEN 0
                                      ELSE t[Pick(u)].amount + Total(t, u \ {Pick(u)})]
  <2>1. IsFiniteSet(s)
    BY FS_Subset
  <2>2. ASSUME NEW u \in SUBSET s, u # s
        PROVE  Total(t, u) = g[u]
    <3>1. IsFiniteSet(u)
      BY <2>1, FS_Subset
    <3> DEFINE f == CHOOSE f : Sums(f, t, u)
    <3>2. Sums(f, t, u)
      BY <2>2, <1>1
    <3>3. Total(t, u) = f[u]
      BY TotalIsChosen
    <3>4. CASE u = {}
      <4>1. f[u] = 0
        BY <3>2, <3>4 DEF Sums
      <4> QED BY <4>1, <3>3, <3>4
    <3>5. CASE u # {}
      <4> DEFINE w == u \ {Pick(u)}
      <4>1. Pick(u) \in u
        BY <3>5 DEF Pick
      <4>2. w \in SUBSET s /\ w # s /\ w \in SUBSET u
        BY <4>1
      <4>3. PICK h : Sums(h, t, w)
        BY <4>2, <1>1
      <4>4. Sums(CHOOSE k : Sums(k, t, w), t, w)
        BY <4>3
      <4>5. f[w] = (CHOOSE k : Sums(k, t, w))[w]
        BY <3>1, <3>2, <4>2, <4>4, SumsAgree
      <4>6. f[w] = Total(t, w)
        BY <4>5, TotalIsChosen
      <4>7. f[u] = t[Pick(u)].amount + f[w]
        BY <3>2, <3>5 DEF Sums
      <4>8. g[u] = t[Pick(u)].amount + Total(t, w)
        BY <3>5
      <4> QED BY <3>3, <4>6, <4>7, <4>8
    <3> QED BY <3>4, <3>5
  <2>3. ASSUME NEW u \in SUBSET s, u # {}
        PROVE  Total(t, u \ {Pick(u)}) = g[u \ {Pick(u)}]
    <3>1. Pick(u) \in u
      BY <2>3 DEF Pick
    <3>2. u \ {Pick(u)} \in SUBSET s /\ u \ {Pick(u)} # s
      BY <3>1
    <3> HIDE DEF g
    <3> QED BY <3>2, <2>2
  <2>4. g = [u \in SUBSET s |-> IF u = {} THEN 0 ELSE t[Pick(u)].amount + g[u \ {Pick(u)}]]
    BY <2>3
  <2>5. Sums(g, t, s)
    <3> HIDE DEF g
    <3> QED BY <2>4 DEF Sums
  <2> QED BY <2>5
<1>2. P = SUBSET S
  <2>1. P \subseteq SUBSET S
    OBVIOUS
  <2> HIDE DEF P
  <2> QED BY <1>1, <2>1, SetInduction
<1>3. S \in P
  <2> HIDE DEF P
  <2> QED BY <1>2
<1> QED BY <1>3

\* Total unfolds.
LEMMA TotalUnfolds ==
  ASSUME NEW t, NEW S, IsFiniteSet(S)
  PROVE  Total(t, S) = IF S = {} THEN 0 ELSE t[Pick(S)].amount + Total(t, S \ {Pick(S)})
<1> DEFINE f == CHOOSE f : Sums(f, t, S)
           w == S \ {Pick(S)}
<1>1. Sums(f, t, S)
  BY SumsExist
<1>2. Total(t, S) = f[S]
  BY TotalIsChosen
<1>3. f[S] = IF S = {} THEN 0 ELSE t[Pick(S)].amount + f[w]
  <2> HIDE DEF f
  <2> QED BY <1>1 DEF Sums
<1>4. f[w] = Total(t, w)
  <2>1. IsFiniteSet(w)
    BY FS_Subset
  <2>2. Sums(CHOOSE k : Sums(k, t, w), t, w)
    BY <2>1, SumsExist
  <2>3. f[w] = (CHOOSE k : Sums(k, t, w))[w]
    <3>1. w \in SUBSET S /\ w \in SUBSET w
      OBVIOUS
    <3> HIDE DEF f, w
    <3> QED BY <1>1, <2>2, <3>1, SumsAgree
  <2> QED BY <2>3, TotalIsChosen
<1> QED BY <1>2, <1>3, <1>4

\* What Total says of the empty set, that it is a number, and how one element counts.
LEMMA TotalEmpty ==
  ASSUME NEW t
  PROVE  Total(t, {}) = 0
BY FS_EmptySet, TotalUnfolds

\* The total of amounts, all of them natural numbers, is a natural number.
LEMMA TotalIsNat ==
  ASSUME NEW t, NEW S, IsFiniteSet(S), \A i \in S : t[i].amount \in Nat
  PROVE  Total(t, S) \in Nat
<1> DEFINE P == {s \in SUBSET S : Total(t, s) \in Nat}
<1>1. ASSUME NEW s \in SUBSET S, \A u \in SUBSET s : u # s => u \in P
      PROVE  s \in P
  <2>1. IsFiniteSet(s)
    BY FS_Subset
  <2>2. CASE s = {}
    BY <2>2, TotalEmpty
  <2>3. CASE s # {}
    <3>1. Pick(s) \in s
      BY <2>3 DEF Pick
    <3>2. s \ {Pick(s)} \in P
      BY <3>1, <1>1
    <3>3. t[Pick(s)].amount \in Nat
      BY <3>1
    <3>4. Total(t, s) = t[Pick(s)].amount + Total(t, s \ {Pick(s)})
      BY <2>1, <2>3, TotalUnfolds
    <3> QED BY <3>2, <3>3, <3>4
  <2> QED BY <2>2, <2>3
<1>2. P = SUBSET S
  <2>1. P \subseteq SUBSET S
    OBVIOUS
  <2> HIDE DEF P
  <2> QED BY <1>1, <2>1, SetInduction
<1>3. S \in P
  <2> HIDE DEF P
  <2> QED BY <1>2
<1> QED BY <1>3

\* One element of S counts its own amount, whichever element CHOOSE takes first.
LEMMA TotalRemove ==
  ASSUME NEW t, NEW S, IsFiniteSet(S), \A i \in S : t[i].amount \in Nat, NEW x \in S
  PROVE  Total(t, S) = t[x].amount + Total(t, S \ {x})
<1> DEFINE P == {s \in SUBSET S : \A y \in s : Total(t, s) = t[y].amount + Total(t, s \ {y})}
<1>1. ASSUME NEW s \in SUBSET S, \A u \in SUBSET s : u # s => u \in P, NEW y \in s
      PROVE  Total(t, s) = t[y].amount + Total(t, s \ {y})
  <2> DEFINE c == Pick(s)
  <2>1. c \in s
    BY DEF Pick
  <2>2. Total(t, s) = t[c].amount + Total(t, s \ {c})
    BY FS_Subset, TotalUnfolds
  <2>3. CASE y = c
    BY <2>2, <2>3
  <2>4. CASE y # c
    <3> HIDE DEF c
    <3>1. s \ {c} \in P /\ y \in s \ {c}
      BY <1>1, <2>1, <2>4
    <3>2. Total(t, s \ {c}) = t[y].amount + Total(t, (s \ {c}) \ {y})
      BY <3>1
    <3>3. s \ {y} \in P /\ c \in s \ {y}
      BY <1>1, <2>1, <2>4
    <3>4. Total(t, s \ {y}) = t[c].amount + Total(t, (s \ {y}) \ {c})
      BY <3>3
    <3>5. (s \ {c}) \ {y} = (s \ {y}) \ {c}
      OBVIOUS
    <3>6. t[y].amount \in Nat /\ t[c].amount \in Nat
      BY <2>1
    <3>7. Total(t, (s \ {y}) \ {c}) \in Nat
      <4>1. IsFiniteSet((s \ {y}) \ {c})
        BY FS_Subset
      <4> QED BY <4>1, TotalIsNat
    <3>8. \A n, k, m \in Nat : k + (m + n) = m + (k + n)
      OBVIOUS
    <3>9. Total(t, s) = t[c].amount + (t[y].amount + Total(t, (s \ {y}) \ {c}))
      BY <2>2, <3>2, <3>5
    <3>10. t[y].amount + Total(t, s \ {y}) = t[y].amount + (t[c].amount + Total(t, (s \ {y}) \ {c}))
      BY <3>4
    <3> QED BY <3>6, <3>7, <3>8, <3>9, <3>10
  <2> QED BY <2>3, <2>4
<1>2. P = SUBSET S
  <2>1. P \subseteq SUBSET S
    OBVIOUS
  <2>2. ASSUME NEW s \in SUBSET S, \A u \in SUBSET s : u # s => u \in P
        PROVE  s \in P
    <3>1. \A y \in s : Total(t, s) = t[y].amount + Total(t, s \ {y})
      BY <2>2, <1>1
    <3> QED BY <3>1
  <2> HIDE DEF P
  <2> QED BY <2>2, <2>1, SetInduction
<1>3. S \in P
  <2> HIDE DEF P
  <2> QED BY <1>2
<1> QED BY <1>3

\* ... and so the total of a set grows by the amount of what is added to it.
LEMMA TotalAdd ==
  ASSUME NEW t, NEW S, IsFiniteSet(S), \A i \in S : t[i].amount \in Nat,
         NEW x, x \notin S, t[x].amount \in Nat
  PROVE  Total(t, S \cup {x}) = Total(t, S) + t[x].amount
<1>1. IsFiniteSet(S \cup {x})
  BY FS_AddElement
<1>2. Total(t, S \cup {x}) = t[x].amount + Total(t, (S \cup {x}) \ {x})
  BY <1>1, TotalRemove
<1>3. (S \cup {x}) \ {x} = S
  OBVIOUS
<1>4. \A n, k \in Nat : n + k = k + n
  OBVIOUS
<1>5. Total(t, S) \in Nat
  BY TotalIsNat
<1> QED BY <1>2, <1>3, <1>4, <1>5

\* Only the amounts of the elements count.
LEMMA TotalSame ==
  ASSUME NEW t, NEW u, NEW S, IsFiniteSet(S), \A i \in S : t[i].amount = u[i].amount
  PROVE  Total(t, S) = Total(u, S)
<1> DEFINE P == {s \in SUBSET S : Total(t, s) = Total(u, s)}
<1>1. ASSUME NEW s \in SUBSET S, \A w \in SUBSET s : w # s => w \in P
      PROVE  s \in P
  <2>1. IsFiniteSet(s)
    BY FS_Subset
  <2>2. CASE s = {}
    BY <2>2, TotalEmpty
  <2>3. CASE s # {}
    <3>1. Pick(s) \in s
      BY <2>3 DEF Pick
    <3>2. s \ {Pick(s)} \in P
      BY <3>1, <1>1
    <3>3. t[Pick(s)].amount = u[Pick(s)].amount
      BY <3>1
    <3>4. Total(t, s) = t[Pick(s)].amount + Total(t, s \ {Pick(s)})
      BY <2>1, <2>3, TotalUnfolds
    <3>5. Total(u, s) = u[Pick(s)].amount + Total(u, s \ {Pick(s)})
      BY <2>1, <2>3, TotalUnfolds
    <3> QED BY <3>2, <3>3, <3>4, <3>5
  <2> QED BY <2>2, <2>3
<1>2. P = SUBSET S
  <2>1. P \subseteq SUBSET S
    OBVIOUS
  <2> HIDE DEF P
  <2> QED BY <1>1, <2>1, SetInduction
<1>3. S \in P
  <2> HIDE DEF P
  <2> QED BY <1>2
<1> QED BY <1>3

-----------------------------------------------------------------------------
(* The invariant of a database *)

\* The balances of both sides of an account stay in range.
InRange(account) ==
  /\ account.debits_pending + account.debits_posted <= AmountMax
  /\ account.credits_pending + account.credits_posted <= AmountMax

\* The account that a hold closes on its debit or credit side.
ClosesDebit(db, i, a)  == db.transfers[i].dr = a /\ "closing_debit" \in db.transfers[i].flags
ClosesCredit(db, i, a) == db.transfers[i].cr = a /\ "closing_credit" \in db.transfers[i].flags
Closes(db, i, a)       == ClosesDebit(db, i, a) \/ ClosesCredit(db, i, a)

\* An account that a hold closes is closed, and no other hold closes it.
ClosedByHolds(db) ==
  \A i \in Held(db), a \in Accounts : Closes(db, i, a) =>
    /\ Closed(db.accounts[a])
    /\ \A j \in Held(db) : Closes(db, j, a) => j = i

Ledger(db) ==
  /\ DbOK(db)
  /\ ResolvedOnceIn(db)
  /\ BalancesAre(db)
  /\ \A a \in Stored(db.accounts) : InRange(db.accounts[a]) /\ Limited(db.accounts[a])
  /\ ClosedByHolds(db)

-----------------------------------------------------------------------------
(* Rows *)

\* The u128 of a sum that fits is the sum (the wrapping_add of a release build).
LEMMA WrapInRange ==
  ASSUME NEW n \in Int, 0 <= n, n <= AmountMax
  PROVE  Wrap(n) = n
BY ConstantsAssumption DEF Wrap

\* What the shape of a database says of its rows.
LEMMA AccountRow ==
  ASSUME NEW db, DbOK(db), NEW a \in Stored(db.accounts)
  PROVE  /\ a \in Accounts /\ db.accounts[a] \in AccountRows
         /\ db.accounts[a].timestamp \in 1 .. TimestampMax
         /\ db.accounts[a].flags \subseteq Flags
         /\ db.accounts[a].debits_pending \in 0 .. AmountMax
         /\ db.accounts[a].debits_posted \in 0 .. AmountMax
         /\ db.accounts[a].credits_pending \in 0 .. AmountMax
         /\ db.accounts[a].credits_posted \in 0 .. AmountMax
<1>1. a \in Accounts /\ db.accounts[a] \in AccountRows
  BY DEF DbOK, Databases, Stored
<1> QED BY <1>1 DEF AccountRows

\* A stored transfer is a row between two different accounts, both stored, as
\* create_transfer checked; its timestamp is in the range of the groove.
LEMMA TransferRow ==
  ASSUME NEW db, DbOK(db), NEW i \in Stored(db.transfers)
  PROVE  /\ i \in Ids /\ db.transfers[i] \in TransferRows
         /\ db.transfers[i].dr \in Stored(db.accounts)
         /\ db.transfers[i].cr \in Stored(db.accounts)
         /\ db.transfers[i].dr # db.transfers[i].cr
         /\ db.transfers[i].amount \in 0 .. AmountMax
         /\ db.transfers[i].amount \in Nat
         /\ db.transfers[i].flags \subseteq TransferFlags
         /\ db.transfers[i].pending_id \in Ids \cup {None}
         /\ db.transfers[i].timeout \in Nat
         /\ db.transfers[i].timestamp \in 1 .. TimestampMax
<1>1. i \in Ids /\ db.transfers[i] \in TransferRows
  BY DEF DbOK, Databases, Stored
<1>2. {db.transfers[i].dr, db.transfers[i].cr} \subseteq Stored(db.accounts)
  BY DEF DbOK
<1>3. db.transfers[i].dr # db.transfers[i].cr
  BY DEF DbOK
<1> QED BY <1>1, <1>2, <1>3, ConstantsAssumption DEF TransferRows

\* A hold is a stored pending transfer whose row in transfers_pending is Pending.
LEMMA HeldRow ==
  ASSUME NEW db, DbOK(db), NEW i \in Held(db)
  PROVE  i \in Stored(db.transfers) /\ IsPending(db.transfers[i]) /\ db.pending[i] = "Pending"
BY NoneAssumption DEF Held, DbOK, Status

\* Sums over stored transfers are sums of finitely many natural numbers.
LEMMA FiniteSums ==
  ASSUME NEW db, DbOK(db), NEW S, S \subseteq Stored(db.transfers)
  PROVE  IsFiniteSet(S) /\ \A i \in S : db.transfers[i].amount \in Nat
<1>1. S \subseteq Ids
  BY DEF DbOK, Databases, Stored
<1> QED BY <1>1, ConstantsAssumption, FS_Subset, TransferRow

\* A hold is part of what is pending on both its accounts.
LEMMA HoldIsPending ==
  ASSUME NEW db, DbOK(db), BalancesAre(db), NEW i \in Held(db)
  PROVE  LET p == db.transfers[i] IN
         /\ db.accounts[p.dr].debits_pending >= p.amount
         /\ db.accounts[p.cr].credits_pending >= p.amount
<1> DEFINE p == db.transfers[i]
           D == Debiting(db, Held(db), p.dr)
           C == Crediting(db, Held(db), p.cr)
<1>1. i \in Stored(db.transfers)
  BY HeldRow
<1>2. D \subseteq Stored(db.transfers) /\ C \subseteq Stored(db.transfers) /\ i \in D /\ i \in C
  BY DEF Debiting, Crediting, Held
<1>3. /\ IsFiniteSet(D) /\ \A j \in D : db.transfers[j].amount \in Nat
      /\ IsFiniteSet(C) /\ \A j \in C : db.transfers[j].amount \in Nat
      /\ IsFiniteSet(D \ {i}) /\ \A j \in D \ {i} : db.transfers[j].amount \in Nat
      /\ IsFiniteSet(C \ {i}) /\ \A j \in C \ {i} : db.transfers[j].amount \in Nat
  <2> HIDE DEF D, C
  <2> QED BY <1>2, FiniteSums, FS_Subset
<1>4. /\ Total(db.transfers, D) = p.amount + Total(db.transfers, D \ {i})
      /\ Total(db.transfers, C) = p.amount + Total(db.transfers, C \ {i})
  <2> HIDE DEF D, C
  <2> QED BY <1>2, <1>3, TotalRemove
<1>5. Total(db.transfers, D \ {i}) \in Nat /\ Total(db.transfers, C \ {i}) \in Nat
  <2> HIDE DEF D, C
  <2> QED BY <1>3, TotalIsNat
<1>6. /\ db.accounts[p.dr].debits_pending = Total(db.transfers, D)
      /\ db.accounts[p.cr].credits_pending = Total(db.transfers, C)
  BY <1>1, TransferRow DEF BalancesAre
<1>7. p.amount \in Nat
  BY <1>1, TransferRow
<1> HIDE DEF D, C
<1> QED BY <1>4, <1>5, <1>6, <1>7

-----------------------------------------------------------------------------
(* What the operators do to a row and to a database *)

\* A row whose debits change by n.
LEMMA DebitRow ==
  ASSUME NEW r \in AccountRows, NEW kind \in {"pending", "posted"}, NEW n \in Int,
         LET old == IF kind = "pending" THEN r.debits_pending ELSE r.debits_posted
         IN 0 <= old + n /\ old + n <= AmountMax
  PROVE  LET d == Debit(r, kind, n) IN
         /\ d \in AccountRows
         /\ d.timestamp = r.timestamp /\ d.flags = r.flags
         /\ d.debits_pending = IF kind = "pending" THEN r.debits_pending + n ELSE r.debits_pending
         /\ d.debits_posted = IF kind = "posted" THEN r.debits_posted + n ELSE r.debits_posted
         /\ d.credits_pending = r.credits_pending /\ d.credits_posted = r.credits_posted
<1>0. /\ r.debits_pending \in 0 .. AmountMax /\ r.debits_posted \in 0 .. AmountMax
      /\ AmountMax \in Nat
  BY ConstantsAssumption DEF AccountRows
<1>1. CASE kind = "pending"
  <2>1. Wrap(r.debits_pending + n) = r.debits_pending + n
    BY <1>0, <1>1, WrapInRange
  <2> QED BY <1>0, <1>1, <2>1 DEF Debit, AccountRows
<1>2. CASE kind = "posted"
  <2>1. Wrap(r.debits_posted + n) = r.debits_posted + n
    BY <1>0, <1>2, WrapInRange
  <2> QED BY <1>0, <1>2, <2>1 DEF Debit, AccountRows
<1> QED BY <1>1, <1>2

\* A row whose credits change by n, when neither sum overflows.
LEMMA CreditRow ==
  ASSUME NEW r \in AccountRows, NEW kind \in {"pending", "posted"}, NEW n \in Int,
         LET old == IF kind = "pending" THEN r.credits_pending ELSE r.credits_posted
         IN 0 <= old + n /\ old + n <= AmountMax
  PROVE  LET d == Credit(r, kind, n) IN
         /\ d \in AccountRows
         /\ d.timestamp = r.timestamp /\ d.flags = r.flags
         /\ d.credits_pending = IF kind = "pending" THEN r.credits_pending + n ELSE r.credits_pending
         /\ d.credits_posted = IF kind = "posted" THEN r.credits_posted + n ELSE r.credits_posted
         /\ d.debits_pending = r.debits_pending /\ d.debits_posted = r.debits_posted
<1>0. /\ r.credits_pending \in 0 .. AmountMax /\ r.credits_posted \in 0 .. AmountMax
      /\ AmountMax \in Nat
  BY ConstantsAssumption DEF AccountRows
<1>1. CASE kind = "pending"
  <2>1. Wrap(r.credits_pending + n) = r.credits_pending + n
    BY <1>0, <1>1, WrapInRange
  <2> QED BY <1>0, <1>1, <2>1 DEF Credit, AccountRows
<1>2. CASE kind = "posted"
  <2>1. Wrap(r.credits_posted + n) = r.credits_posted + n
    BY <1>0, <1>2, WrapInRange
  <2> QED BY <1>0, <1>2, <2>1 DEF Credit, AccountRows
<1> QED BY <1>1, <1>2

\* A row that is closed or opened again.
LEMMA CloseRow ==
  ASSUME NEW r \in AccountRows
  PROVE  /\ Close(r) \in AccountRows /\ Reopen(r) \in AccountRows
         /\ Close(r).flags = r.flags \cup {"closed"}
         /\ Reopen(r).flags = r.flags \ {"closed"}
         /\ \A c \in {Close(r), Reopen(r)} :
              /\ c.timestamp = r.timestamp
              /\ c.debits_pending = r.debits_pending /\ c.debits_posted = r.debits_posted
              /\ c.credits_pending = r.credits_pending /\ c.credits_posted = r.credits_posted
<1>1. Close(r) \in AccountRows /\ Reopen(r) \in AccountRows
  BY DEF Close, Reopen, AccountRows, Flags
<1>2. /\ Close(r).flags = r.flags \cup {"closed"}
      /\ Reopen(r).flags = r.flags \ {"closed"}
  BY DEF Close, Reopen, AccountRows
<1>3. ASSUME NEW c \in {Close(r), Reopen(r)}
      PROVE  /\ c.timestamp = r.timestamp
             /\ c.debits_pending = r.debits_pending /\ c.debits_posted = r.debits_posted
             /\ c.credits_pending = r.credits_pending /\ c.credits_posted = r.credits_posted
  BY DEF Close, Reopen, AccountRows
<1> QED BY <1>1, <1>2, <1>3

\* What a created transfer asks of the database.
Creatable(db, e, n) ==
  LET dr == db.accounts[e.dr]
      cr == db.accounts[e.cr]
  IN /\ {e.dr, e.cr} \subseteq Stored(db.accounts) /\ e.dr # e.cr
     /\ db.transfers[e.id] = None /\ e.pending_id = None
     /\ ~Closed(dr) /\ ~Closed(cr)
     /\ ~IsPending(e) => e.flags \cap {"closing_debit", "closing_credit"} = {}
     /\ ~IsPost(e) /\ ~IsVoid(e)
     /\ n + dr.debits_pending + dr.debits_posted <= AmountMax
     /\ n + cr.credits_pending + cr.credits_posted <= AmountMax
     /\ "debits_must_not_exceed_credits" \in dr.flags =>
          dr.debits_pending + dr.debits_posted + n <= dr.credits_posted
     /\ "credits_must_not_exceed_debits" \in cr.flags =>
          cr.credits_pending + cr.credits_posted + n <= cr.debits_posted

\* The account that the event e closes.
Closing(e, a) == \/ a = e.dr /\ "closing_debit" \in e.flags
                 \/ a = e.cr /\ "closing_credit" \in e.flags

\* commit_transfer_accounts: the two accounts of a created transfer get its amount
\* (and the closed flag if it closes them), every other account keeps its row.
LEMMA CreateAccountRows ==
  ASSUME NEW db, DbOK(db), NEW e \in TransferEvents, NEW ts \in 1 .. TimestampMax,
         NEW n \in 0 .. AmountMax, Creatable(db, e, n), NEW a \in Stored(db.accounts)
  PROVE  LET new == CreateTransfer(db, e, ts, n).accounts[a]
             old == db.accounts[a]
         IN /\ new \in AccountRows
            /\ new.flags = IF Closing(e, a) THEN old.flags \cup {"closed"} ELSE old.flags
            /\ new.timestamp = old.timestamp
            /\ new.debits_pending =
                 IF a = e.dr /\ IsPending(e) THEN old.debits_pending + n ELSE old.debits_pending
            /\ new.debits_posted =
                 IF a = e.dr /\ ~IsPending(e) THEN old.debits_posted + n ELSE old.debits_posted
            /\ new.credits_pending =
                 IF a = e.cr /\ IsPending(e) THEN old.credits_pending + n ELSE old.credits_pending
            /\ new.credits_posted =
                 IF a = e.cr /\ ~IsPending(e) THEN old.credits_posted + n ELSE old.credits_posted
<1> DEFINE kind == IF IsPending(e) THEN "pending" ELSE "posted"
           dr   == Debit(db.accounts[e.dr], kind, n)
           cr   == Credit(db.accounts[e.cr], kind, n)
           new  == CreateTransfer(db, e, ts, n).accounts[a]
           old  == db.accounts[a]
<1>1. /\ e.dr \in Stored(db.accounts) /\ e.cr \in Stored(db.accounts) /\ e.dr # e.cr
      /\ n + db.accounts[e.dr].debits_pending + db.accounts[e.dr].debits_posted <= AmountMax
      /\ n + db.accounts[e.cr].credits_pending + db.accounts[e.cr].credits_posted <= AmountMax
  BY DEF Creatable
<1>2. a \in Accounts /\ db.accounts \in [Accounts -> AccountRows \cup {None}]
  BY AccountRow DEF DbOK, Databases
<1>3. new = IF a = e.cr THEN IF "closing_credit" \in e.flags THEN Close(cr) ELSE cr
            ELSE IF a = e.dr THEN IF "closing_debit" \in e.flags THEN Close(dr) ELSE dr
            ELSE old
  BY <1>1, <1>2 DEF CreateTransfer
<1>4. AmountMax \in Nat /\ n \in Int /\ kind \in {"pending", "posted"}
  BY ConstantsAssumption
<1>5. /\ dr \in AccountRows
      /\ dr.timestamp = db.accounts[e.dr].timestamp /\ dr.flags = db.accounts[e.dr].flags
      /\ dr.debits_pending = IF kind = "pending" THEN db.accounts[e.dr].debits_pending + n
                             ELSE db.accounts[e.dr].debits_pending
      /\ dr.debits_posted = IF kind = "posted" THEN db.accounts[e.dr].debits_posted + n
                            ELSE db.accounts[e.dr].debits_posted
      /\ dr.credits_pending = db.accounts[e.dr].credits_pending
      /\ dr.credits_posted = db.accounts[e.dr].credits_posted
  <2>1. db.accounts[e.dr] \in AccountRows
    BY <1>1, AccountRow
  <2>2. LET r == db.accounts[e.dr]
            old2 == IF kind = "pending" THEN r.debits_pending ELSE r.debits_posted
        IN 0 <= old2 + n /\ old2 + n <= AmountMax
    <3>1. /\ db.accounts[e.dr].debits_pending \in 0 .. AmountMax
          /\ db.accounts[e.dr].debits_posted \in 0 .. AmountMax
      BY <1>1, AccountRow
    <3> QED BY <3>1, <1>1, <1>4
  <2> HIDE DEF kind
  <2> QED BY <2>1, <2>2, <1>4, DebitRow
<1>6. /\ cr \in AccountRows
      /\ cr.timestamp = db.accounts[e.cr].timestamp /\ cr.flags = db.accounts[e.cr].flags
      /\ cr.credits_pending = IF kind = "pending" THEN db.accounts[e.cr].credits_pending + n
                              ELSE db.accounts[e.cr].credits_pending
      /\ cr.credits_posted = IF kind = "posted" THEN db.accounts[e.cr].credits_posted + n
                             ELSE db.accounts[e.cr].credits_posted
      /\ cr.debits_pending = db.accounts[e.cr].debits_pending
      /\ cr.debits_posted = db.accounts[e.cr].debits_posted
  <2>1. db.accounts[e.cr] \in AccountRows
    BY <1>1, AccountRow
  <2>2. LET r == db.accounts[e.cr]
            old2 == IF kind = "pending" THEN r.credits_pending ELSE r.credits_posted
        IN 0 <= old2 + n /\ old2 + n <= AmountMax
    <3>1. /\ db.accounts[e.cr].credits_pending \in 0 .. AmountMax
          /\ db.accounts[e.cr].credits_posted \in 0 .. AmountMax
      BY <1>1, AccountRow
    <3> QED BY <3>1, <1>1, <1>4
  <2> HIDE DEF kind
  <2> QED BY <2>1, <2>2, <1>4, CreditRow
<1>7. CASE a # e.dr /\ a # e.cr
  <2>1. new = old /\ old \in AccountRows
    BY <1>3, <1>7, AccountRow
  <2> QED BY <2>1, <1>7 DEF Closing
<1>8. CASE a = e.dr
  <2>1. new = IF "closing_debit" \in e.flags THEN Close(dr) ELSE dr
    BY <1>1, <1>3, <1>8
  <2> HIDE DEF dr
  <2>2. CASE "closing_debit" \in e.flags
    BY <1>1, <1>5, <1>8, <2>1, <2>2, CloseRow DEF Closing
  <2>3. CASE "closing_debit" \notin e.flags
    BY <1>1, <1>5, <1>8, <2>1, <2>3 DEF Closing
  <2> QED BY <2>2, <2>3
<1>9. CASE a = e.cr
  <2>1. new = IF "closing_credit" \in e.flags THEN Close(cr) ELSE cr
    BY <1>1, <1>3, <1>9
  <2> HIDE DEF cr
  <2>2. CASE "closing_credit" \in e.flags
    BY <1>1, <1>6, <1>9, <2>1, <2>2, CloseRow DEF Closing
  <2>3. CASE "closing_credit" \notin e.flags
    BY <1>1, <1>6, <1>9, <2>1, <2>3 DEF Closing
  <2> QED BY <2>2, <2>3
<1> QED BY <1>7, <1>8, <1>9

\* A new transfer has a row of its own, if no hold has its timestamp.
LEMMA NewRow ==
  ASSUME NEW db, db.pending \in [Ids -> Status \cup {None}], NEW i \in Ids, NEW ts, NEW status,
         status # None => HoldsAt(db, ts) = {}
  PROVE  WithRow(db, i, ts, status) = [db.pending EXCEPT ![i] = status]
BY DEF WithRow

\* So has a hold, where no two of them share a timestamp.
LEMMA RowOfHold ==
  ASSUME NEW db, db.pending \in [Ids -> Status \cup {None}], SeparateHolds(db),
         NEW i \in Ids, i \in Stored(db.transfers), IsPending(db.transfers[i]), NEW status
  PROVE  WithRow(db, i, db.transfers[i].timestamp, status) = [db.pending EXCEPT ![i] = status]
<1>1. \A j \in HoldsAt(db, db.transfers[i].timestamp) : j = i
  BY DEF HoldsAt, SeparateHolds
<1> QED BY <1>1 DEF WithRow

\* What create_transfer stores: the new transfer, its row in transfers_pending if it
\* is pending, and nothing else.
LEMMA CreateTransferRows ==
  ASSUME NEW db, DbOK(db), NEW e \in TransferEvents, NEW ts \in 1 .. TimestampMax,
         NEW n \in 0 .. AmountMax, Creatable(db, e, n),
         IsPending(e) => HoldsAt(db, ts) = {}
  PROVE  LET d == CreateTransfer(db, e, ts, n)
             t == d.transfers[e.id]
         IN /\ d \in Databases
            /\ Stored(d.accounts) = Stored(db.accounts)
            /\ Stored(d.transfers) = Stored(db.transfers) \cup {e.id}
            /\ e.id \in Ids \ Stored(db.transfers)
            /\ \A i \in Ids \ {e.id} :
                 d.transfers[i] = db.transfers[i] /\ d.pending[i] = db.pending[i]
            /\ t \in TransferRows
            /\ t.dr = e.dr /\ t.cr = e.cr /\ t.amount = n /\ t.flags = e.flags
            /\ t.pending_id = None /\ t.timestamp = ts /\ t.timeout = e.timeout
            /\ d.pending[e.id] = IF IsPending(e) THEN "Pending" ELSE None
<1> DEFINE d == CreateTransfer(db, e, ts, n)
           t == [dr |-> e.dr, cr |-> e.cr, amount |-> n, flags |-> e.flags,
                 pending_id |-> None, timeout |-> e.timeout, timestamp |-> ts]
<1>1. /\ e.id \in Ids /\ e.flags \in SUBSET TransferFlags /\ e.timeout \in Nat
      /\ e.dr \in Accounts /\ e.cr \in Accounts /\ db.transfers[e.id] = None
  BY DEF TransferEvents, Creatable, Stored, DbOK, Databases
<1>2. t \in TransferRows
  BY <1>1 DEF TransferRows
<1>3. t # None
  BY <1>2, NoneAssumption
<1>5. /\ db.accounts \in [Accounts -> AccountRows \cup {None}]
      /\ db.transfers \in [Ids -> TransferRows \cup {None}]
      /\ db.pending \in [Ids -> Status \cup {None}]
  BY DEF DbOK, Databases
<1>4. /\ d = [accounts |-> d.accounts, transfers |-> d.transfers, pending |-> d.pending]
      /\ d.transfers = [db.transfers EXCEPT ![e.id] = t]
      /\ d.pending = [db.pending EXCEPT ![e.id] = PendingRow(e)]
  <2>1. PendingRow(e) # None => HoldsAt(db, ts) = {}
    BY DEF PendingRow
  <2>2. WithRow(db, e.id, ts, PendingRow(e)) = [db.pending EXCEPT ![e.id] = PendingRow(e)]
    BY <1>1, <1>5, <2>1, NewRow
  <2> QED BY <2>2 DEF CreateTransfer
<1>6. d.transfers \in [Ids -> TransferRows \cup {None}]
  <2> HIDE DEF d, t
  <2> QED BY <1>2, <1>4, <1>5
<1>7. d.pending \in [Ids -> Status \cup {None}]
  <2>1. PendingRow(e) \in Status \cup {None}
    BY DEF PendingRow, Status
  <2> HIDE DEF d
  <2> QED BY <2>1, <1>4, <1>5
<1>8. ASSUME NEW a \in Accounts
      PROVE  /\ db.accounts[a] = None => d.accounts[a] = None
             /\ db.accounts[a] # None => d.accounts[a] # None /\ d.accounts[a] \in AccountRows
  <2>1. CASE a \in Stored(db.accounts)
    <3>1. d.accounts[a] \in AccountRows
      BY <2>1, CreateAccountRows
    <3>2. db.accounts[a] # None
      BY <2>1 DEF Stored
    <3> HIDE DEF d
    <3> QED BY <3>1, <3>2, NoneAssumption
  <2>2. CASE a \notin Stored(db.accounts)
    <3>1. db.accounts[a] = None /\ a # e.dr /\ a # e.cr
      BY <2>2, <1>5 DEF Stored, Creatable
    <3>2. d.accounts[a] = db.accounts[a]
      BY <3>1, <1>5 DEF CreateTransfer
    <3> QED BY <3>1, <3>2
  <2> QED BY <2>1, <2>2
<1>9. DOMAIN d.accounts = Accounts /\ d.accounts = [a \in Accounts |-> d.accounts[a]]
  BY <1>5 DEF CreateTransfer
<1>10. d.accounts \in [Accounts -> AccountRows \cup {None}]
  <2> HIDE DEF d
  <2> QED BY <1>8, <1>9
<1>11. Stored(d.accounts) = Stored(db.accounts)
  <2> HIDE DEF d
  <2> QED BY <1>5, <1>8, <1>9 DEF Stored
<1>12. d \in Databases
  <2> HIDE DEF d
  <2> QED BY <1>4, <1>6, <1>7, <1>10 DEF Databases
<1>13. d.transfers[e.id] = t /\ d.pending[e.id] = PendingRow(e)
  <2> HIDE DEF d, t
  <2> QED BY <1>1, <1>4, <1>5
<1>14. \A i \in Ids \ {e.id} : d.transfers[i] = db.transfers[i] /\ d.pending[i] = db.pending[i]
  <2> HIDE DEF d, t
  <2> QED BY <1>1, <1>4, <1>5
<1>15. Stored(d.transfers) = Stored(db.transfers) \cup {e.id}
  <2>1. DOMAIN d.transfers = Ids /\ DOMAIN db.transfers = Ids
    BY <1>5, <1>6
  <2> HIDE DEF d, t
  <2> QED BY <2>1, <1>1, <1>3, <1>13, <1>14 DEF Stored
<1>16. e.id \in Ids \ Stored(db.transfers)
  BY <1>1 DEF Stored
<1> QED BY <1>2, <1>11, <1>12, <1>13, <1>14, <1>15, <1>16 DEF PendingRow

\* The stores keep their shape when a transfer is created.
LEMMA CreateKeepsShape ==
  ASSUME NEW db, DbOK(db), NEW e \in TransferEvents, NEW ts \in 1 .. TimestampMax,
         NEW n \in 0 .. AmountMax, Creatable(db, e, n),
         IsPending(e) => HoldsAt(db, ts) = {}
  PROVE  DbOK(CreateTransfer(db, e, ts, n))
<1> DEFINE d == CreateTransfer(db, e, ts, n)
<1> HIDE DEF d
<1>1. /\ d \in Databases
      /\ Stored(d.accounts) = Stored(db.accounts)
      /\ Stored(d.transfers) = Stored(db.transfers) \cup {e.id}
      /\ e.id \in Ids \ Stored(db.transfers)
      /\ \A i \in Ids \ {e.id} :
           d.transfers[i] = db.transfers[i] /\ d.pending[i] = db.pending[i]
      /\ d.transfers[e.id].dr = e.dr /\ d.transfers[e.id].cr = e.cr
      /\ d.transfers[e.id].flags = e.flags
      /\ d.transfers[e.id].pending_id = None
      /\ d.pending[e.id] = IF IsPending(e) THEN "Pending" ELSE None
  BY CreateTransferRows DEF d
<1>2. ASSUME NEW i \in Stored(d.transfers)
      PROVE  LET t == d.transfers[i] IN
             /\ {t.dr, t.cr} \subseteq Stored(d.accounts) /\ t.dr # t.cr
             /\ t.pending_id # None => t.pending_id \in Stored(d.transfers)
             /\ d.pending[i] \in (IF IsPending(t) THEN Status ELSE {None})
  <2>1. CASE i = e.id
    <3>1. e.dr \in Stored(db.accounts) /\ e.cr \in Stored(db.accounts) /\ e.dr # e.cr
      BY DEF Creatable
    <3> QED BY <1>1, <2>1, <3>1 DEF IsPending, Status
  <2>2. CASE i # e.id
    <3>1. i \in Stored(db.transfers) /\ i \in Ids \ {e.id}
      BY <1>1, <1>2, <2>2 DEF DbOK, Databases, Stored
    <3> QED BY <1>1, <3>1 DEF DbOK
  <2> QED BY <2>1, <2>2
<1>3. \A i \in Ids \ Stored(d.transfers) : d.pending[i] = None
  BY <1>1 DEF DbOK
<1> QED BY <1>1, <1>2, <1>3 DEF DbOK, d

-----------------------------------------------------------------------------
(* How the sums follow the transfers *)

\* Rows that stay the same have the same total; so with fewer accounts to look at.
LEMMA SumOfSameRows ==
  ASSUME NEW db, DbOK(db), NEW d, NEW S, S \subseteq Stored(db.transfers), NEW a,
         \A i \in S : d.transfers[i] = db.transfers[i]
  PROVE  /\ Debiting(d, S, a) = Debiting(db, S, a)
         /\ Crediting(d, S, a) = Crediting(db, S, a)
         /\ Total(d.transfers, Debiting(d, S, a)) = Total(db.transfers, Debiting(db, S, a))
         /\ Total(d.transfers, Crediting(d, S, a)) = Total(db.transfers, Crediting(db, S, a))
         /\ Total(db.transfers, Debiting(db, S, a)) \in Nat
         /\ Total(db.transfers, Crediting(db, S, a)) \in Nat
<1> DEFINE D == Debiting(db, S, a)
           C == Crediting(db, S, a)
<1>1. D \subseteq S /\ C \subseteq S
  BY DEF Debiting, Crediting
<1>2. Debiting(d, S, a) = D /\ Crediting(d, S, a) = C
  BY DEF Debiting, Crediting
<1> HIDE DEF D, C
<1>3. /\ IsFiniteSet(D) /\ \A i \in D : db.transfers[i].amount \in Nat
      /\ IsFiniteSet(C) /\ \A i \in C : db.transfers[i].amount \in Nat
  BY <1>1, FiniteSums
<1>4. /\ Total(d.transfers, D) = Total(db.transfers, D)
      /\ Total(d.transfers, C) = Total(db.transfers, C)
  BY <1>1, <1>3, TotalSame
<1>5. Total(db.transfers, D) \in Nat /\ Total(db.transfers, C) \in Nat
  BY <1>3, TotalIsNat
<1> QED BY <1>2, <1>4, <1>5 DEF D, C

\* A new row counts on its two accounts.
LEMMA SumWithRow ==
  ASSUME NEW db, DbOK(db), NEW d, NEW S, S \subseteq Stored(db.transfers), NEW a,
         \A i \in S : d.transfers[i] = db.transfers[i],
         NEW x, x \notin Stored(db.transfers), d.transfers[x].amount \in Nat
  PROVE  /\ Total(d.transfers, Debiting(d, S \cup {x}, a)) =
              Total(db.transfers, Debiting(db, S, a))
              + (IF d.transfers[x].dr = a THEN d.transfers[x].amount ELSE 0)
         /\ Total(d.transfers, Crediting(d, S \cup {x}, a)) =
              Total(db.transfers, Crediting(db, S, a))
              + (IF d.transfers[x].cr = a THEN d.transfers[x].amount ELSE 0)
<1> DEFINE D == Debiting(d, S, a)
           C == Crediting(d, S, a)
<1>1. /\ Total(d.transfers, D) = Total(db.transfers, Debiting(db, S, a))
      /\ Total(d.transfers, C) = Total(db.transfers, Crediting(db, S, a))
      /\ Total(d.transfers, D) \in Nat /\ Total(d.transfers, C) \in Nat
  BY SumOfSameRows
<1>2. /\ Debiting(d, S \cup {x}, a) = IF d.transfers[x].dr = a THEN D \cup {x} ELSE D
      /\ Crediting(d, S \cup {x}, a) = IF d.transfers[x].cr = a THEN C \cup {x} ELSE C
  BY DEF Debiting, Crediting
<1>3. x \notin D /\ x \notin C /\ D \subseteq S /\ C \subseteq S
  BY DEF Debiting, Crediting
<1>4. /\ IsFiniteSet(D) /\ \A i \in D : d.transfers[i].amount \in Nat
      /\ IsFiniteSet(C) /\ \A i \in C : d.transfers[i].amount \in Nat
  <2>1. D \subseteq Stored(db.transfers) /\ C \subseteq Stored(db.transfers)
    BY <1>3
  <2>2. IsFiniteSet(D) /\ IsFiniteSet(C)
    <3> HIDE DEF D, C
    <3> QED BY <2>1, FiniteSums
  <2>3. \A i \in S : db.transfers[i].amount \in Nat
    BY FiniteSums
  <2> HIDE DEF D, C
  <2> QED BY <1>3, <2>2, <2>3
<1> HIDE DEF D, C
<1>5. /\ Total(d.transfers, D \cup {x}) = Total(d.transfers, D) + d.transfers[x].amount
      /\ Total(d.transfers, C \cup {x}) = Total(d.transfers, C) + d.transfers[x].amount
  BY <1>3, <1>4, TotalAdd
<1> QED BY <1>1, <1>2, <1>5

\* A hold that is resolved no longer counts.
LEMMA SumWithoutRow ==
  ASSUME NEW db, DbOK(db), NEW S, S \subseteq Stored(db.transfers), NEW a, NEW x \in S
  PROVE  /\ Total(db.transfers, Debiting(db, S \ {x}, a)) =
              Total(db.transfers, Debiting(db, S, a))
              - (IF db.transfers[x].dr = a THEN db.transfers[x].amount ELSE 0)
         /\ Total(db.transfers, Crediting(db, S \ {x}, a)) =
              Total(db.transfers, Crediting(db, S, a))
              - (IF db.transfers[x].cr = a THEN db.transfers[x].amount ELSE 0)
<1> DEFINE R == S \ {x}
           D == Debiting(db, R, a)
           C == Crediting(db, R, a)
<1>1. R \subseteq Stored(db.transfers) /\ R \cup {x} = S
  OBVIOUS
<1>2. /\ Debiting(db, S, a) = IF db.transfers[x].dr = a THEN D \cup {x} ELSE D
      /\ Crediting(db, S, a) = IF db.transfers[x].cr = a THEN C \cup {x} ELSE C
      /\ x \notin D /\ x \notin C /\ D \subseteq R /\ C \subseteq R
  BY DEF Debiting, Crediting
<1> HIDE DEF D, C, R
<1>3. /\ IsFiniteSet(D) /\ \A i \in D : db.transfers[i].amount \in Nat
      /\ IsFiniteSet(C) /\ \A i \in C : db.transfers[i].amount \in Nat
      /\ db.transfers[x].amount \in Nat
  BY <1>1, <1>2, FiniteSums, TransferRow
<1>4. /\ Total(db.transfers, D \cup {x}) = Total(db.transfers, D) + db.transfers[x].amount
      /\ Total(db.transfers, C \cup {x}) = Total(db.transfers, C) + db.transfers[x].amount
  BY <1>2, <1>3, TotalAdd
<1>5. Total(db.transfers, D) \in Nat /\ Total(db.transfers, C) \in Nat
  BY <1>3, TotalIsNat
<1>6. \A m, k \in Nat : m = (m + k) - k
  OBVIOUS
<1>7. /\ Total(db.transfers, D) = Total(db.transfers, Debiting(db, S, a))
           - (IF db.transfers[x].dr = a THEN db.transfers[x].amount ELSE 0)
      /\ Total(db.transfers, C) = Total(db.transfers, Crediting(db, S, a))
           - (IF db.transfers[x].cr = a THEN db.transfers[x].amount ELSE 0)
  BY <1>2, <1>3, <1>4, <1>5, <1>6
<1> QED BY <1>7 DEF D, C, R

-----------------------------------------------------------------------------
(* A created transfer keeps the ledger *)

\* The holds and the posted transfers, after a transfer is created.
LEMMA CreateSets ==
  ASSUME NEW db, DbOK(db), NEW e \in TransferEvents, NEW ts \in 1 .. TimestampMax,
         NEW n \in 0 .. AmountMax, Creatable(db, e, n),
         IsPending(e) => HoldsAt(db, ts) = {}
  PROVE  LET d == CreateTransfer(db, e, ts, n) IN
         /\ Held(d)   = IF IsPending(e) THEN Held(db) \cup {e.id} ELSE Held(db)
         /\ Posted(d) = IF IsPending(e) THEN Posted(db) ELSE Posted(db) \cup {e.id}
         /\ Held(db) \subseteq Stored(db.transfers) /\ Posted(db) \subseteq Stored(db.transfers)
         /\ \A i \in Stored(db.transfers) :
              d.transfers[i] = db.transfers[i] /\ d.pending[i] = db.pending[i]
         /\ \A i \in Ids : Resolutions(d, i) = Resolutions(db, i)
<1> DEFINE d == CreateTransfer(db, e, ts, n)
<1> HIDE DEF d
<1>1. /\ Stored(d.transfers) = Stored(db.transfers) \cup {e.id}
      /\ e.id \in Ids \ Stored(db.transfers)
      /\ \A i \in Ids \ {e.id} :
           d.transfers[i] = db.transfers[i] /\ d.pending[i] = db.pending[i]
      /\ d.transfers[e.id].flags = e.flags
      /\ d.transfers[e.id].pending_id = None
      /\ d.pending[e.id] = IF IsPending(e) THEN "Pending" ELSE None
  BY CreateTransferRows DEF d
<1>2. Stored(db.transfers) \subseteq Ids \ {e.id}
  BY <1>1 DEF DbOK, Databases, Stored
<1>3. ~IsVoid(e) /\ None # "Pending"
  BY NoneAssumption DEF Creatable, Status
<1>4. Held(d) = IF IsPending(e) THEN Held(db) \cup {e.id} ELSE Held(db)
  BY <1>1, <1>2, <1>3 DEF Held
<1>5. Posted(d) = IF IsPending(e) THEN Posted(db) ELSE Posted(db) \cup {e.id}
  BY <1>1, <1>2, <1>3 DEF Posted, IsPending, IsVoid
<1>6. \A i \in Ids : Resolutions(d, i) = Resolutions(db, i)
  BY <1>1, <1>2, NoneAssumption DEF Resolutions
<1>7. Held(db) \subseteq Stored(db.transfers) /\ Posted(db) \subseteq Stored(db.transfers)
  BY DEF Held, Posted
<1> QED BY <1>1, <1>2, <1>4, <1>5, <1>6, <1>7 DEF d

\* ... and every balance is still the sum of the holds and of the posted transfers.
LEMMA CreateKeepsBalances ==
  ASSUME NEW db, Ledger(db), NEW e \in TransferEvents, NEW ts \in 1 .. TimestampMax,
         NEW n \in 0 .. AmountMax, Creatable(db, e, n),
         IsPending(e) => HoldsAt(db, ts) = {}
  PROVE  BalancesAre(CreateTransfer(db, e, ts, n))
<1> DEFINE d == CreateTransfer(db, e, ts, n)
<1> HIDE DEF d
<1>0. DbOK(db) /\ BalancesAre(db)
  BY DEF Ledger
<1>1. /\ Stored(d.accounts) = Stored(db.accounts)
      /\ e.id \notin Stored(db.transfers)
      /\ d.transfers[e.id].dr = e.dr /\ d.transfers[e.id].cr = e.cr
      /\ d.transfers[e.id].amount = n /\ n \in Nat
  BY <1>0, CreateTransferRows, ConstantsAssumption DEF d
<1>2. /\ Held(d)   = IF IsPending(e) THEN Held(db) \cup {e.id} ELSE Held(db)
      /\ Posted(d) = IF IsPending(e) THEN Posted(db) ELSE Posted(db) \cup {e.id}
      /\ Held(db) \subseteq Stored(db.transfers) /\ Posted(db) \subseteq Stored(db.transfers)
      /\ \A i \in Stored(db.transfers) : d.transfers[i] = db.transfers[i]
  BY <1>0, CreateSets DEF d
<1>3. ASSUME NEW a \in Stored(d.accounts)
      PROVE  /\ d.accounts[a].debits_pending  = Total(d.transfers, Debiting(d, Held(d), a))
             /\ d.accounts[a].credits_pending = Total(d.transfers, Crediting(d, Held(d), a))
             /\ d.accounts[a].debits_posted   = Total(d.transfers, Debiting(d, Posted(d), a))
             /\ d.accounts[a].credits_posted  = Total(d.transfers, Crediting(d, Posted(d), a))
  <2> DEFINE old == db.accounts[a]
             new == d.accounts[a]
  <2>1. /\ new.flags = IF Closing(e, a) THEN old.flags \cup {"closed"} ELSE old.flags
        /\ new.debits_pending =
             IF a = e.dr /\ IsPending(e) THEN old.debits_pending + n ELSE old.debits_pending
        /\ new.debits_posted =
             IF a = e.dr /\ ~IsPending(e) THEN old.debits_posted + n ELSE old.debits_posted
        /\ new.credits_pending =
             IF a = e.cr /\ IsPending(e) THEN old.credits_pending + n ELSE old.credits_pending
        /\ new.credits_posted =
             IF a = e.cr /\ ~IsPending(e) THEN old.credits_posted + n ELSE old.credits_posted
    BY SMTT(30), <1>0, <1>1, CreateAccountRows DEF d
  <2>2. /\ old.debits_pending  = Total(db.transfers, Debiting(db, Held(db), a))
        /\ old.credits_pending = Total(db.transfers, Crediting(db, Held(db), a))
        /\ old.debits_posted   = Total(db.transfers, Debiting(db, Posted(db), a))
        /\ old.credits_posted  = Total(db.transfers, Crediting(db, Posted(db), a))
    BY <1>0, <1>1 DEF BalancesAre
  <2>3. \A S \in {Held(db), Posted(db)} :
          /\ Total(d.transfers, Debiting(d, S, a)) = Total(db.transfers, Debiting(db, S, a))
          /\ Total(d.transfers, Crediting(d, S, a)) = Total(db.transfers, Crediting(db, S, a))
          /\ Total(db.transfers, Debiting(db, S, a)) \in Nat
          /\ Total(db.transfers, Crediting(db, S, a)) \in Nat
    BY <1>0, <1>2, SumOfSameRows
  <2>4. \A S \in {Held(db), Posted(db)} :
          /\ Total(d.transfers, Debiting(d, S \cup {e.id}, a)) =
               Total(db.transfers, Debiting(db, S, a)) + (IF e.dr = a THEN n ELSE 0)
          /\ Total(d.transfers, Crediting(d, S \cup {e.id}, a)) =
               Total(db.transfers, Crediting(db, S, a)) + (IF e.cr = a THEN n ELSE 0)
    <3>1. ASSUME NEW S, S \subseteq Stored(db.transfers)
          PROVE  /\ Total(d.transfers, Debiting(d, S \cup {e.id}, a)) =
                      Total(db.transfers, Debiting(db, S, a)) + (IF e.dr = a THEN n ELSE 0)
                 /\ Total(d.transfers, Crediting(d, S \cup {e.id}, a)) =
                      Total(db.transfers, Crediting(db, S, a)) + (IF e.cr = a THEN n ELSE 0)
      <4>1. /\ DbOK(db) /\ \A i \in S : d.transfers[i] = db.transfers[i]
            /\ e.id \notin Stored(db.transfers) /\ d.transfers[e.id].amount \in Nat
        BY <1>0, <1>1, <1>2, <3>1
      <4>2. /\ Total(d.transfers, Debiting(d, S \cup {e.id}, a)) =
                 Total(db.transfers, Debiting(db, S, a))
                 + (IF d.transfers[e.id].dr = a THEN d.transfers[e.id].amount ELSE 0)
            /\ Total(d.transfers, Crediting(d, S \cup {e.id}, a)) =
                 Total(db.transfers, Crediting(db, S, a))
                 + (IF d.transfers[e.id].cr = a THEN d.transfers[e.id].amount ELSE 0)
        BY SMTT(30), <3>1, <4>1, SumWithRow
      <4> QED BY <1>1, <4>2
    <3> QED BY <1>2, <3>1
  <2> HIDE DEF old, new
  <2>5. CASE IsPending(e)
    <3>1. Held(d) = Held(db) \cup {e.id} /\ Posted(d) = Posted(db)
      BY <1>2, <2>5
    <3> QED BY <2>1, <2>2, <2>3, <2>4, <2>5, <3>1 DEF new
  <2>6. CASE ~IsPending(e)
    <3>1. Held(d) = Held(db) /\ Posted(d) = Posted(db) \cup {e.id}
      BY <1>2, <2>6
    <3> QED BY <2>1, <2>2, <2>3, <2>4, <2>6, <3>1 DEF new
  <2> QED BY <2>5, <2>6
<1> QED BY <1>3 DEF BalancesAre, d

\* create_transfer keeps all of the ledger: balances, limits, one resolution per
\* hold, and accounts closed by a hold alone.
LEMMA CreateKeepsLedger ==
  ASSUME NEW db, Ledger(db), NEW e \in TransferEvents, NEW ts \in 1 .. TimestampMax,
         NEW n \in 0 .. AmountMax, Creatable(db, e, n),
         IsPending(e) => HoldsAt(db, ts) = {}
  PROVE  Ledger(CreateTransfer(db, e, ts, n))
<1> DEFINE d == CreateTransfer(db, e, ts, n)
<1> HIDE DEF d
<1>0. DbOK(db) /\ BalancesAre(db) /\ ResolvedOnceIn(db) /\ ClosedByHolds(db)
  BY DEF Ledger
<1>1. DbOK(d)
  BY <1>0, CreateKeepsShape DEF d
<1>2. BalancesAre(d)
  BY CreateKeepsBalances DEF d
<1>3. /\ Stored(d.accounts) = Stored(db.accounts)
      /\ Stored(d.transfers) = Stored(db.transfers) \cup {e.id}
      /\ e.id \in Ids \ Stored(db.transfers)
      /\ \A i \in Ids \ {e.id} :
           d.transfers[i] = db.transfers[i] /\ d.pending[i] = db.pending[i]
      /\ d.transfers[e.id].dr = e.dr /\ d.transfers[e.id].cr = e.cr
      /\ d.transfers[e.id].flags = e.flags
      /\ d.pending[e.id] = IF IsPending(e) THEN "Pending" ELSE None
  BY <1>0, CreateTransferRows DEF d
<1>4. /\ Held(d) = IF IsPending(e) THEN Held(db) \cup {e.id} ELSE Held(db)
      /\ Held(db) \subseteq Stored(db.transfers)
      /\ \A i \in Stored(db.transfers) :
           d.transfers[i] = db.transfers[i] /\ d.pending[i] = db.pending[i]
      /\ \A i \in Ids : Resolutions(d, i) = Resolutions(db, i)
  BY <1>0, CreateSets DEF d
<1>5. ResolvedOnceIn(d)
  <2>1. ASSUME NEW i \in Ids
        PROVE  /\ \A j, k \in Resolutions(d, i) : j = k
               /\ \A j \in Resolutions(d, i) :
                    d.pending[i] = IF IsPost(d.transfers[j]) THEN "Posted" ELSE "Voided"
               /\ d.pending[i] \in {"Posted", "Voided"} => Resolutions(d, i) # {}
    <3>1. Resolutions(d, i) = Resolutions(db, i) /\ Resolutions(db, i) \subseteq Stored(db.transfers)
      BY <1>4 DEF Resolutions
    <3>2. CASE i # e.id
      <4>1. d.pending[i] = db.pending[i]
        BY <1>3, <3>2
      <4> QED BY <1>0, <1>4, <3>1, <4>1 DEF ResolvedOnceIn
    <3>3. CASE i = e.id
      <4>1. \A t \in Stored(db.transfers) : db.transfers[t].pending_id # e.id
        <5> SUFFICES ASSUME NEW t \in Stored(db.transfers), db.transfers[t].pending_id = e.id
                     PROVE  FALSE
          OBVIOUS
        <5>1. e.id # None
          BY <1>3, NoneAssumption
        <5> QED BY <1>0, <1>3, <5>1 DEF DbOK
      <4>2. Resolutions(db, i) = {}
        BY <3>3, <4>1 DEF Resolutions
      <4>3. d.pending[i] \in {"Pending", None}
        BY <1>3, <3>3
      <4> QED BY <3>1, <4>2, <4>3, NoneAssumption DEF Status
    <3> QED BY <3>2, <3>3
  <2> QED BY <2>1 DEF ResolvedOnceIn
<1>6. ASSUME NEW a \in Stored(d.accounts)
      PROVE  InRange(d.accounts[a]) /\ Limited(d.accounts[a])
  <2> DEFINE old == db.accounts[a]
             new == d.accounts[a]
  <2>1. /\ new.flags = IF Closing(e, a) THEN old.flags \cup {"closed"} ELSE old.flags
        /\ new.debits_pending =
             IF a = e.dr /\ IsPending(e) THEN old.debits_pending + n ELSE old.debits_pending
        /\ new.debits_posted =
             IF a = e.dr /\ ~IsPending(e) THEN old.debits_posted + n ELSE old.debits_posted
        /\ new.credits_pending =
             IF a = e.cr /\ IsPending(e) THEN old.credits_pending + n ELSE old.credits_pending
        /\ new.credits_posted =
             IF a = e.cr /\ ~IsPending(e) THEN old.credits_posted + n ELSE old.credits_posted
    BY <1>0, <1>3, CreateAccountRows DEF d
  <2>2. /\ old.debits_pending \in 0 .. AmountMax /\ old.debits_posted \in 0 .. AmountMax
        /\ old.credits_pending \in 0 .. AmountMax /\ old.credits_posted \in 0 .. AmountMax
    BY <1>0, <1>3, AccountRow
  <2>3. InRange(old) /\ Limited(old)
    BY <1>3 DEF Ledger
  <2>4. /\ a = e.dr =>
             /\ n + old.debits_pending + old.debits_posted <= AmountMax
             /\ "debits_must_not_exceed_credits" \in old.flags =>
                  old.debits_pending + old.debits_posted + n <= old.credits_posted
        /\ a = e.cr =>
             /\ n + old.credits_pending + old.credits_posted <= AmountMax
             /\ "credits_must_not_exceed_debits" \in old.flags =>
                  old.credits_pending + old.credits_posted + n <= old.debits_posted
        /\ e.dr # e.cr
    BY DEF Creatable
  <2>5. /\ "debits_must_not_exceed_credits" \in new.flags <=> "debits_must_not_exceed_credits" \in old.flags
        /\ "credits_must_not_exceed_debits" \in new.flags <=> "credits_must_not_exceed_debits" \in old.flags
    BY <2>1
  <2>6. n \in Nat /\ AmountMax \in Nat
    BY ConstantsAssumption
  <2> HIDE DEF old, new
  <2>7. InRange(new)
    BY <2>1, <2>2, <2>3, <2>4, <2>6 DEF InRange
  <2>8. Limited(new)
    BY <2>1, <2>2, <2>3, <2>4, <2>5, <2>6 DEF Limited
  <2> QED BY <2>7, <2>8 DEF new
<1>7. ClosedByHolds(d)
  <2> SUFFICES ASSUME NEW i \in Held(d), NEW a \in Accounts, Closes(d, i, a)
               PROVE  /\ Closed(d.accounts[a])
                      /\ \A j \in Held(d) : Closes(d, j, a) => j = i
    BY DEF ClosedByHolds
  <2>1. a \in Stored(db.accounts)
    <3>1. i \in Stored(d.transfers)
      BY DEF Held
    <3>2. d.transfers[i].dr \in Stored(d.accounts) /\ d.transfers[i].cr \in Stored(d.accounts)
      BY <1>1, <3>1, TransferRow
    <3>3. a = d.transfers[i].dr \/ a = d.transfers[i].cr
      BY DEF Closes, ClosesDebit, ClosesCredit
    <3>4. Stored(d.accounts) = Stored(db.accounts)
      BY <1>3
    <3> QED BY <3>2, <3>3, <3>4
  <2>2. d.accounts[a].flags =
          IF Closing(e, a) THEN db.accounts[a].flags \cup {"closed"} ELSE db.accounts[a].flags
    <3> DEFINE old == db.accounts[a]
               new == CreateTransfer(db, e, ts, n).accounts[a]
    <3>1. /\ new \in AccountRows
          /\ new.flags = IF Closing(e, a) THEN old.flags \cup {"closed"} ELSE old.flags
          /\ new.timestamp = old.timestamp
      BY <1>0, <2>1, CreateAccountRows
    <3> HIDE DEF new, old
    <3>2. new.flags = IF Closing(e, a) THEN old.flags \cup {"closed"} ELSE old.flags
      BY <3>1
    <3> QED BY <3>2 DEF new, old, d
  <2>3. \A j \in Held(d) : j # e.id => j \in Held(db) /\ (Closes(d, j, a) <=> Closes(db, j, a))
    BY <1>4 DEF Closes, ClosesDebit, ClosesCredit
  <2>4. Closes(d, e.id, a) <=> Closing(e, a)
    BY <1>3 DEF Closes, ClosesDebit, ClosesCredit, Closing
  <2>5. Closing(e, a) => ~Closed(db.accounts[a])
    BY DEF Closing, Creatable
  <2>6. \A j \in Held(db) : Closes(db, j, a) => Closed(db.accounts[a])
    BY <1>0 DEF ClosedByHolds
  <2>7. CASE i = e.id
    <3>1. Closing(e, a) /\ ~Closed(db.accounts[a])
      BY <2>4, <2>5, <2>7
    <3> QED BY <2>2, <2>3, <2>6, <2>7, <3>1 DEF Closed
  <2>8. CASE i # e.id
    <3>1. i \in Held(db) /\ Closes(db, i, a) /\ Closed(db.accounts[a])
      BY <2>3, <2>6, <2>8
    <3>2. \A j \in Held(db) : Closes(db, j, a) => j = i
      BY <1>0, <3>1 DEF ClosedByHolds
    <3>3. ~Closing(e, a)
      BY <2>5, <3>1
    <3> QED BY <2>2, <2>3, <2>4, <3>1, <3>2, <3>3 DEF Closed
  <2> QED BY <2>7, <2>8
<1> QED BY <1>1, <1>2, <1>5, <1>6, <1>7 DEF Ledger, d

-----------------------------------------------------------------------------
(* A hold that is given back: by a post, a void or an expiry *)

\* The rows of the accounts when the hold i is given back.
LEMMA ReleasedRows ==
  ASSUME NEW db, DbOK(db), BalancesAre(db), NEW i \in Held(db), NEW a \in Stored(db.accounts)
  PROVE  LET p   == db.transfers[i]
             new == Released(db.accounts, p)[a]
             old == db.accounts[a]
         IN /\ new \in AccountRows
            /\ new.timestamp = old.timestamp /\ new.flags = old.flags
            /\ new.debits_pending =
                 IF a = p.dr THEN old.debits_pending - p.amount ELSE old.debits_pending
            /\ new.credits_pending =
                 IF a = p.cr THEN old.credits_pending - p.amount ELSE old.credits_pending
            /\ new.debits_posted = old.debits_posted /\ new.credits_posted = old.credits_posted
<1> DEFINE p   == db.transfers[i]
           dr  == Debit(db.accounts[p.dr], "pending", - p.amount)
           cr  == Credit(db.accounts[p.cr], "pending", - p.amount)
           new == Released(db.accounts, p)[a]
           old == db.accounts[a]
<1>1. /\ p.dr \in Stored(db.accounts) /\ p.cr \in Stored(db.accounts) /\ p.dr # p.cr
      /\ p.amount \in 0 .. AmountMax /\ - p.amount \in Int /\ AmountMax \in Nat
  BY HeldRow, TransferRow, ConstantsAssumption
<1>2. a \in Accounts /\ db.accounts \in [Accounts -> AccountRows \cup {None}]
  BY AccountRow DEF DbOK, Databases
<1>3. new = IF a = p.cr THEN cr ELSE IF a = p.dr THEN dr ELSE old
  BY <1>1, <1>2 DEF Released
<1>4. /\ db.accounts[p.dr] \in AccountRows /\ db.accounts[p.cr] \in AccountRows
      /\ db.accounts[p.dr].debits_pending \in 0 .. AmountMax
      /\ db.accounts[p.cr].credits_pending \in 0 .. AmountMax
      /\ db.accounts[p.dr].debits_pending >= p.amount
      /\ db.accounts[p.cr].credits_pending >= p.amount
  BY <1>1, AccountRow, HoldIsPending
<1>5. /\ 0 <= db.accounts[p.dr].debits_pending + (- p.amount)
      /\ db.accounts[p.dr].debits_pending + (- p.amount) <= AmountMax
      /\ db.accounts[p.dr].debits_pending + (- p.amount) = db.accounts[p.dr].debits_pending - p.amount
      /\ 0 <= db.accounts[p.cr].credits_pending + (- p.amount)
      /\ db.accounts[p.cr].credits_pending + (- p.amount) <= AmountMax
      /\ db.accounts[p.cr].credits_pending + (- p.amount) = db.accounts[p.cr].credits_pending - p.amount
  BY <1>1, <1>4
<1>6. /\ dr \in AccountRows
      /\ dr.timestamp = db.accounts[p.dr].timestamp /\ dr.flags = db.accounts[p.dr].flags
      /\ dr.debits_pending = db.accounts[p.dr].debits_pending + (- p.amount)
      /\ dr.debits_posted = db.accounts[p.dr].debits_posted
      /\ dr.credits_pending = db.accounts[p.dr].credits_pending
      /\ dr.credits_posted = db.accounts[p.dr].credits_posted
  BY <1>1, <1>4, <1>5, DebitRow
<1>7. /\ cr \in AccountRows
      /\ cr.timestamp = db.accounts[p.cr].timestamp /\ cr.flags = db.accounts[p.cr].flags
      /\ cr.credits_pending = db.accounts[p.cr].credits_pending + (- p.amount)
      /\ cr.credits_posted = db.accounts[p.cr].credits_posted
      /\ cr.debits_pending = db.accounts[p.cr].debits_pending
      /\ cr.debits_posted = db.accounts[p.cr].debits_posted
  BY <1>1, <1>4, <1>5, CreditRow
<1>8. old \in AccountRows
  BY AccountRow
<1> HIDE DEF dr, cr
<1>9. CASE a = p.cr
  BY <1>1, <1>3, <1>5, <1>7, <1>9
<1>10. CASE a = p.dr
  BY <1>1, <1>3, <1>5, <1>6, <1>10
<1>11. CASE a # p.dr /\ a # p.cr
  BY <1>3, <1>8, <1>11
<1> QED BY <1>9, <1>10, <1>11

\* ... and the accounts it closed are opened again.
LEMMA RevertedRows ==
  ASSUME NEW db, DbOK(db), BalancesAre(db), NEW i \in Held(db), NEW a \in Stored(db.accounts)
  PROVE  LET p   == db.transfers[i]
             new == Reverted(db.accounts, p)[a]
             old == db.accounts[a]
         IN /\ new \in AccountRows
            /\ new.timestamp = old.timestamp
            /\ new.flags = IF Closing(p, a) THEN old.flags \ {"closed"} ELSE old.flags
            /\ new.debits_pending =
                 IF a = p.dr THEN old.debits_pending - p.amount ELSE old.debits_pending
            /\ new.credits_pending =
                 IF a = p.cr THEN old.credits_pending - p.amount ELSE old.credits_pending
            /\ new.debits_posted = old.debits_posted /\ new.credits_posted = old.credits_posted
<1> DEFINE p    == db.transfers[i]
           free == Released(db.accounts, p)[a]
           new  == Reverted(db.accounts, p)[a]
           old  == db.accounts[a]
<1>1. a \in Accounts
  BY AccountRow
<1>2. new = IF Closing(p, a) THEN Reopen(free) ELSE free
  BY <1>1 DEF Reverted, Closing
<1>3. /\ free \in AccountRows
      /\ free.timestamp = old.timestamp /\ free.flags = old.flags
      /\ free.debits_pending = IF a = p.dr THEN old.debits_pending - p.amount ELSE old.debits_pending
      /\ free.credits_pending = IF a = p.cr THEN old.credits_pending - p.amount ELSE old.credits_pending
      /\ free.debits_posted = old.debits_posted /\ free.credits_posted = old.credits_posted
  BY ReleasedRows
<1> HIDE DEF free, new, old, p
<1>4. CASE Closing(p, a)
  <2>1. /\ new \in AccountRows /\ new.flags = free.flags \ {"closed"}
        /\ new.timestamp = free.timestamp
        /\ new.debits_pending = free.debits_pending /\ new.debits_posted = free.debits_posted
        /\ new.credits_pending = free.credits_pending /\ new.credits_posted = free.credits_posted
    BY <1>2, <1>3, <1>4, CloseRow
  <2> QED BY <1>3, <1>4, <2>1 DEF new, old, p
<1>5. CASE ~Closing(p, a)
  BY <1>2, <1>3, <1>5 DEF new, old, p
<1> QED BY <1>4, <1>5

\* The accounts when the hold i is posted for n.
PostedFor(accounts, p, n) ==
  [Released(accounts, p) EXCEPT ![p.dr] = Debit(@, "posted", n),
                                ![p.cr] = Credit(@, "posted", n)]

\* The rows of the accounts when the hold i is posted for n: what was pending is given
\* back and n is posted (commit_post_void_accounts).
LEMMA PostedRows ==
  ASSUME NEW db, DbOK(db), BalancesAre(db), NEW i \in Held(db), NEW a \in Stored(db.accounts),
         \A b \in Stored(db.accounts) : InRange(db.accounts[b]),
         NEW n \in 0 .. AmountMax, n <= db.transfers[i].amount
  PROVE  LET p   == db.transfers[i]
             new == PostedFor(db.accounts, p, n)[a]
             old == db.accounts[a]
         IN /\ new \in AccountRows
            /\ new.timestamp = old.timestamp /\ new.flags = old.flags
            /\ new.debits_pending =
                 IF a = p.dr THEN old.debits_pending - p.amount ELSE old.debits_pending
            /\ new.credits_pending =
                 IF a = p.cr THEN old.credits_pending - p.amount ELSE old.credits_pending
            /\ new.debits_posted =
                 IF a = p.dr THEN old.debits_posted + n ELSE old.debits_posted
            /\ new.credits_posted =
                 IF a = p.cr THEN old.credits_posted + n ELSE old.credits_posted
<1> DEFINE p    == db.transfers[i]
           free == Released(db.accounts, p)
           new  == PostedFor(db.accounts, p, n)[a]
           old  == db.accounts[a]
<1>1. /\ p.dr \in Stored(db.accounts) /\ p.cr \in Stored(db.accounts) /\ p.dr # p.cr
      /\ p.amount \in 0 .. AmountMax /\ AmountMax \in Nat /\ n \in Int
  BY HeldRow, TransferRow, ConstantsAssumption
<1>2. a \in Accounts /\ db.accounts \in [Accounts -> AccountRows \cup {None}]
  BY AccountRow DEF DbOK, Databases
<1>3. DOMAIN free = Accounts
  BY <1>2 DEF Released
<1>4. /\ free[a] \in AccountRows
      /\ free[a].timestamp = old.timestamp /\ free[a].flags = old.flags
      /\ free[a].debits_pending = IF a = p.dr THEN old.debits_pending - p.amount ELSE old.debits_pending
      /\ free[a].credits_pending = IF a = p.cr THEN old.credits_pending - p.amount ELSE old.credits_pending
      /\ free[a].debits_posted = old.debits_posted /\ free[a].credits_posted = old.credits_posted
  BY ReleasedRows
<1>5. new = IF a = p.cr THEN Credit(free[a], "posted", n)
            ELSE IF a = p.dr THEN Debit(free[a], "posted", n) ELSE free[a]
  <2> HIDE DEF free
  <2> QED BY <1>1, <1>2, <1>3 DEF PostedFor, free
<1>6. /\ old.debits_pending \in 0 .. AmountMax /\ old.debits_posted \in 0 .. AmountMax
      /\ old.credits_pending \in 0 .. AmountMax /\ old.credits_posted \in 0 .. AmountMax
      /\ InRange(old)
  BY AccountRow
<1>7. /\ a = p.dr => old.debits_pending >= p.amount
      /\ a = p.cr => old.credits_pending >= p.amount
  BY HoldIsPending
<1>8. /\ a = p.dr => 0 <= free[a].debits_posted + n /\ free[a].debits_posted + n <= AmountMax
      /\ a = p.cr => 0 <= free[a].credits_posted + n /\ free[a].credits_posted + n <= AmountMax
  <2> HIDE DEF free, old
  <2> QED BY <1>1, <1>4, <1>6, <1>7 DEF InRange, old
<1> HIDE DEF free, new, old
<1>9. CASE a = p.cr
  <2>1. /\ new \in AccountRows
        /\ new.timestamp = free[a].timestamp /\ new.flags = free[a].flags
        /\ new.credits_pending = free[a].credits_pending
        /\ new.credits_posted = free[a].credits_posted + n
        /\ new.debits_pending = free[a].debits_pending /\ new.debits_posted = free[a].debits_posted
    BY <1>1, <1>4, <1>5, <1>8, <1>9, CreditRow
  <2> QED BY <1>1, <1>4, <1>9, <2>1 DEF new, old
<1>10. CASE a = p.dr
  <2>1. /\ new \in AccountRows
        /\ new.timestamp = free[a].timestamp /\ new.flags = free[a].flags
        /\ new.debits_pending = free[a].debits_pending
        /\ new.debits_posted = free[a].debits_posted + n
        /\ new.credits_pending = free[a].credits_pending /\ new.credits_posted = free[a].credits_posted
    BY <1>1, <1>4, <1>5, <1>8, <1>10, DebitRow
  <2> QED BY <1>1, <1>4, <1>10, <2>1 DEF new, old
<1>11. CASE a # p.dr /\ a # p.cr
  BY <1>4, <1>5, <1>11 DEF new, old
<1> QED BY <1>9, <1>10, <1>11

\* The row of an account follows when the hold p is given back and n of it is posted.
Settled(p, n, a, old, new) ==
  /\ new.flags = IF Closing(p, a) THEN old.flags \ {"closed"} ELSE old.flags
  /\ new.debits_pending = IF a = p.dr THEN old.debits_pending - p.amount ELSE old.debits_pending
  /\ new.credits_pending = IF a = p.cr THEN old.credits_pending - p.amount ELSE old.credits_pending
  /\ new.debits_posted = IF a = p.dr THEN old.debits_posted + n ELSE old.debits_posted
  /\ new.credits_posted = IF a = p.cr THEN old.credits_posted + n ELSE old.credits_posted

\* The database d follows db when the hold i is given back and n of it is posted.
Settles(db, d, i, n) ==
  LET p == db.transfers[i] IN
  /\ Stored(d.accounts) = Stored(db.accounts)
  /\ \A j \in Stored(db.transfers) : d.transfers[j] = db.transfers[j]
  /\ Held(d) = Held(db) \ {i}
  /\ \/ n = 0 /\ Posted(d) = Posted(db)
     \/ \E x : /\ x \notin Stored(db.transfers) /\ Posted(d) = Posted(db) \cup {x}
               /\ d.transfers[x].dr = p.dr /\ d.transfers[x].cr = p.cr /\ d.transfers[x].amount = n
  /\ \A a \in Stored(db.accounts) : Settled(p, n, a, db.accounts[a], d.accounts[a])

\* A hold that is settled for n (0 for a void or an expiry) moves out of the pending
\* sums, and n into the posted ones: the balances are still the sums.
LEMMA SettleKeepsBalances ==
  ASSUME NEW db, Ledger(db), NEW i \in Held(db), NEW d, NEW n \in 0 .. AmountMax, Settles(db, d, i, n)
  PROVE  BalancesAre(d)
<1> DEFINE p == db.transfers[i]
<1>0. DbOK(db) /\ BalancesAre(db)
  BY DEF Ledger
<1>1. /\ Stored(d.accounts) = Stored(db.accounts)
      /\ \A j \in Stored(db.transfers) : d.transfers[j] = db.transfers[j]
      /\ Held(d) = Held(db) \ {i}
  BY DEF Settles
<1>2. /\ Held(db) \subseteq Stored(db.transfers) /\ Posted(db) \subseteq Stored(db.transfers)
      /\ Held(db) \ {i} \subseteq Stored(db.transfers)
  BY DEF Held, Posted
<1>3. n \in Nat /\ p.amount \in Nat /\ AmountMax \in Nat
  BY <1>0, HeldRow, TransferRow, ConstantsAssumption
<1>4. ASSUME NEW a \in Stored(d.accounts)
      PROVE  /\ d.accounts[a].debits_pending  = Total(d.transfers, Debiting(d, Held(d), a))
             /\ d.accounts[a].credits_pending = Total(d.transfers, Crediting(d, Held(d), a))
             /\ d.accounts[a].debits_posted   = Total(d.transfers, Debiting(d, Posted(d), a))
             /\ d.accounts[a].credits_posted  = Total(d.transfers, Crediting(d, Posted(d), a))
  <2> DEFINE old == db.accounts[a]
             new == d.accounts[a]
  <2>1. /\ new.debits_pending =
             IF a = p.dr THEN old.debits_pending - p.amount ELSE old.debits_pending
        /\ new.credits_pending =
             IF a = p.cr THEN old.credits_pending - p.amount ELSE old.credits_pending
        /\ new.debits_posted =
             IF a = p.dr THEN old.debits_posted + n ELSE old.debits_posted
        /\ new.credits_posted =
             IF a = p.cr THEN old.credits_posted + n ELSE old.credits_posted
    BY <1>1 DEF Settles, Settled
  <2>2. /\ old.debits_pending  = Total(db.transfers, Debiting(db, Held(db), a))
        /\ old.credits_pending = Total(db.transfers, Crediting(db, Held(db), a))
        /\ old.debits_posted   = Total(db.transfers, Debiting(db, Posted(db), a))
        /\ old.credits_posted  = Total(db.transfers, Crediting(db, Posted(db), a))
    BY <1>0, <1>1 DEF BalancesAre
  <2>3. \A S \in {Held(db), Posted(db), Held(db) \ {i}} :
          /\ Total(d.transfers, Debiting(d, S, a)) = Total(db.transfers, Debiting(db, S, a))
          /\ Total(d.transfers, Crediting(d, S, a)) = Total(db.transfers, Crediting(db, S, a))
          /\ Total(db.transfers, Debiting(db, S, a)) \in Nat
          /\ Total(db.transfers, Crediting(db, S, a)) \in Nat
    <3>1. ASSUME NEW S, S \subseteq Stored(db.transfers)
          PROVE  /\ Total(d.transfers, Debiting(d, S, a)) = Total(db.transfers, Debiting(db, S, a))
                 /\ Total(d.transfers, Crediting(d, S, a)) = Total(db.transfers, Crediting(db, S, a))
                 /\ Total(db.transfers, Debiting(db, S, a)) \in Nat
                 /\ Total(db.transfers, Crediting(db, S, a)) \in Nat
      <4>1. \A j \in S : d.transfers[j] = db.transfers[j]
        BY <1>1, <3>1
      <4> QED BY <1>0, <3>1, <4>1, SumOfSameRows
    <3> QED BY <1>2, <3>1
  <2>4. /\ Total(db.transfers, Debiting(db, Held(db) \ {i}, a)) =
             Total(db.transfers, Debiting(db, Held(db), a)) - (IF p.dr = a THEN p.amount ELSE 0)
        /\ Total(db.transfers, Crediting(db, Held(db) \ {i}, a)) =
             Total(db.transfers, Crediting(db, Held(db), a)) - (IF p.cr = a THEN p.amount ELSE 0)
    BY <1>0, <1>2, SumWithoutRow
  <2>5. /\ new.debits_pending  = Total(d.transfers, Debiting(d, Held(d), a))
        /\ new.credits_pending = Total(d.transfers, Crediting(d, Held(d), a))
    <3> HIDE DEF old, new, p
    <3> QED BY <1>1, <1>3, <2>1, <2>2, <2>3, <2>4
  <2>6. /\ new.debits_posted  = Total(d.transfers, Debiting(d, Posted(d), a))
        /\ new.credits_posted = Total(d.transfers, Crediting(d, Posted(d), a))
    <3>1. CASE n = 0 /\ Posted(d) = Posted(db)
      <4> HIDE DEF old, new, p
      <4> QED BY <2>1, <2>2, <2>3, <3>1
    <3>2. ASSUME NEW x, x \notin Stored(db.transfers), Posted(d) = Posted(db) \cup {x},
                 d.transfers[x].dr = p.dr, d.transfers[x].cr = p.cr, d.transfers[x].amount = n
          PROVE  <2>6!1 /\ <2>6!2
      <4>1. \A j \in Posted(db) : d.transfers[j] = db.transfers[j]
        BY <1>1, <1>2
      <4>2. d.transfers[x].amount \in Nat
        BY <1>3, <3>2
      <4>3. /\ Total(d.transfers, Debiting(d, Posted(db) \cup {x}, a)) =
                 Total(db.transfers, Debiting(db, Posted(db), a))
                 + (IF d.transfers[x].dr = a THEN d.transfers[x].amount ELSE 0)
            /\ Total(d.transfers, Crediting(d, Posted(db) \cup {x}, a)) =
                 Total(db.transfers, Crediting(db, Posted(db), a))
                 + (IF d.transfers[x].cr = a THEN d.transfers[x].amount ELSE 0)
        <5>1. DbOK(db) /\ Posted(db) \subseteq Stored(db.transfers) /\ x \notin Stored(db.transfers)
          BY <1>0, <1>2, <3>2
        <5> QED BY <4>1, <4>2, <5>1, SumWithRow
      <4> HIDE DEF old, new, p
      <4> QED BY <1>3, <2>1, <2>2, <2>3, <3>2, <4>3
    <3> QED BY <3>1, <3>2 DEF Settles
  <2> QED BY <2>5, <2>6
<1> QED BY <1>4 DEF BalancesAre

\* Settling a hold keeps all of the ledger; a limit holds because no more is posted
\* than was held.
LEMMA SettleKeepsLedger ==
  ASSUME NEW db, Ledger(db), NEW i \in Held(db), NEW d, DbOK(d), ResolvedOnceIn(d),
         NEW n \in 0 .. AmountMax, n <= db.transfers[i].amount, Settles(db, d, i, n)
  PROVE  Ledger(d)
<1> DEFINE p == db.transfers[i]
<1>0. DbOK(db) /\ BalancesAre(db) /\ ClosedByHolds(db)
  BY DEF Ledger
<1>1. BalancesAre(d)
  BY SettleKeepsBalances
<1>2. /\ Stored(d.accounts) = Stored(db.accounts)
      /\ \A j \in Stored(db.transfers) : d.transfers[j] = db.transfers[j]
      /\ Held(d) = Held(db) \ {i}
  BY DEF Settles
<1>3. /\ p.amount \in 0 .. AmountMax /\ n \in Int /\ AmountMax \in Nat
      /\ p.dr # p.cr
  BY <1>0, HeldRow, TransferRow, ConstantsAssumption
<1>4. ASSUME NEW a \in Stored(d.accounts)
      PROVE  InRange(d.accounts[a]) /\ Limited(d.accounts[a])
  <2> DEFINE old == db.accounts[a]
             new == d.accounts[a]
  <2>1. /\ new.flags = IF Closing(p, a) THEN old.flags \ {"closed"} ELSE old.flags
        /\ new.debits_pending =
             IF a = p.dr THEN old.debits_pending - p.amount ELSE old.debits_pending
        /\ new.credits_pending =
             IF a = p.cr THEN old.credits_pending - p.amount ELSE old.credits_pending
        /\ new.debits_posted =
             IF a = p.dr THEN old.debits_posted + n ELSE old.debits_posted
        /\ new.credits_posted =
             IF a = p.cr THEN old.credits_posted + n ELSE old.credits_posted
    BY <1>2 DEF Settles, Settled
  <2>2. /\ old.debits_pending \in 0 .. AmountMax /\ old.debits_posted \in 0 .. AmountMax
        /\ old.credits_pending \in 0 .. AmountMax /\ old.credits_posted \in 0 .. AmountMax
    BY <1>0, <1>2, AccountRow
  <2>3. InRange(old) /\ Limited(old)
    BY <1>2 DEF Ledger
  <2>4. /\ "debits_must_not_exceed_credits" \in new.flags <=> "debits_must_not_exceed_credits" \in old.flags
        /\ "credits_must_not_exceed_debits" \in new.flags <=> "credits_must_not_exceed_debits" \in old.flags
    BY <2>1
  <2> HIDE DEF old, new, p
  <2>5. n <= p.amount
    BY DEF p
  <2>6. InRange(new)
    BY <1>3, <2>1, <2>2, <2>3, <2>5 DEF InRange
  <2>7. Limited(new)
    BY <1>3, <2>1, <2>2, <2>3, <2>4, <2>5 DEF Limited
  <2> QED BY <2>6, <2>7 DEF new
<1>5. ClosedByHolds(d)
  <2> SUFFICES ASSUME NEW j \in Held(d), NEW a \in Accounts, Closes(d, j, a)
               PROVE  /\ Closed(d.accounts[a])
                      /\ \A k \in Held(d) : Closes(d, k, a) => k = j
    BY DEF ClosedByHolds
  <2>1. \A k \in Held(d) : k \in Held(db) /\ k # i /\ (Closes(d, k, a) <=> Closes(db, k, a))
    BY <1>2 DEF Held, Closes, ClosesDebit, ClosesCredit
  <2>2. j \in Held(db) /\ Closes(db, j, a)
    BY <2>1
  <2>3. Closed(db.accounts[a]) /\ \A k \in Held(db) : Closes(db, k, a) => k = j
    BY <1>0, <2>2 DEF ClosedByHolds
  <2>4. ~Closing(p, a)
    BY <2>1, <2>3 DEF Closing, Closes, ClosesDebit, ClosesCredit
  <2>5. a \in Stored(db.accounts)
    BY <1>0, <2>2, HeldRow, TransferRow DEF Closes, ClosesDebit, ClosesCredit
  <2>6. d.accounts[a].flags = db.accounts[a].flags
    BY <2>4, <2>5 DEF Settles, Settled
  <2> QED BY <2>1, <2>3, <2>6 DEF Closed
<1> QED BY <1>1, <1>4, <1>5 DEF Ledger

\* What a post or a void of n asks of the database.
Resolvable(db, e, n) ==
  LET p == db.transfers[e.pending_id] IN
  /\ e.pending_id \in Held(db) /\ e.pending_id # e.id
  /\ db.transfers[e.id] = None
  /\ IsPost(e) \/ IsVoid(e)
  /\ ~(IsPost(e) /\ IsVoid(e)) /\ ~IsPending(e)
  /\ n <= p.amount
  /\ IsVoid(e) => n = p.amount
  /\ IsPost(e) => ~Closed(db.accounts[p.dr]) /\ ~Closed(db.accounts[p.cr])

\* The rows that are stored when a post or a void is created.
LEMMA ResolveRows ==
  ASSUME NEW db, Ledger(db), NEW e \in TransferEvents, NEW ts \in 1 .. TimestampMax,
         NEW n \in 0 .. AmountMax, Resolvable(db, e, n),
         SeparateHolds(db)
  PROVE  LET d == PostOrVoid(db, e, ts, n)
             t == d.transfers[e.id]
             p == db.transfers[e.pending_id]
         IN /\ d \in Databases
            /\ Stored(d.accounts) = Stored(db.accounts)
            /\ Stored(d.transfers) = Stored(db.transfers) \cup {e.id}
            /\ e.id \in Ids \ Stored(db.transfers)
            /\ e.pending_id \in Stored(db.transfers)
            /\ \A i \in Ids \ {e.id} : d.transfers[i] = db.transfers[i]
            /\ \A i \in Ids \ {e.pending_id} : d.pending[i] = db.pending[i]
            /\ d.pending[e.pending_id] = IF IsPost(e) THEN "Posted" ELSE "Voided"
            /\ t \in TransferRows
            /\ t.dr = p.dr /\ t.cr = p.cr /\ t.amount = n /\ t.flags = e.flags
            /\ t.pending_id = e.pending_id /\ t.timestamp = ts /\ t.timeout = 0
            /\ \A a \in Stored(db.accounts) :
                 /\ d.accounts[a].timestamp = db.accounts[a].timestamp
                 /\ Settled(p, IF IsPost(e) THEN n ELSE 0, a, db.accounts[a], d.accounts[a])
<1> DEFINE d == PostOrVoid(db, e, ts, n)
           p == db.transfers[e.pending_id]
           t == [dr |-> p.dr, cr |-> p.cr, amount |-> n, flags |-> e.flags,
                 pending_id |-> e.pending_id, timeout |-> 0, timestamp |-> ts]
           m == IF IsPost(e) THEN n ELSE 0
<1>0. /\ DbOK(db) /\ BalancesAre(db) /\ ClosedByHolds(db)
      /\ \A b \in Stored(db.accounts) : InRange(db.accounts[b])
      /\ db.accounts \in [Accounts -> AccountRows \cup {None}]
      /\ db.transfers \in [Ids -> TransferRows \cup {None}]
      /\ db.pending \in [Ids -> Status \cup {None}]
  BY DEF Ledger, DbOK, Databases
<1>1. /\ e.id \in Ids /\ e.flags \in SUBSET TransferFlags /\ db.transfers[e.id] = None
      /\ e.pending_id \in Held(db) /\ e.pending_id # e.id
      /\ IsPost(e) \/ IsVoid(e)
      /\ ~(IsPost(e) /\ IsVoid(e)) /\ ~IsPending(e) /\ n <= p.amount
  BY DEF TransferEvents, Resolvable
<1>2. /\ e.pending_id \in Stored(db.transfers) /\ e.pending_id \in Ids
      /\ p.dr \in Stored(db.accounts) /\ p.cr \in Stored(db.accounts) /\ p.dr # p.cr
      /\ p.dr \in Accounts /\ p.cr \in Accounts
      /\ p.amount \in Nat /\ n \in Int
  BY <1>0, <1>1, HeldRow, TransferRow, AccountRow
<1>3. t \in TransferRows /\ t # None
  <2>1. t \in TransferRows
    BY <1>1, <1>2 DEF TransferRows
  <2> QED BY <2>1, NoneAssumption
<1>4. /\ d = [accounts |-> d.accounts, transfers |-> d.transfers, pending |-> d.pending]
      /\ d.transfers = [db.transfers EXCEPT ![e.id] = t]
      /\ d.pending = [db.pending EXCEPT ![e.pending_id] = IF IsPost(e) THEN "Posted" ELSE "Voided"]
      /\ d.accounts = IF IsVoid(e) THEN Reverted(db.accounts, p) ELSE PostedFor(db.accounts, p, n)
  <2> DEFINE status == IF IsPost(e) THEN "Posted" ELSE "Voided"
  <2>1. IsPending(p)
    BY <1>0, <1>1, HeldRow
  <2> HIDE DEF status
  <2>2. WithRow(db, e.pending_id, p.timestamp, status) = [db.pending EXCEPT ![e.pending_id] = status]
    BY <1>0, <1>2, <2>1, RowOfHold
  <2> QED BY <2>2 DEF PostOrVoid, PostedFor, status
<1> HIDE DEF d, t
<1>5. d.transfers \in [Ids -> TransferRows \cup {None}] /\ d.pending \in [Ids -> Status \cup {None}]
  <2>1. (IF IsPost(e) THEN "Posted" ELSE "Voided") \in Status
    BY DEF Status
  <2> HIDE DEF p, m
  <2>2. d.transfers \in [Ids -> TransferRows \cup {None}]
    BY <1>0, <1>3, <1>4
  <2>3. d.pending \in [Ids -> Status \cup {None}]
    BY <1>0, <1>4, <2>1
  <2> QED BY <2>2, <2>3
<1>6. ASSUME NEW a \in Stored(db.accounts)
      PROVE  LET new == d.accounts[a]
                 old == db.accounts[a]
             IN /\ new \in AccountRows
                /\ new.timestamp = old.timestamp
                /\ new.flags = IF Closing(p, a) THEN old.flags \ {"closed"} ELSE old.flags
                /\ new.debits_pending =
                     IF a = p.dr THEN old.debits_pending - p.amount ELSE old.debits_pending
                /\ new.credits_pending =
                     IF a = p.cr THEN old.credits_pending - p.amount ELSE old.credits_pending
                /\ new.debits_posted =
                     IF a = p.dr THEN old.debits_posted + m ELSE old.debits_posted
                /\ new.credits_posted =
                     IF a = p.cr THEN old.credits_posted + m ELSE old.credits_posted
  <2> DEFINE new == d.accounts[a]
             old == db.accounts[a]
  <2>1. /\ old.debits_posted \in 0 .. AmountMax /\ old.credits_posted \in 0 .. AmountMax
        /\ AmountMax \in Nat
    BY <1>0, AccountRow, ConstantsAssumption
  <2>2. CASE IsVoid(e)
    <3>1. new = Reverted(db.accounts, p)[a] /\ m = 0
      BY <1>1, <1>4, <2>2
    <3> DEFINE r == Reverted(db.accounts, p)[a]
    <3>2. /\ r \in AccountRows
          /\ r.timestamp = old.timestamp
          /\ r.flags = IF Closing(p, a) THEN old.flags \ {"closed"} ELSE old.flags
          /\ r.debits_pending =
               IF a = p.dr THEN old.debits_pending - p.amount ELSE old.debits_pending
          /\ r.credits_pending =
               IF a = p.cr THEN old.credits_pending - p.amount ELSE old.credits_pending
          /\ r.debits_posted = old.debits_posted /\ r.credits_posted = old.credits_posted
      BY <1>0, <1>1, RevertedRows
    <3>3. old.debits_posted + m = old.debits_posted /\ old.credits_posted + m = old.credits_posted
      <4> HIDE DEF old, m
      <4> QED BY <2>1, <3>1
    <3> HIDE DEF new, old, m, p, r
    <3> QED BY <3>1, <3>2, <3>3 DEF new, old, r
  <2>3. CASE ~IsVoid(e)
    <3>1. new = PostedFor(db.accounts, p, n)[a] /\ m = n /\ IsPost(e)
      BY <1>1, <1>4, <2>3
    <3>2. /\ new \in AccountRows
          /\ new.timestamp = old.timestamp /\ new.flags = old.flags
          /\ new.debits_pending =
               IF a = p.dr THEN old.debits_pending - p.amount ELSE old.debits_pending
          /\ new.credits_pending =
               IF a = p.cr THEN old.credits_pending - p.amount ELSE old.credits_pending
          /\ new.debits_posted = IF a = p.dr THEN old.debits_posted + n ELSE old.debits_posted
          /\ new.credits_posted = IF a = p.cr THEN old.credits_posted + n ELSE old.credits_posted
      BY <1>0, <1>1, <3>1, PostedRows
    <3>3. ~Closed(db.accounts[p.dr]) /\ ~Closed(db.accounts[p.cr])
      BY <3>1 DEF Resolvable
    <3>4. ~Closing(p, a)
      BY <1>0, <1>1, <1>2, <3>3 DEF ClosedByHolds, Closes, ClosesDebit, ClosesCredit, Closing
    <3> HIDE DEF new, old, m, p
    <3> QED BY <3>1, <3>2, <3>4 DEF new, old
  <2> QED BY <2>2, <2>3
<1>7. DOMAIN d.accounts = Accounts /\ d.accounts = [a \in Accounts |-> d.accounts[a]]
  <2>1. CASE IsVoid(e)
    BY <1>4, <2>1 DEF Reverted
  <2>2. CASE ~IsVoid(e)
    BY <1>0, <1>4, <2>2 DEF PostedFor, Released
  <2> QED BY <2>1, <2>2
<1>8. ASSUME NEW a \in Accounts
      PROVE  /\ db.accounts[a] = None => d.accounts[a] = None
             /\ db.accounts[a] # None => d.accounts[a] # None /\ d.accounts[a] \in AccountRows
  <2>1. CASE a \in Stored(db.accounts)
    <3>1. d.accounts[a] \in AccountRows /\ db.accounts[a] # None
      BY <1>6, <2>1 DEF Stored
    <3> QED BY <3>1, NoneAssumption
  <2>2. CASE a \notin Stored(db.accounts)
    <3>1. db.accounts[a] = None /\ a # p.dr /\ a # p.cr
      BY <1>0, <1>2, <2>2 DEF Stored
    <3>2. Released(db.accounts, p)[a] = db.accounts[a]
      BY <1>0, <3>1 DEF Released
    <3>3. d.accounts[a] = db.accounts[a]
      <4>1. CASE IsVoid(e)
        BY <1>4, <3>1, <3>2, <4>1 DEF Reverted
      <4>2. CASE ~IsVoid(e)
        BY <1>0, <1>4, <3>1, <3>2, <4>2 DEF PostedFor, Released
      <4> QED BY <4>1, <4>2
    <3> QED BY <3>1, <3>3
  <2> QED BY <2>1, <2>2
<1>9. d.accounts \in [Accounts -> AccountRows \cup {None}]
  BY <1>7, <1>8
<1>10. Stored(d.accounts) = Stored(db.accounts)
  BY <1>0, <1>7, <1>8 DEF Stored
<1>11. d \in Databases
  BY <1>4, <1>5, <1>9 DEF Databases
<1>12. /\ d.transfers[e.id] = t
       /\ \A i \in Ids \ {e.id} : d.transfers[i] = db.transfers[i]
       /\ \A i \in Ids \ {e.pending_id} : d.pending[i] = db.pending[i]
       /\ d.pending[e.pending_id] = IF IsPost(e) THEN "Posted" ELSE "Voided"
  BY <1>0, <1>1, <1>2, <1>4
<1>13. Stored(d.transfers) = Stored(db.transfers) \cup {e.id} /\ e.id \in Ids \ Stored(db.transfers)
  <2>1. DOMAIN d.transfers = Ids /\ DOMAIN db.transfers = Ids
    BY <1>0, <1>5
  <2> QED BY <2>1, <1>1, <1>3, <1>12 DEF Stored
<1>14. t.dr = p.dr /\ t.cr = p.cr /\ t.amount = n /\ t.flags = e.flags
       /\ t.pending_id = e.pending_id /\ t.timestamp = ts /\ t.timeout = 0
  BY DEF t
<1>15. \A a \in Stored(db.accounts) :
         /\ d.accounts[a].timestamp = db.accounts[a].timestamp
         /\ Settled(p, m, a, db.accounts[a], d.accounts[a])
  BY <1>6 DEF Settled
<1> HIDE DEF p, m
<1> QED BY <1>2, <1>3, <1>10, <1>11, <1>12, <1>13, <1>14, <1>15 DEF d, p, m

\* What is stored by a post or a void: the hold is resolved, once, and what was
\* posted of it is posted.
LEMMA ResolveSettles ==
  ASSUME NEW db, Ledger(db), NEW e \in TransferEvents, NEW ts \in 1 .. TimestampMax,
         NEW n \in 0 .. AmountMax, Resolvable(db, e, n),
         SeparateHolds(db)
  PROVE  /\ Settles(db, PostOrVoid(db, e, ts, n), e.pending_id, IF IsPost(e) THEN n ELSE 0)
         /\ DbOK(PostOrVoid(db, e, ts, n))
         /\ ResolvedOnceIn(PostOrVoid(db, e, ts, n))
<1> DEFINE d == PostOrVoid(db, e, ts, n)
           i == e.pending_id
           p == db.transfers[i]
           m == IF IsPost(e) THEN n ELSE 0
<1> HIDE DEF d
<1>0. DbOK(db) /\ ResolvedOnceIn(db)
  BY DEF Ledger
<1>1. /\ d \in Databases
      /\ Stored(d.accounts) = Stored(db.accounts)
      /\ Stored(d.transfers) = Stored(db.transfers) \cup {e.id}
      /\ e.id \in Ids \ Stored(db.transfers)
      /\ i \in Stored(db.transfers)
      /\ \A j \in Ids \ {e.id} : d.transfers[j] = db.transfers[j]
      /\ \A j \in Ids \ {i} : d.pending[j] = db.pending[j]
      /\ d.pending[i] = IF IsPost(e) THEN "Posted" ELSE "Voided"
      /\ d.transfers[e.id].dr = p.dr /\ d.transfers[e.id].cr = p.cr
      /\ d.transfers[e.id].amount = n /\ d.transfers[e.id].flags = e.flags
      /\ d.transfers[e.id].pending_id = i
  BY ResolveRows DEF d
<1>2. \A a \in Stored(db.accounts) : Settled(p, m, a, db.accounts[a], d.accounts[a])
  BY ResolveRows DEF d
<1>3. /\ i \in Held(db) /\ i # e.id /\ ~IsPending(e)
      /\ IsPost(e) \/ IsVoid(e)
      /\ ~(IsPost(e) /\ IsVoid(e))
  BY DEF Resolvable
<1>4. IsPending(p) /\ db.pending[i] = "Pending" /\ i \in Ids
  BY <1>0, <1>3, HeldRow, TransferRow
<1>5. Stored(db.transfers) \subseteq Ids \ {e.id}
  BY <1>1 DEF DbOK, Databases, Stored
<1>6. \A j \in Stored(db.transfers) : d.transfers[j] = db.transfers[j]
  BY <1>1, <1>5
<1>7. d.pending[e.id] = None /\ db.pending[e.id] = None
  BY <1>0, <1>1, <1>3 DEF DbOK
<1> HIDE DEF i, p, m
<1>8. Held(d) = Held(db) \ {i}
  <2>1. ASSUME NEW j \in Held(d)
        PROVE  j \in Held(db) \ {i}
    <3>1. j \in Stored(d.transfers) /\ d.pending[j] = "Pending"
      BY DEF Held
    <3>2. j # i /\ j # e.id
      BY <1>1, <1>7, <3>1, NoneAssumption DEF Status
    <3>3. j \in Stored(db.transfers) /\ d.pending[j] = db.pending[j]
      BY <1>1, <1>5, <3>1, <3>2
    <3> QED BY <3>1, <3>2, <3>3 DEF Held
  <2>2. ASSUME NEW j \in Held(db), j # i
        PROVE  j \in Held(d)
    BY <1>1, <1>5, <2>2 DEF Held
  <2> QED BY <2>1, <2>2
<1>9. Posted(d) = IF IsPost(e) THEN Posted(db) \cup {e.id} ELSE Posted(db)
  <2>1. ~IsPending(d.transfers[e.id]) /\ (IsVoid(d.transfers[e.id]) <=> ~IsPost(e))
    BY <1>1, <1>3 DEF IsPending, IsVoid, IsPost
  <2> QED BY <1>1, <1>6, <2>1 DEF Posted
<1>10. \/ m = 0 /\ Posted(d) = Posted(db)
       \/ \E x : /\ x \notin Stored(db.transfers) /\ Posted(d) = Posted(db) \cup {x}
                 /\ d.transfers[x].dr = p.dr /\ d.transfers[x].cr = p.cr /\ d.transfers[x].amount = m
  <2>1. CASE IsPost(e)
    <3>1. /\ e.id \notin Stored(db.transfers) /\ Posted(d) = Posted(db) \cup {e.id}
          /\ d.transfers[e.id].dr = p.dr /\ d.transfers[e.id].cr = p.cr /\ d.transfers[e.id].amount = m
      BY <1>1, <1>9, <2>1 DEF m
    <3> QED BY <3>1
  <2>2. CASE ~IsPost(e)
    BY <1>9, <2>2 DEF m
  <2> QED BY <2>1, <2>2
<1>11. Settles(db, d, i, m)
  BY <1>1, <1>2, <1>6, <1>8, <1>10 DEF Settles, p
<1>12. DbOK(d)
  <2>1. ASSUME NEW j \in Stored(d.transfers)
        PROVE  LET t == d.transfers[j] IN
               /\ {t.dr, t.cr} \subseteq Stored(d.accounts) /\ t.dr # t.cr
               /\ t.pending_id # None => t.pending_id \in Stored(d.transfers)
               /\ d.pending[j] \in (IF IsPending(t) THEN Status ELSE {None})
    <3>1. CASE j = e.id
      <4>1. {p.dr, p.cr} \subseteq Stored(db.accounts) /\ p.dr # p.cr
        BY <1>0, <1>1 DEF DbOK, p
      <4>2. ~IsPending(d.transfers[j])
        BY <1>1, <1>3, <3>1 DEF IsPending
      <4> QED BY <1>1, <1>7, <3>1, <4>1, <4>2
    <3>2. CASE j # e.id
      <4>1. j \in Stored(db.transfers) /\ d.transfers[j] = db.transfers[j]
        BY <1>1, <1>6, <3>2
      <4>2. LET t == db.transfers[j] IN
               /\ {t.dr, t.cr} \subseteq Stored(db.accounts) /\ t.dr # t.cr
               /\ t.pending_id # None => t.pending_id \in Stored(db.transfers)
               /\ db.pending[j] \in (IF IsPending(t) THEN Status ELSE {None})
        BY <1>0, <4>1 DEF DbOK
      <4>3. d.pending[j] \in (IF IsPending(d.transfers[j]) THEN Status ELSE {None})
        <5>1. CASE j = i
          BY <1>1, <1>4, <4>1, <5>1 DEF Status, p
        <5>2. CASE j # i
          BY <1>1, <1>5, <4>1, <4>2, <5>2
        <5> QED BY <5>1, <5>2
      <4> QED BY <1>1, <4>1, <4>2, <4>3
    <3> QED BY <3>1, <3>2
  <2>2. \A j \in Ids \ Stored(d.transfers) : d.pending[j] = None
    BY <1>0, <1>1 DEF DbOK
  <2> QED BY <1>1, <2>1, <2>2 DEF DbOK
<1>13. ResolvedOnceIn(d)
  <2>1. Resolutions(d, i) = Resolutions(db, i) \cup {e.id}
    BY <1>1, <1>6 DEF Resolutions
  <2>2. \A j \in Ids \ {i} : Resolutions(d, j) = Resolutions(db, j)
    BY <1>1, <1>6 DEF Resolutions
  <2>3. Resolutions(db, i) = {}
    <3> SUFFICES ASSUME NEW j \in Resolutions(db, i)
                 PROVE  FALSE
      OBVIOUS
    <3>1. db.pending[i] \in {"Posted", "Voided"}
      BY <1>0, <1>4 DEF ResolvedOnceIn
    <3> QED BY <3>1, <1>4
  <2>4. ASSUME NEW k \in Ids
        PROVE  /\ \A j, l \in Resolutions(d, k) : j = l
               /\ \A j \in Resolutions(d, k) :
                    d.pending[k] = IF IsPost(d.transfers[j]) THEN "Posted" ELSE "Voided"
               /\ d.pending[k] \in {"Posted", "Voided"} => Resolutions(d, k) # {}
    <3>1. CASE k = i
      <4>1. IsPost(d.transfers[e.id]) <=> IsPost(e)
        BY <1>1 DEF IsPost
      <4> QED BY <1>1, <2>1, <2>3, <3>1, <4>1
    <3>2. CASE k # i
      <4>1. /\ \A j, l \in Resolutions(db, k) : j = l
            /\ \A j \in Resolutions(db, k) :
                 db.pending[k] = IF IsPost(db.transfers[j]) THEN "Posted" ELSE "Voided"
            /\ db.pending[k] \in {"Posted", "Voided"} => Resolutions(db, k) # {}
        BY <1>0 DEF ResolvedOnceIn
      <4>2. Resolutions(db, k) \subseteq Stored(db.transfers)
        BY DEF Resolutions
      <4> QED BY <1>1, <1>6, <2>2, <3>2, <4>1, <4>2
    <3> QED BY <3>1, <3>2
  <2> QED BY <2>4 DEF ResolvedOnceIn
<1> QED BY <1>11, <1>12, <1>13 DEF d, i, m

\* A post or a void (fold_post_void_transfer) keeps the ledger.
LEMMA ResolveKeepsLedger ==
  ASSUME NEW db, Ledger(db), NEW e \in TransferEvents, NEW ts \in 1 .. TimestampMax,
         NEW n \in 0 .. AmountMax, Resolvable(db, e, n),
         SeparateHolds(db)
  PROVE  Ledger(PostOrVoid(db, e, ts, n))
<1> DEFINE d == PostOrVoid(db, e, ts, n)
           m == IF IsPost(e) THEN n ELSE 0
<1>1. Settles(db, d, e.pending_id, m) /\ DbOK(d) /\ ResolvedOnceIn(d)
  BY ResolveSettles
<1>2. e.pending_id \in Held(db) /\ n <= db.transfers[e.pending_id].amount
  BY DEF Resolvable
<1>3. db.transfers[e.pending_id].amount \in 0 .. AmountMax /\ AmountMax \in Nat
  BY <1>2, HeldRow, TransferRow, ConstantsAssumption DEF Ledger
<1>4. m \in 0 .. AmountMax /\ m <= db.transfers[e.pending_id].amount
  BY <1>2, <1>3
<1> HIDE DEF d, m
<1>5. Ledger(d)
  BY <1>1, <1>2, <1>4, SettleKeepsLedger
<1> QED BY <1>5 DEF d

\* A post or a void that the checks let through meets what
\* commit_post_void_accounts asserts.
LEMMA ResolveAppliesCleanly ==
  ASSUME NEW db, Ledger(db), NEW e \in TransferEvents, NEW n \in 0 .. AmountMax, Resolvable(db, e, n)
  PROVE  AppliesCleanly(db, e, n)
<1> DEFINE i == e.pending_id
           p == db.transfers[i]
<1>1. /\ i \in Held(db) /\ n <= p.amount
      /\ IsVoid(e) => n = p.amount
      /\ IsPost(e) => ~Closed(db.accounts[p.dr]) /\ ~Closed(db.accounts[p.cr])
      /\ ~(IsPost(e) /\ IsVoid(e))
  BY DEF Resolvable
<1>2. p.dr \in Accounts /\ p.cr \in Accounts
  BY <1>1, HeldRow, TransferRow, AccountRow DEF Ledger
<1>3. /\ "closing_debit" \in p.flags => Closed(db.accounts[p.dr])
      /\ "closing_credit" \in p.flags => Closed(db.accounts[p.cr])
  BY <1>1, <1>2 DEF Ledger, ClosedByHolds, Closes, ClosesDebit, ClosesCredit
<1> QED BY <1>1, <1>3 DEF AppliesCleanly

-----------------------------------------------------------------------------
(* Expiry, and new accounts *)

\* An expiry keeps the ledger: the hold is given back and resolved.
LEMMA LapseKeepsLedger ==
  ASSUME NEW db, Ledger(db), NEW i \in Held(db), SeparateHolds(db)
  PROVE  LET d == Lapsed(db, i) IN
         /\ Ledger(d)
         /\ d.transfers = db.transfers
         /\ d.pending[i] = "Expired" /\ \A j \in Ids \ {i} : d.pending[j] = db.pending[j]
         /\ Stored(d.accounts) = Stored(db.accounts)
         /\ \A a \in Stored(db.accounts) : d.accounts[a].timestamp = db.accounts[a].timestamp
<1> DEFINE d == Lapsed(db, i)
           p == db.transfers[i]
<1>0. /\ DbOK(db) /\ BalancesAre(db) /\ ClosedByHolds(db) /\ ResolvedOnceIn(db)
      /\ db.accounts \in [Accounts -> AccountRows \cup {None}]
      /\ db.transfers \in [Ids -> TransferRows \cup {None}]
      /\ db.pending \in [Ids -> Status \cup {None}]
      /\ db = [accounts |-> db.accounts, transfers |-> db.transfers, pending |-> db.pending]
  BY DEF Ledger, DbOK, Databases
<1>1. /\ i \in Stored(db.transfers) /\ i \in Ids /\ IsPending(p) /\ db.pending[i] = "Pending"
      /\ p.dr \in Stored(db.accounts) /\ p.cr \in Stored(db.accounts)
      /\ p.amount \in 0 .. AmountMax /\ AmountMax \in Nat
  BY <1>0, HeldRow, TransferRow, ConstantsAssumption
<1>2. /\ d = [accounts |-> d.accounts, transfers |-> d.transfers, pending |-> d.pending]
      /\ d.accounts = Reverted(db.accounts, p) /\ d.transfers = db.transfers
      /\ d.pending = [db.pending EXCEPT ![i] = "Expired"]
  <2>1. WithRow(db, i, p.timestamp, "Expired") = [db.pending EXCEPT ![i] = "Expired"]
    BY <1>0, <1>1, RowOfHold
  <2> QED BY <2>1 DEF Lapsed
<1> HIDE DEF d
<1>3. ASSUME NEW a \in Stored(db.accounts)
      PROVE  Settled(p, 0, a, db.accounts[a], d.accounts[a]) /\ d.accounts[a] \in AccountRows
  <2> DEFINE new == Reverted(db.accounts, p)[a]
             old == db.accounts[a]
  <2>1. /\ new \in AccountRows
        /\ new.flags = IF Closing(p, a) THEN old.flags \ {"closed"} ELSE old.flags
        /\ new.debits_pending = IF a = p.dr THEN old.debits_pending - p.amount ELSE old.debits_pending
        /\ new.credits_pending = IF a = p.cr THEN old.credits_pending - p.amount ELSE old.credits_pending
        /\ new.debits_posted = old.debits_posted /\ new.credits_posted = old.credits_posted
    <3>1. DbOK(db) /\ BalancesAre(db)
      BY <1>0
    <3> QED BY <3>1, RevertedRows
  <2>2. old.debits_posted + 0 = old.debits_posted /\ old.credits_posted + 0 = old.credits_posted
    <3>1. old.debits_posted \in 0 .. AmountMax /\ old.credits_posted \in 0 .. AmountMax
      BY <1>0, AccountRow
    <3> HIDE DEF old
    <3> QED BY <1>1, <3>1
  <2> QED BY <1>2, <2>1, <2>2 DEF Settled
<1>4. ASSUME NEW a \in Accounts
      PROVE  /\ db.accounts[a] = None => d.accounts[a] = None
             /\ db.accounts[a] # None => d.accounts[a] # None /\ d.accounts[a] \in AccountRows
  <2>1. CASE a \in Stored(db.accounts)
    <3>1. d.accounts[a] \in AccountRows /\ db.accounts[a] # None
      BY <1>3, <2>1 DEF Stored
    <3> QED BY <3>1, NoneAssumption
  <2>2. CASE a \notin Stored(db.accounts)
    <3>1. db.accounts[a] = None /\ a # p.dr /\ a # p.cr
      BY <1>0, <1>1, <2>2 DEF Stored
    <3>2. Released(db.accounts, p)[a] = db.accounts[a]
      BY <1>0, <3>1 DEF Released
    <3>3. d.accounts[a] = db.accounts[a]
      BY <1>2, <3>1, <3>2 DEF Reverted
    <3> QED BY <3>1, <3>3
  <2> QED BY <2>1, <2>2
<1>5. d.accounts \in [Accounts -> AccountRows \cup {None}] /\ DOMAIN d.accounts = Accounts
  <2>1. DOMAIN d.accounts = Accounts /\ d.accounts = [a \in Accounts |-> d.accounts[a]]
    BY <1>2 DEF Reverted
  <2> QED BY <1>4, <2>1
<1>6. Stored(d.accounts) = Stored(db.accounts)
  BY <1>0, <1>4, <1>5 DEF Stored
<1>7. /\ d.pending \in [Ids -> Status \cup {None}] /\ d.pending[i] = "Expired"
      /\ \A j \in Ids \ {i} : d.pending[j] = db.pending[j]
  BY <1>0, <1>1, <1>2 DEF Status
<1>8. d \in Databases
  BY <1>0, <1>2, <1>5, <1>7 DEF Databases
<1>9. Held(d) = Held(db) \ {i} /\ Posted(d) = Posted(db)
  <2>1. Stored(db.transfers) \subseteq Ids
    BY <1>0 DEF Stored
  <2> QED BY <1>2, <1>7, <2>1 DEF Held, Posted
<1>10. Settles(db, d, i, 0)
  BY <1>2, <1>3, <1>6, <1>9 DEF Settles
<1>11. DbOK(d)
  <2>1. ASSUME NEW j \in Stored(d.transfers)
        PROVE  LET t == d.transfers[j] IN
               /\ {t.dr, t.cr} \subseteq Stored(d.accounts) /\ t.dr # t.cr
               /\ t.pending_id # None => t.pending_id \in Stored(d.transfers)
               /\ d.pending[j] \in (IF IsPending(t) THEN Status ELSE {None})
    <3>1. j \in Ids /\ j \in Stored(db.transfers)
      BY <1>0, <1>2 DEF Stored
    <3>2. LET t == db.transfers[j] IN
               /\ {t.dr, t.cr} \subseteq Stored(db.accounts) /\ t.dr # t.cr
               /\ t.pending_id # None => t.pending_id \in Stored(db.transfers)
               /\ db.pending[j] \in (IF IsPending(t) THEN Status ELSE {None})
      BY <1>0, <3>1 DEF DbOK
    <3>3. d.pending[j] \in (IF IsPending(d.transfers[j]) THEN Status ELSE {None})
      <4>1. CASE j = i
        BY <1>1, <1>2, <1>7, <4>1 DEF Status
      <4>2. CASE j # i
        BY <1>2, <1>7, <3>1, <3>2, <4>2
      <4> QED BY <4>1, <4>2
    <3> QED BY <1>2, <1>6, <3>2, <3>3
  <2>2. \A j \in Ids \ Stored(d.transfers) : d.pending[j] = None
    BY <1>0, <1>1, <1>2, <1>7 DEF DbOK
  <2> QED BY <1>8, <2>1, <2>2 DEF DbOK
<1>12. ResolvedOnceIn(d)
  <2>1. \A k \in Ids : Resolutions(d, k) = Resolutions(db, k)
    BY <1>2 DEF Resolutions
  <2>2. Resolutions(db, i) = {}
    <3> SUFFICES ASSUME NEW j \in Resolutions(db, i)
                 PROVE  FALSE
      OBVIOUS
    <3>1. db.pending[i] \in {"Posted", "Voided"}
      BY <1>0, <1>1 DEF ResolvedOnceIn
    <3> QED BY <3>1, <1>1
  <2>3. ASSUME NEW k \in Ids
        PROVE  /\ \A j, l \in Resolutions(d, k) : j = l
               /\ \A j \in Resolutions(d, k) :
                    d.pending[k] = IF IsPost(d.transfers[j]) THEN "Posted" ELSE "Voided"
               /\ d.pending[k] \in {"Posted", "Voided"} => Resolutions(d, k) # {}
    <3>1. CASE k = i
      BY <1>7, <2>1, <2>2, <3>1
    <3>2. CASE k # i
      <4>1. /\ \A j, l \in Resolutions(db, k) : j = l
            /\ \A j \in Resolutions(db, k) :
                 db.pending[k] = IF IsPost(db.transfers[j]) THEN "Posted" ELSE "Voided"
            /\ db.pending[k] \in {"Posted", "Voided"} => Resolutions(db, k) # {}
        BY <1>0 DEF ResolvedOnceIn
      <4> QED BY <1>2, <1>7, <2>1, <3>2, <4>1
    <3> QED BY <3>1, <3>2
  <2> QED BY <2>3 DEF ResolvedOnceIn
<1>13. 0 \in 0 .. AmountMax /\ 0 <= p.amount
  BY <1>1
<1>14. Ledger(d)
  BY <1>10, <1>11, <1>12, <1>13, SettleKeepsLedger
<1>15. \A a \in Stored(db.accounts) : d.accounts[a].timestamp = db.accounts[a].timestamp
  <2>1. DbOK(db) /\ BalancesAre(db)
    BY <1>0
  <2>2. \A a \in Stored(db.accounts) : Reverted(db.accounts, p)[a].timestamp = db.accounts[a].timestamp
    BY <2>1, RevertedRows
  <2> QED BY <1>2, <2>2
<1> QED BY <1>2, <1>6, <1>7, <1>14, <1>15 DEF d

\* The database when the account of the event e is created.
Opened(db, e, ts) == [db EXCEPT !.accounts[e.id] = NewAccount(e, ts)]

\* A new account is one more row, and no transfer names it yet.
LEMMA OpenKeepsShape ==
  ASSUME NEW db, DbOK(db), NEW e \in AccountEvents, NEW ts \in 1 .. TimestampMax,
         db.accounts[e.id] = None
  PROVE  /\ DbOK(Opened(db, e, ts))
         /\ Opened(db, e, ts).transfers = db.transfers /\ Opened(db, e, ts).pending = db.pending
         /\ Opened(db, e, ts).accounts[e.id] = NewAccount(e, ts)
         /\ \A a \in Stored(db.accounts) : Opened(db, e, ts).accounts[a] = db.accounts[a]
         /\ Stored(Opened(db, e, ts).accounts) = Stored(db.accounts) \cup {e.id}
         /\ e.id \notin Stored(db.accounts)
<1> DEFINE d == Opened(db, e, ts)
           r == NewAccount(e, ts)
<1>0. /\ db.accounts \in [Accounts -> AccountRows \cup {None}]
      /\ db.transfers \in [Ids -> TransferRows \cup {None}]
      /\ db.pending \in [Ids -> Status \cup {None}]
      /\ db = [accounts |-> db.accounts, transfers |-> db.transfers, pending |-> db.pending]
  BY DEF DbOK, Databases
<1>1. /\ e.id \in Accounts /\ e.flags \subseteq Flags /\ AmountMax \in Nat
      /\ e.id \notin Stored(db.accounts)
  BY ConstantsAssumption DEF AccountEvents, Stored
<1>2. r \in AccountRows /\ r # None
  <2>1. r \in AccountRows
    BY <1>1 DEF AccountRows, NewAccount
  <2> QED BY <2>1, NoneAssumption
<1> HIDE DEF r
<1>3. /\ d = [accounts |-> d.accounts, transfers |-> d.transfers, pending |-> d.pending]
      /\ d.accounts = [db.accounts EXCEPT ![e.id] = r]
      /\ d.transfers = db.transfers /\ d.pending = db.pending
  BY <1>0 DEF Opened, r
<1> HIDE DEF d
<1>4. /\ d.accounts \in [Accounts -> AccountRows \cup {None}]
      /\ d.accounts[e.id] = r
      /\ \A a \in Accounts \ {e.id} : d.accounts[a] = db.accounts[a]
  BY <1>0, <1>1, <1>2, <1>3
<1>5. d \in Databases
  BY <1>0, <1>3, <1>4 DEF Databases
<1>6. Stored(d.accounts) = Stored(db.accounts) \cup {e.id} /\ Stored(db.accounts) \subseteq Accounts
  BY <1>0, <1>1, <1>2, <1>3, <1>4 DEF Stored
<1>7. Stored(d.transfers) = Stored(db.transfers)
  BY <1>3
<1>8. DbOK(d)
  BY <1>3, <1>5, <1>6, <1>7 DEF DbOK
<1>9. \A a \in Stored(db.accounts) : d.accounts[a] = db.accounts[a]
  BY <1>1, <1>4, <1>6
<1> QED BY <1>1, <1>3, <1>4, <1>6, <1>8, <1>9 DEF d, r

\* ... and so a new account keeps the ledger.
LEMMA OpenKeepsLedger ==
  ASSUME NEW db, Ledger(db), NEW e \in AccountEvents, NEW ts \in 1 .. TimestampMax,
         db.accounts[e.id] = None
  PROVE  Ledger(Opened(db, e, ts))
<1> DEFINE d == Opened(db, e, ts)
           r == NewAccount(e, ts)
<1>0. DbOK(db) /\ BalancesAre(db) /\ ClosedByHolds(db) /\ ResolvedOnceIn(db)
  BY DEF Ledger
<1>1. AmountMax \in Nat /\ e.id \notin Stored(db.accounts)
  BY <1>0, ConstantsAssumption, OpenKeepsShape
<1>2. /\ r.debits_pending = 0 /\ r.debits_posted = 0
      /\ r.credits_pending = 0 /\ r.credits_posted = 0
  BY DEF NewAccount
<1>3. d.transfers = db.transfers /\ d.pending = db.pending
  BY <1>0, OpenKeepsShape
<1>4. /\ d.accounts[e.id] = r
      /\ \A a \in Stored(db.accounts) : d.accounts[a] = db.accounts[a]
  BY <1>0, OpenKeepsShape
<1>6. Stored(d.accounts) = Stored(db.accounts) \cup {e.id}
  BY <1>0, OpenKeepsShape
<1>8. DbOK(d)
  BY <1>0, OpenKeepsShape
<1> HIDE DEF d, r
<1>9. ResolvedOnceIn(d)
  BY <1>0, <1>3 DEF ResolvedOnceIn, Resolutions
<1>10. Held(d) = Held(db) /\ Posted(d) = Posted(db)
  BY <1>3 DEF Held, Posted
<1>11. \A S, a : Debiting(d, S, a) = Debiting(db, S, a) /\ Crediting(d, S, a) = Crediting(db, S, a)
  BY <1>3 DEF Debiting, Crediting
<1>12. ASSUME NEW a \in Stored(d.accounts)
       PROVE  /\ d.accounts[a].debits_pending  = Total(d.transfers, Debiting(d, Held(d), a))
              /\ d.accounts[a].credits_pending = Total(d.transfers, Crediting(d, Held(d), a))
              /\ d.accounts[a].debits_posted   = Total(d.transfers, Debiting(d, Posted(d), a))
              /\ d.accounts[a].credits_posted  = Total(d.transfers, Crediting(d, Posted(d), a))
              /\ InRange(d.accounts[a]) /\ Limited(d.accounts[a])
  <2>1. CASE a = e.id
    <3>1. \A i \in Stored(db.transfers) : db.transfers[i].dr # a /\ db.transfers[i].cr # a
      BY <1>0, <1>1, <2>1, TransferRow
    <3>2. /\ Debiting(db, Held(db), a) = {} /\ Crediting(db, Held(db), a) = {}
          /\ Debiting(db, Posted(db), a) = {} /\ Crediting(db, Posted(db), a) = {}
      BY <3>1 DEF Debiting, Crediting, Held, Posted
    <3>3. Total(d.transfers, {}) = 0
      BY TotalEmpty
    <3>4. InRange(r) /\ Limited(r)
      BY <1>1, <1>2 DEF InRange, Limited
    <3> QED BY <1>2, <1>4, <1>10, <1>11, <2>1, <3>2, <3>3, <3>4
  <2>2. CASE a # e.id
    <3>1. a \in Stored(db.accounts) /\ d.accounts[a] = db.accounts[a]
      BY <1>4, <1>6, <2>2
    <3>2. InRange(d.accounts[a]) /\ Limited(d.accounts[a])
      BY <3>1 DEF Ledger
    <3>3. /\ db.accounts[a].debits_pending  = Total(db.transfers, Debiting(db, Held(db), a))
          /\ db.accounts[a].credits_pending = Total(db.transfers, Crediting(db, Held(db), a))
          /\ db.accounts[a].debits_posted   = Total(db.transfers, Debiting(db, Posted(db), a))
          /\ db.accounts[a].credits_posted  = Total(db.transfers, Crediting(db, Posted(db), a))
      BY <1>0, <3>1 DEF BalancesAre
    <3> QED BY <1>3, <1>10, <1>11, <3>1, <3>2, <3>3
  <2> QED BY <2>1, <2>2
<1>13. BalancesAre(d)
  BY <1>12 DEF BalancesAre
<1>14. ClosedByHolds(d)
  <2> SUFFICES ASSUME NEW j \in Held(d), NEW a \in Accounts, Closes(d, j, a)
               PROVE  /\ Closed(d.accounts[a])
                      /\ \A k \in Held(d) : Closes(d, k, a) => k = j
    BY DEF ClosedByHolds
  <2>1. \A k \in Held(d) : k \in Held(db) /\ (Closes(d, k, a) <=> Closes(db, k, a))
    BY <1>3, <1>10 DEF Closes, ClosesDebit, ClosesCredit
  <2>2. Closed(db.accounts[a]) /\ \A k \in Held(db) : Closes(db, k, a) => k = j
    BY <1>0, <2>1 DEF ClosedByHolds
  <2>3. a \in Stored(db.accounts)
    BY <1>0, <2>1, HeldRow, TransferRow DEF Closes, ClosesDebit, ClosesCredit
  <2>4. d.accounts[a] = db.accounts[a]
    BY <1>1, <1>4, <2>3
  <2> QED BY <2>1, <2>2, <2>4
<1>15. Ledger(d)
  BY <1>8, <1>9, <1>12, <1>13, <1>14 DEF Ledger
<1> QED BY <1>15 DEF d

-----------------------------------------------------------------------------
(* The shape of a database, whatever rows its holds share *)

\* What a created event asks of the database for its shape alone.
Shaped(db, e) ==
  /\ e.id \in Ids \ Stored(db.transfers)
  /\ IF IsPost(e) \/ IsVoid(e)
     THEN /\ e.pending_id \in Stored(db.transfers) /\ IsPending(db.transfers[e.pending_id])
          /\ ~IsPending(e)
     ELSE {e.dr, e.cr} \subseteq Stored(db.accounts) /\ e.dr # e.cr /\ e.pending_id = None

\* The accounts new are those of old, and were created when those were.
RowsKept(old, new) ==
  /\ new \in [Accounts -> AccountRows \cup {None}]
  /\ \A a \in Accounts : /\ old[a] = None <=> new[a] = None
                         /\ old[a] # None => new[a].timestamp = old[a].timestamp

\* The remainder of a u128 is a u128.
LEMMA WrapIsAmount ==
  ASSUME NEW n \in Int
  PROVE  Wrap(n) \in 0 .. AmountMax
BY ConstantsAssumption DEF Wrap

\* Debits and credits, which wrap, keep the shape of a row.
LEMMA BalanceRow ==
  ASSUME NEW r \in AccountRows, NEW kind, NEW n \in Int
  PROVE  /\ Debit(r, kind, n) \in AccountRows /\ Credit(r, kind, n) \in AccountRows
         /\ Debit(r, kind, n).timestamp = r.timestamp
         /\ Credit(r, kind, n).timestamp = r.timestamp
<1>1. /\ r.debits_pending \in Int /\ r.debits_posted \in Int
      /\ r.credits_pending \in Int /\ r.credits_posted \in Int
  BY ConstantsAssumption DEF AccountRows
<1>2. /\ Wrap(r.debits_pending + n) \in 0 .. AmountMax /\ Wrap(r.debits_posted + n) \in 0 .. AmountMax
      /\ Wrap(r.credits_pending + n) \in 0 .. AmountMax /\ Wrap(r.credits_posted + n) \in 0 .. AmountMax
  BY <1>1, WrapIsAmount
<1>3. Debit(r, kind, n) \in AccountRows /\ Debit(r, kind, n).timestamp = r.timestamp
  BY <1>2 DEF Debit, AccountRows
<1>4. Credit(r, kind, n) \in AccountRows /\ Credit(r, kind, n).timestamp = r.timestamp
  BY <1>2 DEF Credit, AccountRows
<1> QED BY <1>3, <1>4

\* Two rows are written.
LEMMA UpdateKeepsRows ==
  ASSUME NEW accounts \in [Accounts -> AccountRows \cup {None}],
         NEW b \in Stored(accounts), NEW c \in Stored(accounts), b # c,
         NEW x \in AccountRows, x.timestamp = accounts[b].timestamp,
         NEW y \in AccountRows, y.timestamp = accounts[c].timestamp
  PROVE  RowsKept(accounts, [accounts EXCEPT ![b] = x, ![c] = y])
<1> DEFINE new == [accounts EXCEPT ![b] = x, ![c] = y]
<1>1. b \in Accounts /\ c \in Accounts /\ accounts[b] # None /\ accounts[c] # None
  BY DEF Stored
<1>2. x # None /\ y # None
  BY NoneAssumption
<1>3. new \in [Accounts -> AccountRows \cup {None}]
  BY <1>1
<1>4. \A a \in Accounts : new[a] = IF a = c THEN y ELSE IF a = b THEN x ELSE accounts[a]
  BY <1>1
<1> HIDE DEF new
<1>5. \A a \in Accounts : /\ accounts[a] = None <=> new[a] = None
                          /\ accounts[a] # None => new[a].timestamp = accounts[a].timestamp
  BY <1>1, <1>2, <1>4
<1> QED BY <1>3, <1>5 DEF RowsKept, new

\* Rows that are kept twice are kept.
LEMMA RowsKeptTwice ==
  ASSUME NEW x, NEW y, NEW z, RowsKept(x, y), RowsKept(y, z)
  PROVE  RowsKept(x, z)
BY DEF RowsKept

\* The stored rows of accounts that are kept.
LEMMA StoredRowsKept ==
  ASSUME NEW x \in [Accounts -> AccountRows \cup {None}], NEW y, RowsKept(x, y)
  PROVE  /\ Stored(y) = Stored(x)
         /\ \A a \in Stored(x) : y[a].timestamp = x[a].timestamp /\ y[a] \in AccountRows
<1>1. /\ DOMAIN x = Accounts /\ DOMAIN y = Accounts
      /\ \A a \in Accounts : y[a] \in AccountRows \cup {None}
  BY DEF RowsKept
<1> QED BY <1>1 DEF RowsKept, Stored

\* A hold of the transfer p is given back, and then posted or reverted.
LEMMA ResolveKeepsRows ==
  ASSUME NEW accounts \in [Accounts -> AccountRows \cup {None}], NEW p \in TransferRows,
         p.dr \in Stored(accounts), p.cr \in Stored(accounts), p.dr # p.cr,
         NEW n \in 0 .. AmountMax
  PROVE  RowsKept(accounts, PostedFor(accounts, p, n)) /\ RowsKept(accounts, Reverted(accounts, p))
<1> DEFINE free == Released(accounts, p)
           dr == Debit(accounts[p.dr], "pending", - p.amount)
           cr == Credit(accounts[p.cr], "pending", - p.amount)
<1>1. /\ accounts[p.dr] \in AccountRows /\ accounts[p.cr] \in AccountRows
      /\ p.dr \in Accounts /\ p.cr \in Accounts
  BY DEF Stored
<1>2. - p.amount \in Int /\ n \in Int
  <2>1. p.amount \in 0 .. AmountMax
    BY DEF TransferRows
  <2> QED BY <2>1, ConstantsAssumption
<1>3. /\ dr \in AccountRows /\ dr.timestamp = accounts[p.dr].timestamp
      /\ cr \in AccountRows /\ cr.timestamp = accounts[p.cr].timestamp
  BY <1>1, <1>2, BalanceRow
<1>4. free = [accounts EXCEPT ![p.dr] = dr, ![p.cr] = cr]
  BY DEF Released
<1> HIDE DEF dr, cr, free
<1>5. RowsKept(accounts, free)
  BY <1>3, <1>4, UpdateKeepsRows
<1>6. /\ free \in [Accounts -> AccountRows \cup {None}] /\ Stored(free) = Stored(accounts)
      /\ \A a \in Stored(accounts) : free[a] \in AccountRows
  <2>1. free \in [Accounts -> AccountRows \cup {None}]
    BY <1>5 DEF RowsKept
  <2> QED BY <1>5, <2>1, StoredRowsKept
<1>7. RowsKept(free, PostedFor(accounts, p, n))
  <2> DEFINE x == Debit(free[p.dr], "posted", n)
             y == Credit(free[p.cr], "posted", n)
  <2>1. /\ x \in AccountRows /\ x.timestamp = free[p.dr].timestamp
        /\ y \in AccountRows /\ y.timestamp = free[p.cr].timestamp
    BY <1>2, <1>6, BalanceRow
  <2>2. PostedFor(accounts, p, n) = [free EXCEPT ![p.dr] = x, ![p.cr] = y]
    BY <1>1, <1>6 DEF PostedFor, free
  <2> HIDE DEF x, y
  <2>3. p.dr \in Stored(free) /\ p.cr \in Stored(free)
    BY <1>6
  <2>4. RowsKept(free, [free EXCEPT ![p.dr] = x, ![p.cr] = y])
    BY <1>6, <2>1, <2>3, UpdateKeepsRows
  <2> QED BY <2>2, <2>4
<1>8. RowsKept(free, Reverted(accounts, p))
  <2> DEFINE new == Reverted(accounts, p)
  <2>1. new = [a \in Accounts |-> IF Closing(p, a) THEN Reopen(free[a]) ELSE free[a]]
    BY DEF Reverted, Closing, free
  <2> HIDE DEF new
  <2>2. ASSUME NEW a \in Accounts
        PROVE  /\ new[a] \in AccountRows \cup {None}
               /\ free[a] = None <=> new[a] = None
               /\ free[a] # None => new[a].timestamp = free[a].timestamp
    <3>1. CASE Closing(p, a)
      <4>1. new[a] = Reopen(free[a]) /\ free[a] \in AccountRows
        BY <1>6, <2>1, <3>1 DEF Closing
      <4>2. Reopen(free[a]) \in AccountRows /\ Reopen(free[a]).timestamp = free[a].timestamp
        BY <4>1, CloseRow
      <4> QED BY <4>1, <4>2, NoneAssumption
    <3>2. CASE ~Closing(p, a)
      BY <1>6, <2>1, <3>2
    <3> QED BY <3>1, <3>2
  <2>3. new \in [Accounts -> AccountRows \cup {None}]
    BY <2>1, <2>2
  <2> QED BY <2>2, <2>3 DEF RowsKept, new
<1> QED BY <1>5, <1>7, <1>8, RowsKeptTwice

\* The accounts of a created event.
LEMMA ApplyKeepsRows ==
  ASSUME NEW db, DbOK(db), NEW e \in TransferEvents, NEW ts, NEW n \in 0 .. AmountMax, Shaped(db, e)
  PROVE  RowsKept(db.accounts, ApplyTransfer(db, e, ts, n).accounts)
<1>0. db.accounts \in [Accounts -> AccountRows \cup {None}]
  BY DEF DbOK, Databases
<1>1. CASE IsPost(e) \/ IsVoid(e)
  <2> DEFINE p == db.transfers[e.pending_id]
  <2>1. /\ p \in TransferRows /\ p.dr \in Stored(db.accounts) /\ p.cr \in Stored(db.accounts)
        /\ p.dr # p.cr
    <3>1. e.pending_id \in Stored(db.transfers)
      BY <1>1 DEF Shaped
    <3> QED BY <3>1, TransferRow
  <2>2. ApplyTransfer(db, e, ts, n).accounts =
          IF IsVoid(e) THEN Reverted(db.accounts, p) ELSE PostedFor(db.accounts, p, n)
    BY <1>1 DEF ApplyTransfer, PostOrVoid, PostedFor
  <2> HIDE DEF p
  <2> QED BY <1>0, <2>1, <2>2, ResolveKeepsRows
<1>2. CASE ~(IsPost(e) \/ IsVoid(e))
  <2> DEFINE kind == IF IsPending(e) THEN "pending" ELSE "posted"
             dr == Debit(db.accounts[e.dr], kind, n)
             cr == Credit(db.accounts[e.cr], kind, n)
             x  == IF "closing_debit" \in e.flags THEN Close(dr) ELSE dr
             y  == IF "closing_credit" \in e.flags THEN Close(cr) ELSE cr
  <2>1. /\ e.dr \in Stored(db.accounts) /\ e.cr \in Stored(db.accounts) /\ e.dr # e.cr
        /\ db.accounts[e.dr] \in AccountRows /\ db.accounts[e.cr] \in AccountRows
    BY <1>2, AccountRow DEF Shaped
  <2>2. ApplyTransfer(db, e, ts, n).accounts = [db.accounts EXCEPT ![e.dr] = x, ![e.cr] = y]
    BY <1>2 DEF ApplyTransfer, CreateTransfer
  <2>3. n \in Int
    BY ConstantsAssumption
  <2>4. /\ dr \in AccountRows /\ dr.timestamp = db.accounts[e.dr].timestamp
        /\ cr \in AccountRows /\ cr.timestamp = db.accounts[e.cr].timestamp
    BY <2>1, <2>3, BalanceRow
  <2> HIDE DEF dr, cr
  <2>5. x \in AccountRows /\ x.timestamp = db.accounts[e.dr].timestamp
    BY <2>4, CloseRow
  <2>6. y \in AccountRows /\ y.timestamp = db.accounts[e.cr].timestamp
    BY <2>4, CloseRow
  <2> HIDE DEF x, y
  <2> QED BY <1>0, <2>1, <2>2, <2>5, <2>6, UpdateKeepsRows
<1> QED BY <1>1, <1>2

\* The rows of transfers_pending are those of holds, shared or not.
LEMMA WithRowKeepsShape ==
  ASSUME NEW db, DbOK(db), NEW i \in Ids, NEW ts, NEW status \in Status \cup {None}
  PROVE  LET pending == WithRow(db, i, ts, status) IN
         /\ pending \in [Ids -> Status \cup {None}]
         /\ pending[i] = status
         /\ \A j \in Stored(db.transfers) \ {i} :
              pending[j] \in (IF IsPending(db.transfers[j]) THEN Status ELSE {None})
         /\ \A j \in Ids \ Stored(db.transfers) : j # i => pending[j] = None
<1> DEFINE pending == WithRow(db, i, ts, status)
<1>0. db.pending \in [Ids -> Status \cup {None}] /\ Stored(db.transfers) \subseteq Ids
  BY DEF DbOK, Databases, Stored
<1>1. pending = [j \in Ids |-> IF j = i \/ (status # None /\ j \in HoldsAt(db, ts)) THEN status
                               ELSE db.pending[j]]
  BY DEF WithRow
<1> HIDE DEF pending
<1>2. \A j \in HoldsAt(db, ts) : j \in Stored(db.transfers) /\ IsPending(db.transfers[j])
  BY DEF HoldsAt
<1>3. pending \in [Ids -> Status \cup {None}] /\ pending[i] = status
  BY <1>0, <1>1
<1>4. ASSUME NEW j \in Stored(db.transfers), j # i
      PROVE  pending[j] \in (IF IsPending(db.transfers[j]) THEN Status ELSE {None})
  <2>1. db.pending[j] \in (IF IsPending(db.transfers[j]) THEN Status ELSE {None})
    BY DEF DbOK
  <2>2. CASE status # None /\ j \in HoldsAt(db, ts)
    <3>1. pending[j] = status /\ IsPending(db.transfers[j])
      BY <1>0, <1>1, <1>2, <2>2
    <3> QED BY <2>2, <3>1
  <2>3. CASE ~(status # None /\ j \in HoldsAt(db, ts))
    <3>1. pending[j] = db.pending[j]
      BY <1>0, <1>1, <1>4, <2>3
    <3> QED BY <2>1, <3>1
  <2> QED BY <2>2, <2>3
<1>5. ASSUME NEW j \in Ids \ Stored(db.transfers), j # i
      PROVE  pending[j] = None
  <2>1. db.pending[j] = None /\ j \notin HoldsAt(db, ts)
    BY <1>2 DEF DbOK
  <2> QED BY <1>1, <1>5, <2>1
<1> QED BY <1>3, <1>4, <1>5 DEF pending

\* A created event keeps the shape of the database and adds one row.
LEMMA ApplyKeepsShape ==
  ASSUME NEW db, DbOK(db), NEW e \in TransferEvents, NEW ts \in 1 .. TimestampMax,
         NEW n \in 0 .. AmountMax, Shaped(db, e)
  PROVE  LET d == ApplyTransfer(db, e, ts, n) IN
         /\ DbOK(d)
         /\ Stored(d.transfers) = Stored(db.transfers) \cup {e.id}
         /\ e.id \in Ids \ Stored(db.transfers)
         /\ \A i \in Ids \ {e.id} : d.transfers[i] = db.transfers[i]
         /\ d.transfers[e.id].timestamp = ts /\ d.transfers[e.id].flags = e.flags
         /\ Stored(d.accounts) = Stored(db.accounts)
         /\ \A a \in Stored(db.accounts) : d.accounts[a].timestamp = db.accounts[a].timestamp
<1> DEFINE d == ApplyTransfer(db, e, ts, n)
           resolves == IsPost(e) \/ IsVoid(e)
           p == db.transfers[e.pending_id]
           t == IF resolves
                THEN [dr |-> p.dr, cr |-> p.cr, amount |-> n, flags |-> e.flags,
                      pending_id |-> e.pending_id, timeout |-> 0, timestamp |-> ts]
                ELSE [dr |-> e.dr, cr |-> e.cr, amount |-> n, flags |-> e.flags,
                      pending_id |-> None, timeout |-> e.timeout, timestamp |-> ts]
           hold == IF resolves THEN e.pending_id ELSE e.id
           at == IF resolves THEN p.timestamp ELSE ts
           status == IF resolves THEN IF IsPost(e) THEN "Posted" ELSE "Voided" ELSE PendingRow(e)
<1>0. /\ db.accounts \in [Accounts -> AccountRows \cup {None}]
      /\ db.transfers \in [Ids -> TransferRows \cup {None}]
      /\ Stored(db.transfers) \subseteq Ids
  BY DEF DbOK, Databases, Stored
<1>1. /\ d = [accounts |-> d.accounts, transfers |-> d.transfers, pending |-> d.pending]
      /\ d.transfers = [db.transfers EXCEPT ![e.id] = t]
      /\ d.pending = WithRow(db, hold, at, status)
  <2>1. CASE resolves
    BY <2>1 DEF ApplyTransfer, PostOrVoid
  <2>2. CASE ~resolves
    BY <2>2 DEF ApplyTransfer, CreateTransfer
  <2> QED BY <2>1, <2>2
<1>2. RowsKept(db.accounts, d.accounts)
  BY ApplyKeepsRows
<1> HIDE DEF d
<1>3. /\ d.accounts \in [Accounts -> AccountRows \cup {None}]
      /\ Stored(d.accounts) = Stored(db.accounts)
      /\ \A a \in Stored(db.accounts) : d.accounts[a].timestamp = db.accounts[a].timestamp
  <2>1. d.accounts \in [Accounts -> AccountRows \cup {None}]
    BY <1>2 DEF RowsKept
  <2> QED BY <1>0, <1>2, <2>1, StoredRowsKept
<1>4. /\ e.id \in Ids \ Stored(db.transfers) /\ e.flags \in SUBSET TransferFlags
      /\ e.timeout \in Nat /\ 0 \in Nat
  BY DEF Shaped, TransferEvents
<1>5. resolves => /\ e.pending_id \in Stored(db.transfers) /\ IsPending(p) /\ ~IsPending(e)
                  /\ p.dr \in Stored(db.accounts) /\ p.cr \in Stored(db.accounts) /\ p.dr # p.cr
                  /\ p.dr \in Accounts /\ p.cr \in Accounts
  <2> SUFFICES ASSUME resolves
               PROVE  /\ e.pending_id \in Stored(db.transfers) /\ IsPending(p) /\ ~IsPending(e)
                      /\ p.dr \in Stored(db.accounts) /\ p.cr \in Stored(db.accounts) /\ p.dr # p.cr
                      /\ p.dr \in Accounts /\ p.cr \in Accounts
    OBVIOUS
  <2>1. e.pending_id \in Stored(db.transfers) /\ IsPending(p) /\ ~IsPending(e)
    BY DEF Shaped
  <2> QED BY <2>1, TransferRow, AccountRow
<1>6. ~resolves => /\ e.dr \in Stored(db.accounts) /\ e.cr \in Stored(db.accounts) /\ e.dr # e.cr
                   /\ e.dr \in Accounts /\ e.cr \in Accounts
  BY AccountRow DEF Shaped
<1>7. /\ t \in TransferRows /\ t # None
      /\ t.dr \in Stored(db.accounts) /\ t.cr \in Stored(db.accounts) /\ t.dr # t.cr
      /\ t.pending_id # None => t.pending_id \in Stored(db.transfers)
      /\ t.timestamp = ts /\ t.flags = e.flags
  <2>1. CASE resolves
    <3>1. t \in TransferRows
      BY <1>0, <1>4, <1>5, <2>1 DEF TransferRows
    <3>2. t # None
      BY <3>1, NoneAssumption
    <3> HIDE DEF p
    <3> QED BY <1>5, <2>1, <3>1, <3>2
  <2>2. CASE ~resolves
    <3>1. t \in TransferRows
      BY <1>0, <1>4, <1>6, <2>2 DEF TransferRows
    <3>2. t # None
      BY <3>1, NoneAssumption
    <3> QED BY <1>6, <2>2, <3>1, <3>2
  <2> QED BY <2>1, <2>2
<1>8. hold \in Ids /\ status \in Status \cup {None}
  BY <1>0, <1>4, <1>5 DEF PendingRow, Status
<1>9. /\ d.pending \in [Ids -> Status \cup {None}]
      /\ d.pending[hold] = status
      /\ \A j \in Stored(db.transfers) \ {hold} :
           d.pending[j] \in (IF IsPending(db.transfers[j]) THEN Status ELSE {None})
      /\ \A j \in Ids \ Stored(db.transfers) : j # hold => d.pending[j] = None
  <2> HIDE DEF hold, at, status
  <2> QED BY <1>1, <1>8, WithRowKeepsShape
<1> HIDE DEF t
<1>10. /\ d.transfers \in [Ids -> TransferRows \cup {None}]
       /\ d.transfers[e.id] = t
       /\ \A i \in Ids \ {e.id} : d.transfers[i] = db.transfers[i]
  BY <1>0, <1>1, <1>4, <1>7
<1>11. Stored(d.transfers) = Stored(db.transfers) \cup {e.id}
  <2>1. DOMAIN d.transfers = Ids /\ DOMAIN db.transfers = Ids
    BY <1>0, <1>10
  <2> QED BY <2>1, <1>4, <1>7, <1>10 DEF Stored
<1>12. d \in Databases
  BY <1>1, <1>3, <1>9, <1>10 DEF Databases
<1>13. ASSUME NEW j \in Stored(d.transfers)
       PROVE  LET u == d.transfers[j] IN
              /\ {u.dr, u.cr} \subseteq Stored(d.accounts) /\ u.dr # u.cr
              /\ u.pending_id # None => u.pending_id \in Stored(d.transfers)
              /\ d.pending[j] \in (IF IsPending(u) THEN Status ELSE {None})
  <2>1. CASE j = e.id
    <3>1. d.pending[e.id] \in (IF IsPending(e) THEN Status ELSE {None})
      <4>1. CASE resolves
        <5>1. e.id # e.pending_id /\ ~IsPending(e)
          BY <1>4, <1>5, <4>1
        <5> QED BY <1>4, <1>9, <4>1, <5>1
      <4>2. CASE ~resolves
        BY <1>9, <4>2 DEF PendingRow, Status
      <4> QED BY <4>1, <4>2
    <3>2. IsPending(t) <=> IsPending(e)
      BY <1>7 DEF IsPending
    <3> QED BY <1>3, <1>7, <1>10, <1>11, <2>1, <3>1, <3>2
  <2>2. CASE j # e.id
    <3>1. j \in Stored(db.transfers) /\ j \in Ids /\ d.transfers[j] = db.transfers[j]
      BY <1>0, <1>10, <1>11, <2>2
    <3>2. LET u == db.transfers[j] IN
          /\ {u.dr, u.cr} \subseteq Stored(db.accounts) /\ u.dr # u.cr
          /\ u.pending_id # None => u.pending_id \in Stored(db.transfers)
      BY <3>1 DEF DbOK
    <3>3. d.pending[j] \in (IF IsPending(db.transfers[j]) THEN Status ELSE {None})
      <4>1. CASE j = hold
        <5>1. resolves /\ IsPending(db.transfers[j]) /\ status \in Status
          BY <1>5, <2>2, <4>1 DEF Status
        <5> QED BY <1>9, <4>1, <5>1
      <4>2. CASE j # hold
        BY <1>9, <3>1, <4>2
      <4> QED BY <4>1, <4>2
    <3> QED BY <1>3, <1>11, <3>1, <3>2, <3>3
  <2> QED BY <2>1, <2>2
<1>14. ASSUME NEW j \in Ids \ Stored(d.transfers)
       PROVE  d.pending[j] = None
  <2>1. j \in Ids \ Stored(db.transfers) /\ j # e.id
    BY <1>11
  <2>2. j # hold
    BY <1>5, <2>1
  <2> QED BY <1>9, <2>1, <2>2
<1>15. DbOK(d)
  BY <1>12, <1>13, <1>14 DEF DbOK
<1> QED BY <1>3, <1>4, <1>7, <1>10, <1>11, <1>15 DEF d

\* Where the holds of a created event are separate, those before it were, and it
\* shares the timestamp of none of them.
LEMMA SeparateBefore ==
  ASSUME NEW db, DbOK(db), NEW e \in TransferEvents, NEW ts \in 1 .. TimestampMax,
         NEW n \in 0 .. AmountMax, Shaped(db, e), SeparateHolds(ApplyTransfer(db, e, ts, n))
  PROVE  SeparateHolds(db) /\ (IsPending(e) => HoldsAt(db, ts) = {})
<1> DEFINE d == ApplyTransfer(db, e, ts, n)
<1>1. /\ Stored(d.transfers) = Stored(db.transfers) \cup {e.id}
      /\ e.id \in Ids \ Stored(db.transfers)
      /\ \A i \in Ids \ {e.id} : d.transfers[i] = db.transfers[i]
      /\ d.transfers[e.id].timestamp = ts /\ d.transfers[e.id].flags = e.flags
  BY ApplyKeepsShape
<1>2. SeparateHolds(d)
  OBVIOUS
<1> HIDE DEF d
<1>3. \A i \in Stored(db.transfers) : i \in Stored(d.transfers) /\ i # e.id /\ d.transfers[i] = db.transfers[i]
  BY <1>1 DEF DbOK, Databases, Stored
<1>4. SeparateHolds(db)
  BY <1>2, <1>3 DEF SeparateHolds
<1>5. ASSUME IsPending(e), NEW j \in HoldsAt(db, ts)
      PROVE  FALSE
  <2>1. j \in Stored(db.transfers) /\ IsPending(db.transfers[j]) /\ db.transfers[j].timestamp = ts
    BY DEF HoldsAt
  <2>2. IsPending(d.transfers[e.id]) /\ e.id \in Stored(d.transfers)
    BY <1>1, <1>5 DEF IsPending
  <2>3. j \in Stored(d.transfers) /\ j # e.id /\ d.transfers[j] = db.transfers[j]
    BY <1>3, <2>1
  <2>4. IsPending(d.transfers[j]) /\ d.transfers[j].timestamp = d.transfers[e.id].timestamp
    BY <1>1, <2>1, <2>3
  <2> QED BY <1>2, <2>2, <2>3, <2>4 DEF SeparateHolds
<1> QED BY <1>4, <1>5

-----------------------------------------------------------------------------
(* What the checks of an event establish *)

\* The sums that create_transfer computes of one account, pending and posted
\* together, fit in a u128: the wrapping additions of the code never wrap.
LEMMA SumsDoNotWrap ==
  ASSUME NEW db, Ledger(db), NEW a \in Stored(db.accounts)
  PROVE  LET r == db.accounts[a] IN
         /\ r.debits_pending \in 0 .. AmountMax /\ r.debits_posted \in 0 .. AmountMax
         /\ r.credits_pending \in 0 .. AmountMax /\ r.credits_posted \in 0 .. AmountMax
         /\ Wrap(r.debits_pending + r.debits_posted) = r.debits_pending + r.debits_posted
         /\ Wrap(r.debits_posted + r.debits_pending) = r.debits_pending + r.debits_posted
         /\ Wrap(r.credits_pending + r.credits_posted) = r.credits_pending + r.credits_posted
         /\ Wrap(r.credits_posted + r.credits_pending) = r.credits_pending + r.credits_posted
<1> DEFINE r == db.accounts[a]
<1>1. /\ r.debits_pending \in 0 .. AmountMax /\ r.debits_posted \in 0 .. AmountMax
      /\ r.credits_pending \in 0 .. AmountMax /\ r.credits_posted \in 0 .. AmountMax
      /\ r.debits_pending + r.debits_posted <= AmountMax
      /\ r.credits_pending + r.credits_posted <= AmountMax
      /\ AmountMax \in Nat
  BY AccountRow, ConstantsAssumption DEF Ledger, InRange
<1> HIDE DEF r
<1>2. /\ Wrap(r.debits_pending + r.debits_posted) = r.debits_pending + r.debits_posted
      /\ Wrap(r.credits_pending + r.credits_posted) = r.credits_pending + r.credits_posted
  BY <1>1, WrapInRange
<1>3. /\ r.debits_posted + r.debits_pending = r.debits_pending + r.debits_posted
      /\ r.credits_posted + r.credits_pending = r.credits_pending + r.credits_posted
  BY <1>1
<1> QED BY <1>1, <1>2, <1>3 DEF r

\* What balancing makes of an amount is an amount, also where the sums wrap.
LEMMA ActualIsAmount ==
  ASSUME NEW db, DbOK(db), NEW e \in TransferEvents,
         e.dr \in Stored(db.accounts), e.cr \in Stored(db.accounts)
  PROVE  AmountActual(e, db.accounts[e.dr], db.accounts[e.cr]) \in 0 .. AmountMax
<1> DEFINE dr == db.accounts[e.dr]
           cr == db.accounts[e.cr]
           debit  == Saturating(dr.credits_posted - Wrap(dr.debits_posted + dr.debits_pending))
           credit == Saturating(cr.debits_posted - Wrap(cr.credits_posted + cr.credits_pending))
<1>1. /\ dr.credits_posted \in Int /\ cr.debits_posted \in Int
      /\ Wrap(dr.debits_posted + dr.debits_pending) \in Int
      /\ Wrap(cr.credits_posted + cr.credits_pending) \in Int
  <2>1. /\ dr.debits_pending \in 0 .. AmountMax /\ dr.debits_posted \in 0 .. AmountMax
        /\ dr.credits_posted \in 0 .. AmountMax
    BY AccountRow
  <2>2. /\ cr.credits_pending \in 0 .. AmountMax /\ cr.credits_posted \in 0 .. AmountMax
        /\ cr.debits_posted \in 0 .. AmountMax
    BY AccountRow
  <2> HIDE DEF dr, cr
  <2>3. dr.debits_posted + dr.debits_pending \in Int /\ cr.credits_posted + cr.credits_pending \in Int
    BY <2>1, <2>2
  <2>4. /\ Wrap(dr.debits_posted + dr.debits_pending) \in 0 .. AmountMax
        /\ Wrap(cr.credits_posted + cr.credits_pending) \in 0 .. AmountMax
    BY <2>3, WrapIsAmount
  <2> QED BY <2>1, <2>2, <2>4
<1>2. e.amount \in 0 .. AmountMax /\ AmountMax \in Nat
  BY ConstantsAssumption DEF TransferEvents
<1>3. debit \in Nat /\ credit \in Nat
  <2> HIDE DEF dr, cr
  <2> QED BY <1>1, <1>2 DEF Saturating
<1> HIDE DEF debit, credit
<1>4. \A m, k \in Nat : m <= AmountMax => Lesser(m, k) \in Nat /\ Lesser(m, k) <= AmountMax
  BY <1>2 DEF Lesser
<1> DEFINE capped == IF "balancing_debit" \in e.flags THEN Lesser(e.amount, debit) ELSE e.amount
<1>5. capped \in Nat /\ capped <= AmountMax
  <2>1. e.amount \in Nat /\ e.amount <= AmountMax
    BY <1>2
  <2>2. Lesser(e.amount, debit) \in Nat /\ Lesser(e.amount, debit) <= AmountMax
    BY <1>3, <1>4, <2>1
  <2> QED BY <2>1, <2>2
<1>6. AmountActual(e, dr, cr) = IF "balancing_credit" \in e.flags THEN Lesser(capped, credit) ELSE capped
  BY DEF AmountActual, debit, credit
<1> HIDE DEF capped
<1>7. AmountActual(e, dr, cr) \in Nat /\ AmountActual(e, dr, cr) <= AmountMax
  BY <1>3, <1>4, <1>5, <1>6
<1> QED BY <1>2, <1>7

\* What create_transfer has checked where it answers Created.
LEMMA TransferCreated ==
  ASSUME NEW db, NEW e, NEW ts, NEW kmax, TransferStatus(db, e, ts, kmax) = "Created"
  PROVE  LET dr == db.accounts[e.dr]
             cr == db.accounts[e.cr]
             n  == AmountActual(e, dr, cr)
         IN /\ dr # None /\ cr # None /\ db.transfers[e.id] = None /\ e.dr # e.cr
            /\ ~(~IsPending(e) /\ (e.timeout # 0 \/ e.flags \cap {"closing_debit", "closing_credit"} # {}))
            /\ ClosedStatus(dr, cr) = "Created"
            /\ ~Overflows(e, dr, cr, n)
            /\ ~DebitsExceedCredits(dr, n) /\ ~CreditsExceedDebits(cr, n)
            /\ ~IsAhead(e, ts)
<1> DEFINE dr == db.accounts[e.dr]
           cr == db.accounts[e.cr]
           old == db.transfers[e.id]
           amount == AmountActual(e, dr, cr)
           found  == TransferExists(e, old)
           ahead  == IsAhead(e, ts)
           late   == Regresses(e, kmax, db.accounts)
           same   == e.dr = e.cr
           reserved == ~IsPending(e) /\ (e.timeout # 0 \/ e.flags \cap {"closing_debit", "closing_credit"} # {})
           early  == Imported(e) /\ (\/ e.timestamp <= dr.timestamp \/ e.timestamp <= cr.timestamp
                                     \/ e.timeout # 0)
           young  == ~Imported(e) /\ (ts <= dr.timestamp \/ ts <= cr.timestamp)
           closed == ClosedStatus(dr, cr)
           over   == Overflows(e, dr, cr, amount)
           lasts  == OverflowsTimeout(e, TimestampOf(e, ts))
           debit  == DebitsExceedCredits(dr, amount)
           credit == CreditsExceedDebits(cr, amount)
           s == TransferStatus(db, e, ts, kmax)
<1>1. s = IF dr = None THEN "DebitAccountNotFound"
          ELSE IF cr = None THEN "CreditAccountNotFound"
          ELSE IF old # None THEN found
          ELSE IF ahead THEN "imported_after_event"
          ELSE IF late THEN "ImportedEventTimestampMustNotRegress"
          ELSE IF same THEN "AccountsMustBeDifferent"
          ELSE IF reserved THEN "ReservedForPendingTransfer"
          ELSE IF early THEN "ImportedEventTimestampMustPostdateAccounts"
          ELSE IF young THEN "account_after_transfer"
          ELSE IF closed # "Created" THEN closed
          ELSE IF over THEN "Overflows"
          ELSE IF lasts THEN "OverflowsTimeout"
          ELSE IF debit THEN "ExceedsCredits"
          ELSE IF credit THEN "ExceedsDebits"
          ELSE "Created"
  BY DEF TransferStatus
<1>2. found \in {"Exists", "ExistsWithDifferent"}
  BY DEF TransferExists
<1>3. s = "Created"
  OBVIOUS
<1> HIDE DEF dr, cr, old, amount, found, ahead, late, same, reserved, early, young, closed, over, lasts,
             debit, credit, s
<1>4. /\ dr # None /\ cr # None /\ old = None /\ ~same /\ ~reserved
      /\ closed = "Created" /\ ~over /\ ~debit /\ ~credit /\ ~ahead
  BY <1>1, <1>2, <1>3
<1> QED BY <1>4 DEF dr, cr, old, amount, same, reserved, closed, over, debit, credit, ahead

\* What post_or_void_pending_transfer has checked where it answers Created.
LEMMA PostOrVoidCreated ==
  ASSUME NEW db, NEW e, NEW ts, NEW kmax, PostOrVoidStatus(db, e, ts, kmax) = "Created"
  PROVE  LET p == db.transfers[e.pending_id]
             n == AmountResolved(e, p)
         IN /\ db.transfers[e.id] = None /\ p # None /\ IsPending(p)
            /\ ~(IsPost(e) /\ IsVoid(e)) /\ ~IsPending(e)
            /\ ~(n > p.amount) /\ ~(IsVoid(e) /\ n < p.amount)
            /\ db.pending[e.pending_id] = "Pending"
            /\ IsPost(e) => ClosedStatus(db.accounts[p.dr], db.accounts[p.cr]) = "Created"
            /\ ~IsAhead(e, ts)
<1> DEFINE p == db.transfers[e.pending_id]
           old == db.transfers[e.id]
           amount == AmountResolved(e, p)
           found  == PostOrVoidExists(e, old, p)
           ahead  == IsAhead(e, ts)
           late   == Regresses(e, kmax, db.accounts)
           closed == ClosedStatus(db.accounts[p.dr], db.accounts[p.cr])
           regular == old.pending_id = None
           pending == IsPending(p)
           both   == \/ IsPost(e) /\ IsVoid(e)
                     \/ e.flags \cap {"pending", "balancing_debit", "balancing_credit",
                                      "closing_debit", "closing_credit"} # {}
           timed  == e.timeout # 0
           other  == e.dr \notin {None, p.dr} \/ e.cr \notin {None, p.cr}
           more   == amount > p.amount
           less   == IsVoid(e) /\ amount < p.amount
           resolved == db.pending[e.pending_id] # "Pending"
           expired == p.timeout # 0 /\ ExpiresAt(p) <= ts
           posts == IsPost(e)
           s == PostOrVoidStatus(db, e, ts, kmax)
<1>1. s = IF old # None THEN IF regular THEN "ExistsWithDifferentFlags" ELSE found
          ELSE IF p = None THEN "PendingTransferNotFound"
          ELSE IF ~pending THEN "PendingTransferNotPending"
          ELSE IF both THEN "FlagsAreMutuallyExclusive"
          ELSE IF timed THEN "TimeoutReservedForPendingTransfer"
          ELSE IF other THEN "PendingTransferHasDifferentAccount"
          ELSE IF more THEN "ExceedsPendingTransferAmount"
          ELSE IF less THEN "PendingTransferHasDifferentAmount"
          ELSE IF resolved THEN "PendingTransferAlreadyResolved"
          ELSE IF expired THEN "PendingTransferExpired"
          ELSE IF ahead THEN "imported_after_event"
          ELSE IF late THEN "ImportedEventTimestampMustNotRegress"
          ELSE IF posts THEN closed
          ELSE "Created"
  BY DEF PostOrVoidStatus
<1>2. found \in {"Exists", "ExistsWithDifferent", "resolved_before_hold"}
  BY DEF PostOrVoidExists
<1>3. s = "Created" /\ (~both => ~(IsPost(e) /\ IsVoid(e)) /\ ~IsPending(e))
  BY DEF IsPending
<1> HIDE DEF p, old, amount, found, ahead, late, closed, regular, pending, both, timed, other, more,
             less, resolved, expired, posts, s
<1>4. /\ old = None /\ p # None /\ pending /\ ~both /\ ~more /\ ~less /\ ~resolved
      /\ posts => closed = "Created"
      /\ ~ahead
  BY <1>1, <1>2, <1>3
<1> QED BY <1>3, <1>4 DEF p, old, amount, pending, more, less, resolved, posts, closed, ahead

\* create_transfer answers Created only when the transfer fits on its accounts.
LEMMA CreatedIsCreatable ==
  ASSUME NEW db, Ledger(db), NEW e \in TransferEvents, ~IsPost(e), ~IsVoid(e), NEW ts, NEW kmax,
         TransferStatus(db, e, ts, kmax) = "Created"
  PROVE  LET n == AmountActual(e, db.accounts[e.dr], db.accounts[e.cr])
         IN n \in 0 .. AmountMax /\ Creatable(db, e, n)
<1> DEFINE dr == db.accounts[e.dr]
           cr == db.accounts[e.cr]
           n  == AmountActual(e, dr, cr)
<1>1. /\ dr # None /\ cr # None /\ db.transfers[e.id] = None /\ e.dr # e.cr
      /\ ~(~IsPending(e) /\ (e.timeout # 0 \/ e.flags \cap {"closing_debit", "closing_credit"} # {}))
      /\ ClosedStatus(dr, cr) = "Created"
      /\ ~Overflows(e, dr, cr, n)
      /\ ~DebitsExceedCredits(dr, n) /\ ~CreditsExceedDebits(cr, n)
  BY TransferCreated
<1>2. /\ e.dr \in Accounts /\ e.cr \in Accounts /\ e.pending_id = None
  BY DEF TransferEvents, IsPost, IsVoid
<1>3. e.dr \in Stored(db.accounts) /\ e.cr \in Stored(db.accounts)
  BY <1>1, <1>2 DEF Ledger, DbOK, Databases, Stored
<1>4. n \in 0 .. AmountMax
  BY <1>3, ActualIsAmount DEF Ledger
<1>5. AmountMax \in Nat
  BY ConstantsAssumption
<1>6. /\ dr.debits_pending \in 0 .. AmountMax /\ dr.debits_posted \in 0 .. AmountMax
      /\ Wrap(dr.debits_pending + dr.debits_posted) = dr.debits_pending + dr.debits_posted
  BY <1>3, SumsDoNotWrap
<1>7. /\ cr.credits_pending \in 0 .. AmountMax /\ cr.credits_posted \in 0 .. AmountMax
      /\ Wrap(cr.credits_pending + cr.credits_posted) = cr.credits_pending + cr.credits_posted
  BY <1>3, SumsDoNotWrap
<1> HIDE DEF n
<1>8. ~Closed(dr) /\ ~Closed(cr)
  BY <1>1 DEF ClosedStatus
<1> HIDE DEF dr, cr
<1>9. n + dr.debits_pending + dr.debits_posted <= AmountMax
  BY <1>1, <1>4, <1>5, <1>6 DEF Overflows, SumOverflows
<1>10. n + cr.credits_pending + cr.credits_posted <= AmountMax
  BY <1>1, <1>4, <1>5, <1>7 DEF Overflows, SumOverflows
<1>11. "debits_must_not_exceed_credits" \in dr.flags =>
         dr.debits_pending + dr.debits_posted + n <= dr.credits_posted
  <2>1. Wrap(dr.debits_pending + dr.debits_posted + n) = dr.debits_pending + dr.debits_posted + n
    <3>1. /\ dr.debits_pending + dr.debits_posted + n \in Int
          /\ 0 <= dr.debits_pending + dr.debits_posted + n
          /\ dr.debits_pending + dr.debits_posted + n <= AmountMax
      BY <1>4, <1>5, <1>6, <1>9
    <3> QED BY <3>1, WrapInRange
  <2>2. dr.credits_posted \in 0 .. AmountMax
    BY <1>3, SumsDoNotWrap DEF dr
  <2> QED BY <1>1, <1>4, <1>5, <1>6, <2>1, <2>2 DEF DebitsExceedCredits
<1>12. "credits_must_not_exceed_debits" \in cr.flags =>
         cr.credits_pending + cr.credits_posted + n <= cr.debits_posted
  <2>1. Wrap(cr.credits_pending + cr.credits_posted + n) = cr.credits_pending + cr.credits_posted + n
    <3>1. /\ cr.credits_pending + cr.credits_posted + n \in Int
          /\ 0 <= cr.credits_pending + cr.credits_posted + n
          /\ cr.credits_pending + cr.credits_posted + n <= AmountMax
      BY <1>4, <1>5, <1>7, <1>10
    <3> QED BY <3>1, WrapInRange
  <2>2. cr.debits_posted \in 0 .. AmountMax
    BY <1>3, SumsDoNotWrap DEF cr
  <2> QED BY <1>1, <1>4, <1>5, <1>7, <2>1, <2>2 DEF CreditsExceedDebits
<1>13. Creatable(db, e, n)
  BY <1>1, <1>2, <1>3, <1>8, <1>9, <1>10, <1>11, <1>12 DEF Creatable, dr, cr
<1> QED BY <1>4, <1>13 DEF n, dr, cr

\* post_or_void_pending_transfer answers Created only for a hold that stands.
LEMMA CreatedIsResolvable ==
  ASSUME NEW db, Ledger(db), NEW e \in TransferEvents, IsPost(e) \/ IsVoid(e), NEW ts, NEW kmax,
         PostOrVoidStatus(db, e, ts, kmax) = "Created"
  PROVE  LET n == AmountResolved(e, db.transfers[e.pending_id])
         IN n \in 0 .. AmountMax /\ Resolvable(db, e, n)
<1> DEFINE i == e.pending_id
           p == db.transfers[i]
           n == AmountResolved(e, p)
<1>1. i \in Ids \ {e.id} /\ e.amount \in 0 .. AmountMax
  BY DEF TransferEvents, IsPost, IsVoid
<1>2. /\ db.transfers[e.id] = None /\ p # None /\ IsPending(p)
      /\ ~(IsPost(e) /\ IsVoid(e)) /\ ~IsPending(e)
      /\ ~(n > p.amount) /\ ~(IsVoid(e) /\ n < p.amount)
      /\ db.pending[i] = "Pending"
      /\ IsPost(e) => ClosedStatus(db.accounts[p.dr], db.accounts[p.cr]) = "Created"
  BY PostOrVoidCreated
<1>3. i \in Stored(db.transfers) /\ i \in Held(db)
  BY <1>1, <1>2 DEF Ledger, DbOK, Databases, Stored, Held
<1>4. p.amount \in 0 .. AmountMax /\ AmountMax \in Nat
  BY <1>3, TransferRow, ConstantsAssumption DEF Ledger
<1>5. n \in 0 .. AmountMax
  BY <1>1, <1>4 DEF AmountResolved
<1> HIDE DEF n, p
<1>6. n <= p.amount /\ (IsVoid(e) => n = p.amount)
  BY <1>2, <1>4, <1>5
<1>7. IsPost(e) => ~Closed(db.accounts[p.dr]) /\ ~Closed(db.accounts[p.cr])
  BY <1>2 DEF ClosedStatus
<1>8. Resolvable(db, e, n)
  BY <1>1, <1>2, <1>3, <1>6, <1>7 DEF Resolvable, p
<1> QED BY <1>5, <1>8 DEF n, p

\* What an event that was created asks of the database.
Applicable(db, e, n) ==
  IF IsPost(e) \/ IsVoid(e) THEN Resolvable(db, e, n) ELSE Creatable(db, e, n)

\* When create_transfer or post_or_void_pending_transfer answers Created, what the code
\* then applies is within bounds: its assertions and subtractions are safe.
LEMMA CreatedIsApplicable ==
  ASSUME NEW db, Ledger(db), NEW e \in TransferEvents, NEW ts, NEW kmax, NEW failed,
         StatusOf(db, e, ts, kmax, failed) = "Created"
  PROVE  /\ AmountOf(db, e) \in 0 .. AmountMax /\ Applicable(db, e, AmountOf(db, e))
         /\ e.id \notin failed
<1>1. /\ e.id \notin failed
      /\ IsPost(e) \/ IsVoid(e) => PostOrVoidStatus(db, e, ts, kmax) = "Created"
      /\ ~(IsPost(e) \/ IsVoid(e)) => TransferStatus(db, e, ts, kmax) = "Created"
  BY DEF StatusOf
<1>2. CASE IsPost(e) \/ IsVoid(e)
  BY <1>1, <1>2, CreatedIsResolvable DEF AmountOf, Applicable
<1>3. CASE ~(IsPost(e) \/ IsVoid(e))
  BY <1>1, <1>3, CreatedIsCreatable DEF AmountOf, Applicable
<1> QED BY <1>1, <1>2, <1>3

\* Whatever the holds share, what is created has an amount and refers to what is stored.
LEMMA CreatedIsShaped ==
  ASSUME NEW db, DbOK(db), NEW e \in TransferEvents, NEW ts, NEW kmax, NEW failed,
         StatusOf(db, e, ts, kmax, failed) = "Created"
  PROVE  /\ AmountOf(db, e) \in 0 .. AmountMax /\ Shaped(db, e)
         /\ e.id \notin failed /\ ~IsAhead(e, ts)
<1>0. /\ DOMAIN db.transfers = Ids /\ DOMAIN db.accounts = Accounts
      /\ e.id \in Ids /\ e.amount \in 0 .. AmountMax
  BY DEF DbOK, Databases, TransferEvents
<1>1. /\ e.id \notin failed
      /\ IsPost(e) \/ IsVoid(e) => PostOrVoidStatus(db, e, ts, kmax) = "Created"
      /\ ~(IsPost(e) \/ IsVoid(e)) => TransferStatus(db, e, ts, kmax) = "Created"
  BY DEF StatusOf
<1>2. CASE IsPost(e) \/ IsVoid(e)
  <2> DEFINE p == db.transfers[e.pending_id]
  <2>1. e.pending_id \in Ids
    BY <1>2 DEF TransferEvents, IsPost, IsVoid
  <2>2. /\ db.transfers[e.id] = None /\ p # None /\ IsPending(p) /\ ~IsPending(e) /\ ~IsAhead(e, ts)
    BY <1>1, <1>2, PostOrVoidCreated
  <2>3. e.pending_id \in Stored(db.transfers)
    BY <1>0, <2>1, <2>2 DEF Stored
  <2>4. p.amount \in 0 .. AmountMax
    BY <2>3, TransferRow
  <2>5. AmountOf(db, e) \in 0 .. AmountMax
    BY <1>0, <1>2, <2>4 DEF AmountOf, AmountResolved
  <2> QED BY <1>0, <1>1, <1>2, <2>2, <2>3, <2>5 DEF Shaped, Stored
<1>3. CASE ~(IsPost(e) \/ IsVoid(e))
  <2>1. e.dr \in Accounts /\ e.cr \in Accounts /\ e.pending_id = None
    BY <1>3 DEF TransferEvents, IsPost, IsVoid
  <2>2. /\ db.accounts[e.dr] # None /\ db.accounts[e.cr] # None /\ db.transfers[e.id] = None
        /\ e.dr # e.cr /\ ~IsAhead(e, ts)
    BY <1>1, <1>3, TransferCreated
  <2>3. e.dr \in Stored(db.accounts) /\ e.cr \in Stored(db.accounts)
    BY <1>0, <2>1, <2>2 DEF Stored
  <2>4. AmountOf(db, e) \in 0 .. AmountMax
    BY <1>3, <2>3, ActualIsAmount DEF AmountOf
  <2> QED BY <1>0, <1>1, <1>3, <2>1, <2>2, <2>3, <2>4 DEF Shaped, Stored
<1> QED BY <1>2, <1>3

\* What the checks let through meets the assertions of commit_post_void_accounts.
LEMMA ApplicableAppliesCleanly ==
  ASSUME NEW db, Ledger(db), NEW e \in TransferEvents, NEW n \in 0 .. AmountMax, Applicable(db, e, n)
  PROVE  AppliesCleanly(db, e, n)
<1>1. CASE IsPost(e) \/ IsVoid(e)
  BY <1>1, ResolveAppliesCleanly DEF Applicable
<1>2. CASE ~(IsPost(e) \/ IsVoid(e))
  BY <1>2 DEF AppliesCleanly
<1> QED BY <1>1, <1>2

\* The database of a created event is a ledger, if its holds are separate.
LEMMA ApplyKeepsLedger ==
  ASSUME NEW db, Ledger(db), NEW e \in TransferEvents, NEW ts \in 1 .. TimestampMax,
         NEW n \in 0 .. AmountMax, Shaped(db, e), Applicable(db, e, n),
         SeparateHolds(ApplyTransfer(db, e, ts, n))
  PROVE  Ledger(ApplyTransfer(db, e, ts, n))
<1>1. SeparateHolds(db) /\ (IsPending(e) => HoldsAt(db, ts) = {})
  BY SeparateBefore DEF Ledger
<1>2. CASE IsPost(e) \/ IsVoid(e)
  <2>1. ApplyTransfer(db, e, ts, n) = PostOrVoid(db, e, ts, n) /\ Resolvable(db, e, n)
    BY <1>2 DEF ApplyTransfer, Applicable
  <2> QED BY <1>1, <2>1, ResolveKeepsLedger
<1>3. CASE ~(IsPost(e) \/ IsVoid(e))
  <2>1. ApplyTransfer(db, e, ts, n) = CreateTransfer(db, e, ts, n) /\ Creatable(db, e, n)
    BY <1>3 DEF ApplyTransfer, Applicable
  <2> QED BY <1>1, <2>1, CreateKeepsLedger
<1> QED BY <1>2, <1>3

-----------------------------------------------------------------------------
(* Histories *)

\* The rows that an operation of this kind adds to.
Groove(db, kind) == IF kind = "accounts" THEN db.accounts ELSE db.transfers

\* The timestamps of rows, and of a database, are at most t.
Before(rows, t) == \A i \in Stored(rows) : rows[i].timestamp <= t
UpTo(db, t)     == Before(db.accounts, t) /\ Before(db.transfers, t)

\* What the event e with the result r leaves.
Effect(kind, db, e, r) ==
  IF r.status # "Created" THEN db
  ELSE IF kind = "accounts" THEN Opened(db, e, r.timestamp)
  ELSE ApplyTransfer(db, e, r.timestamp, r.amount)

\* The holds of a database may share a row, until persist finds that they do; where
\* they do not it is a ledger.
Sound(db) == DbOK(db) /\ (SeparateHolds(db) => Ledger(db))

\* What holds where event n of the batch evs was created, in an operation at top
\* that follows one at commit.
Legal(kind, db, evs, r, n, top, commit) ==
  LET e == evs[n] IN
  /\ r.timestamp = TimestampOf(e, top - Len(evs) + n)
  /\ r.timestamp \in 1 .. TimestampMax /\ r.timestamp <= top
  /\ Imported(e) <=> Imported(evs[1])
  /\ commit + Len(evs) <= top =>
       \A i \in Stored(Groove(db, kind)) : Groove(db, kind)[i].timestamp < r.timestamp
  /\ kind = "accounts" => e \in AccountEvents /\ db.accounts[e.id] = None
  /\ kind # "accounts" => /\ e \in TransferEvents /\ r.amount \in 0 .. AmountMax
                          /\ Shaped(db, e)
                          /\ SeparateHolds(db) => Applicable(db, e, r.amount)

Keeps(db, d) == \A i \in Stored(db.transfers) : d.transfers[i] = db.transfers[i]

\* h[n] is the database after the first n results of a batch.
History(h, kind, evs, res, top, commit) ==
  /\ \A n \in 0 .. Len(res) : Sound(h[n]) /\ UpTo(h[n], top)
  /\ \A n \in 1 .. Len(res) : h[n] = Effect(kind, h[n - 1], evs[n], res[n])
  /\ \A n \in 1 .. Len(res) :
       res[n].status = "Created" => Legal(kind, h[n - 1], evs, res[n], n, top, commit)
  /\ \A n \in 0 .. Len(res) : \A m \in 0 .. n : Keeps(h[m], h[n])
  /\ kind # "accounts" => \A n \in 0 .. Len(res) : Before(h[n].accounts, commit)

\* A created event adds its row to the database and changes no row of a transfer.
LEMMA EffectKeepsSound ==
  ASSUME NEW db, Sound(db), NEW kind, NEW evs, NEW r, NEW n, NEW top, NEW commit, UpTo(db, top),
         r.status = "Created" => Legal(kind, db, evs, r, n, top, commit)
  PROVE  LET d == Effect(kind, db, evs[n], r) IN
         /\ Sound(d) /\ UpTo(d, top) /\ Keeps(db, d)
         /\ \A i \in Stored(d.transfers) :
              \/ i \in Stored(db.transfers)
              \/ r.status = "Created" /\ d.transfers[i].timestamp = r.timestamp
         /\ kind # "accounts" /\ r.status = "Created" =>
              /\ evs[n].id \in Stored(d.transfers) /\ evs[n].id \notin Stored(db.transfers)
              /\ d.transfers[evs[n].id].timestamp = r.timestamp
              /\ Stored(d.transfers) = Stored(db.transfers) \cup {evs[n].id}
         /\ kind = "accounts" => d.transfers = db.transfers /\ d.pending = db.pending
         /\ kind # "accounts" /\ Before(db.accounts, commit) => Before(d.accounts, commit)
<1> DEFINE e == evs[n]
           d == Effect(kind, db, e, r)
<1>0. DbOK(db)
  BY DEF Sound
<1>1. CASE r.status # "Created"
  BY <1>1 DEF Effect, Keeps
<1>2. CASE r.status = "Created" /\ kind = "accounts"
  <2>1. /\ e \in AccountEvents /\ db.accounts[e.id] = None
        /\ r.timestamp \in 1 .. TimestampMax /\ r.timestamp <= top
    BY <1>2 DEF Legal
  <2>2. d = Opened(db, e, r.timestamp)
    BY <1>2 DEF Effect
  <2>3. /\ DbOK(d)
        /\ d.transfers = db.transfers /\ d.pending = db.pending
        /\ d.accounts[e.id] = NewAccount(e, r.timestamp)
        /\ \A a \in Stored(db.accounts) : d.accounts[a] = db.accounts[a]
        /\ Stored(d.accounts) = Stored(db.accounts) \cup {e.id}
    BY <1>0, <2>1, <2>2, OpenKeepsShape
  <2>4. Ledger(db) => Ledger(d)
    BY <2>1, <2>2, OpenKeepsLedger
  <2> HIDE DEF d
  <2>5. SeparateHolds(d) => SeparateHolds(db)
    BY <2>3 DEF SeparateHolds
  <2>6. Sound(d)
    BY <2>3, <2>4, <2>5 DEF Sound
  <2>7. d.accounts[e.id].timestamp = r.timestamp
    BY <2>3 DEF NewAccount
  <2>8. UpTo(d, top)
    BY <2>1, <2>3, <2>7 DEF UpTo, Before
  <2>9. Keeps(db, d)
    BY <2>3 DEF Keeps
  <2> QED BY <1>2, <2>3, <2>6, <2>8, <2>9 DEF d
<1>3. CASE r.status = "Created" /\ kind # "accounts"
  <2>1. /\ e \in TransferEvents /\ r.amount \in 0 .. AmountMax /\ Shaped(db, e)
        /\ SeparateHolds(db) => Applicable(db, e, r.amount)
        /\ r.timestamp \in 1 .. TimestampMax /\ r.timestamp <= top
    BY <1>3 DEF Legal
  <2>2. d = ApplyTransfer(db, e, r.timestamp, r.amount)
    BY <1>3 DEF Effect
  <2>3. /\ DbOK(d)
        /\ Stored(d.transfers) = Stored(db.transfers) \cup {e.id}
        /\ e.id \in Ids \ Stored(db.transfers)
        /\ \A i \in Ids \ {e.id} : d.transfers[i] = db.transfers[i]
        /\ d.transfers[e.id].timestamp = r.timestamp
        /\ Stored(d.accounts) = Stored(db.accounts)
        /\ \A a \in Stored(db.accounts) : d.accounts[a].timestamp = db.accounts[a].timestamp
    <3> HIDE DEF e
    <3>1. LET w == ApplyTransfer(db, e, r.timestamp, r.amount) IN
          /\ DbOK(w)
          /\ Stored(w.transfers) = Stored(db.transfers) \cup {e.id}
          /\ e.id \in Ids \ Stored(db.transfers)
          /\ \A i \in Ids \ {e.id} : w.transfers[i] = db.transfers[i]
          /\ w.transfers[e.id].timestamp = r.timestamp
          /\ Stored(w.accounts) = Stored(db.accounts)
          /\ \A a \in Stored(db.accounts) : w.accounts[a].timestamp = db.accounts[a].timestamp
      BY SMTT(30), <1>0, <2>1, ApplyKeepsShape
    <3> HIDE DEF d
    <3> QED BY <2>2, <3>1
  <2>4. Stored(db.transfers) \subseteq Ids \ {e.id}
    BY <1>0, <2>3 DEF DbOK, Databases, Stored
  <2>5. Sound(d)
    <3>1. ASSUME SeparateHolds(d)
          PROVE  Ledger(d)
      <4>1. SeparateHolds(db)
        BY <1>0, <2>1, <2>2, <3>1, SeparateBefore
      <4>2. Ledger(db) /\ Applicable(db, e, r.amount)
        BY <2>1, <4>1 DEF Sound
      <4> HIDE DEF d
      <4> QED BY <2>1, <2>2, <3>1, <4>2, ApplyKeepsLedger
    <3> QED BY <2>3, <3>1 DEF Sound
  <2> HIDE DEF d
  <2>6. UpTo(d, top)
    BY <2>1, <2>3, <2>4 DEF UpTo, Before
  <2>7. Keeps(db, d)
    BY <2>3, <2>4 DEF Keeps
  <2> HIDE DEF e
  <2>8. /\ \A i \in Stored(d.transfers) :
              \/ i \in Stored(db.transfers)
              \/ r.status = "Created" /\ d.transfers[i].timestamp = r.timestamp
        /\ e.id \in Stored(d.transfers) /\ e.id \notin Stored(db.transfers)
        /\ d.transfers[e.id].timestamp = r.timestamp
    BY <1>3, <2>3
  <2>9. Before(db.accounts, commit) => Before(d.accounts, commit)
    BY <2>3 DEF Before
  <2> QED BY <1>3, <2>3, <2>5, <2>6, <2>7, <2>8, <2>9 DEF d, e
<1> QED BY <1>1, <1>2, <1>3

\* What every step of a batch keeps, the batch keeps.
LEMMA KeepsTransitive ==
  ASSUME NEW x, NEW y, NEW z, Sound(x), Sound(y), Keeps(x, y), Keeps(y, z)
  PROVE  Keeps(x, z)
<1>1. \A i \in Stored(x.transfers) : i \in Ids /\ x.transfers[i] # None
  BY DEF Sound, DbOK, Databases, Stored
<1>2. DOMAIN y.transfers = Ids
  BY DEF Sound, DbOK, Databases
<1> QED BY <1>1, <1>2 DEF Keeps, Stored

\* A history grows by one database with every result.
LEMMA HistoryGrows ==
  ASSUME NEW h, NEW kind, NEW evs, NEW res, NEW top, NEW commit, Len(res) \in Nat,
         History(h, kind, evs, res, top, commit),
         NEW all, Len(all) = Len(res) + 1, \A n \in 1 .. Len(res) : all[n] = res[n],
         LET n == Len(res) + 1 IN
         all[n].status = "Created" => Legal(kind, h[Len(res)], evs, all[n], n, top, commit)
  PROVE  \E g : /\ History(g, kind, evs, all, top, commit)
                /\ \A n \in 0 .. Len(res) : g[n] = h[n]
                /\ g[Len(res) + 1] = Effect(kind, h[Len(res)], evs[Len(res) + 1], all[Len(res) + 1])
<1> DEFINE k == Len(res)
           d == Effect(kind, h[k], evs[k + 1], all[k + 1])
           g == [n \in 0 .. k + 1 |-> IF n = k + 1 THEN d ELSE h[n]]
<1>0. k \in Nat /\ k + 1 \in Nat /\ k \in 0 .. k /\ Len(all) = k + 1
  OBVIOUS
<1>1. Sound(h[k]) /\ UpTo(h[k], top)
  BY <1>0 DEF History
<1>2. /\ Sound(d) /\ UpTo(d, top) /\ Keeps(h[k], d)
      /\ kind # "accounts" /\ Before(h[k].accounts, commit) => Before(d.accounts, commit)
  <2>1. all[k + 1].status = "Created" => Legal(kind, h[k], evs, all[k + 1], k + 1, top, commit)
    OBVIOUS
  <2> DEFINE r == all[k + 1]
             n == k + 1
             db == h[k]
             x == Effect(kind, db, evs[n], r)
  <2> HIDE DEF r, n, k, db
  <2>2. x = d
    BY DEF r, n, db
  <2>3. r.status = "Created" => Legal(kind, db, evs, r, n, top, commit)
    BY <2>1 DEF r, n, db
  <2>4. Sound(db) /\ UpTo(db, top)
    BY <1>1 DEF db
  <2>5. /\ Sound(x) /\ UpTo(x, top) /\ Keeps(db, x)
        /\ kind # "accounts" /\ Before(db.accounts, commit) => Before(x.accounts, commit)
    BY <2>3, <2>4, EffectKeepsSound
  <2> HIDE DEF x, d
  <2> QED BY <2>2, <2>5 DEF r, db
<1>3. (\A n \in 0 .. k : g[n] = h[n]) /\ g[k + 1] = d
  BY <1>0
<1> HIDE DEF g, d, k
<1>4. \A n \in 0 .. k + 1 : n \in 0 .. k \/ n = k + 1
  BY <1>0
<1>5. \A n \in 0 .. k + 1 : Sound(g[n]) /\ UpTo(g[n], top)
  BY <1>2, <1>3, <1>4 DEF History, k
<1>6. ASSUME NEW n \in 1 .. k + 1
      PROVE  /\ g[n] = Effect(kind, g[n - 1], evs[n], all[n])
             /\ all[n].status = "Created" => Legal(kind, g[n - 1], evs, all[n], n, top, commit)
  <2>1. CASE n = k + 1
    <3>1. g[n - 1] = h[k]
      BY <1>0, <1>3, <2>1
    <3> QED BY <1>3, <2>1, <3>1 DEF d, k
  <2>2. CASE n # k + 1
    <3>1. n \in 1 .. k /\ n \in 0 .. k /\ n - 1 \in 0 .. k
      BY <1>0, <2>2
    <3>2. g[n] = h[n] /\ g[n - 1] = h[n - 1] /\ all[n] = res[n]
      BY <1>3, <3>1 DEF k
    <3>3. /\ h[n] = Effect(kind, h[n - 1], evs[n], res[n])
          /\ res[n].status = "Created" => Legal(kind, h[n - 1], evs, res[n], n, top, commit)
      BY <3>1 DEF History, k
    <3> QED BY <3>2, <3>3
  <2> QED BY <2>1, <2>2
<1>7. ASSUME NEW n \in 0 .. k + 1, NEW m \in 0 .. n
      PROVE  Keeps(g[m], g[n])
  <2>1. CASE n \in 0 .. k
    <3>1. m \in 0 .. k
      BY <1>0, <2>1
    <3> QED BY <1>3, <2>1, <3>1 DEF History, k
  <2>2. CASE n = k + 1 /\ m = k + 1
    BY <2>2 DEF Keeps
  <2>3. CASE n = k + 1 /\ m # k + 1
    <3>1. m \in 0 .. k
      BY <1>0, <2>3
    <3>2. Keeps(h[m], h[k]) /\ Sound(h[m])
      BY <1>0, <3>1 DEF History, k
    <3>3. Keeps(h[m], d)
      BY <1>1, <1>2, <3>2, KeepsTransitive
    <3> QED BY <1>3, <2>3, <3>1, <3>3
  <2> QED BY <1>4, <2>1, <2>2, <2>3
<1>8. ASSUME kind # "accounts", NEW n \in 0 .. k + 1
      PROVE  Before(g[n].accounts, commit)
  <2>1. \A m \in 0 .. k : Before(h[m].accounts, commit)
    BY <1>8 DEF History, k
  <2> QED BY <1>0, <1>2, <1>3, <1>4, <1>8, <2>1
<1>9. History(g, kind, evs, all, top, commit)
  BY <1>0, <1>5, <1>6, <1>7, <1>8 DEF History
<1> QED BY <1>3, <1>9 DEF d, k

\* A chain that breaks leaves the database as it was before its first event.
LEMMA HistoryBreaks ==
  ASSUME NEW h, NEW kind, NEW evs, NEW res, NEW top, NEW commit, Len(res) \in Nat,
         History(h, kind, evs, res, top, commit),
         NEW first \in 1 .. Len(res) + 1,
         NEW all, Len(all) = Len(res) + 1, \A n \in 1 .. first - 1 : all[n] = res[n],
         \A n \in first .. Len(res) + 1 : all[n].status # "Created"
  PROVE  \E g : /\ History(g, kind, evs, all, top, commit)
                /\ \A n \in 0 .. first - 1 : g[n] = h[n]
                /\ \A n \in first .. Len(res) + 1 : g[n] = h[first - 1]
<1> DEFINE k == Len(res)
           g == [n \in 0 .. k + 1 |-> IF n < first THEN h[n] ELSE h[first - 1]]
<1>0. k \in Nat /\ first - 1 \in 0 .. k /\ Len(all) = k + 1 /\ first \in Nat
  OBVIOUS
<1>1. /\ \A n \in 0 .. first - 1 : g[n] = h[n]
      /\ \A n \in first .. k + 1 : g[n] = h[first - 1]
  BY <1>0
<1> HIDE DEF g, k
<1>2. \A n \in 0 .. k + 1 : n \in 0 .. first - 1 \/ n \in first .. k + 1
  BY <1>0
<1>3. \A n \in 0 .. k : Sound(h[n]) /\ UpTo(h[n], top)
  BY DEF History, k
<1>4. \A n \in 0 .. k + 1 : Sound(g[n]) /\ UpTo(g[n], top)
  <2>1. \A n \in 0 .. first - 1 : n \in 0 .. k
    BY <1>0
  <2> QED BY <1>0, <1>1, <1>2, <1>3, <2>1
<1>5. ASSUME NEW n \in 1 .. k + 1
      PROVE  /\ g[n] = Effect(kind, g[n - 1], evs[n], all[n])
             /\ all[n].status = "Created" => Legal(kind, g[n - 1], evs, all[n], n, top, commit)
  <2>1. CASE n < first
    <3>1. n \in 1 .. k /\ n \in 0 .. first - 1 /\ n - 1 \in 0 .. first - 1 /\ n \in 1 .. first - 1
      BY <1>0, <2>1
    <3>2. g[n] = h[n] /\ g[n - 1] = h[n - 1] /\ all[n] = res[n]
      BY <1>1, <3>1
    <3>3. /\ h[n] = Effect(kind, h[n - 1], evs[n], res[n])
          /\ res[n].status = "Created" => Legal(kind, h[n - 1], evs, res[n], n, top, commit)
      BY <3>1 DEF History, k
    <3> QED BY <3>2, <3>3
  <2>2. CASE n >= first
    <3>1. n \in first .. k + 1
      BY <1>0, <2>2
    <3>2. all[n].status # "Created" /\ g[n] = h[first - 1]
      BY <1>1, <3>1 DEF k
    <3>3. g[n - 1] = h[first - 1]
      <4>1. CASE n = first
        <5>1. n - 1 \in 0 .. first - 1
          BY <1>0, <4>1
        <5> QED BY <1>1, <4>1, <5>1
      <4>2. CASE n # first
        <5>1. n - 1 \in first .. k + 1
          BY <1>0, <2>2, <4>2
        <5> QED BY <1>1, <5>1
      <4> QED BY <4>1, <4>2
    <3> QED BY <3>2, <3>3 DEF Effect
  <2>3. n \in Nat
    BY <1>0
  <2> QED BY <1>0, <2>1, <2>2, <2>3
<1>6. ASSUME NEW n \in 0 .. k + 1, NEW m \in 0 .. n
      PROVE  Keeps(g[m], g[n])
  <2>1. \A x \in 0 .. k : \A y \in 0 .. x : Keeps(h[y], h[x])
    BY DEF History, k
  <2>2. CASE n < first
    <3>1. n \in 0 .. k /\ n \in 0 .. first - 1 /\ m \in 0 .. first - 1
      BY <1>0, <2>2
    <3> QED BY <1>1, <2>1, <3>1
  <2>3. CASE n >= first
    <3>1. g[n] = h[first - 1]
      BY <1>0, <1>1, <2>3
    <3>2. CASE m < first
      <4>1. m \in 0 .. first - 1
        BY <1>0, <3>2
      <4> QED BY <1>0, <1>1, <2>1, <3>1, <4>1
    <3>3. CASE m >= first
      <4>1. m \in first .. k + 1
        BY <1>0, <3>3
      <4> QED BY <1>1, <3>1, <4>1 DEF Keeps
    <3> QED BY <1>0, <3>2, <3>3
  <2> QED BY <1>0, <2>2, <2>3
<1>7. ASSUME kind # "accounts", NEW n \in 0 .. k + 1
      PROVE  Before(g[n].accounts, commit)
  <2>1. \A m \in 0 .. k : Before(h[m].accounts, commit)
    BY <1>7 DEF History, k
  <2>2. \A m \in 0 .. first - 1 : m \in 0 .. k
    BY <1>0
  <2> QED BY <1>0, <1>1, <1>2, <2>1, <2>2
<1>8. History(g, kind, evs, all, top, commit)
  BY <1>0, <1>4, <1>5, <1>6, <1>7 DEF History
<1> QED BY <1>1, <1>8 DEF k


-----------------------------------------------------------------------------
(* Chains *)

\* A set that holds neighbours of an interval together holds all of it or none.
LEMMA AgreesOnInterval ==
  ASSUME NEW p \in Nat, NEW q \in Nat, NEW S,
         \A k \in p .. q - 1 : k \in S <=> k + 1 \in S
  PROVE  \A k \in p .. q : k \in S <=> p \in S
<1> DEFINE U == {k \in p .. q : ~(k \in S <=> p \in S)}
<1> SUFFICES ASSUME U # {} PROVE FALSE
  OBVIOUS
<1>1. U \subseteq Nat
  OBVIOUS
<1>2. PICK k \in U : \A j \in U : k <= j
  <2> HIDE DEF U
  <2> QED BY <1>1, LeastElement
<1>3. k \in p .. q /\ k # p
  OBVIOUS
<1>4. k - 1 \in p .. q - 1 /\ k - 1 \in p .. q /\ (k - 1) + 1 = k
  BY <1>3
<1>5. k - 1 \notin U
  <2>1. k - 1 < k
    BY <1>3
  <2> QED BY <1>2, <1>3, <2>1, <1>1
<1>6. k - 1 \in S <=> k \in S
  BY <1>4
<1> QED BY <1>4, <1>5, <1>6

\* The bounds of a chain: every event but its last is linked, and it is open
\* only when its last event is the last of the batch.
LEMMA ChainBounds ==
  ASSUME Len(events) \in Nat, NEW i \in 1 .. Len(events)
  PROVE  \E first \in 1 .. i : \E last \in i .. Len(events) :
           /\ ChainOf(i) = first .. last
           /\ \A k \in first .. last - 1 : Linked(events[k])
           /\ last # Len(events) => ~Linked(events[last])
<1> DEFINE F == {j \in 1 .. i : \A k \in j .. i - 1 : Linked(events[k])}
           R == {k \in i .. Len(events) : ~Linked(events[k])}
           first == Min(F)
           last  == IF R = {} THEN Len(events) ELSE Min(R)
<1>1. ChainOf(i) = first .. last
  BY DEF ChainOf
<1>2. i \in F /\ F \subseteq Nat /\ R \subseteq Nat
  OBVIOUS
<1>3. first \in F
  <2>1. \E x \in F : \A y \in F : x <= y
    <3> HIDE DEF F
    <3> QED BY <1>2, LeastElement
  <2> HIDE DEF F
  <2> QED BY <2>1 DEF Min
<1>4. /\ last \in i .. Len(events)
      /\ \A k \in i .. last - 1 : Linked(events[k])
      /\ last # Len(events) => ~Linked(events[last])
  <2>1. CASE R = {}
    BY <2>1
  <2>2. CASE R # {}
    <3>1. \E x \in R : \A y \in R : x <= y
      <4> HIDE DEF R
      <4> QED BY <1>2, <2>2, LeastElement
    <3>2. last \in R /\ \A y \in R : last <= y
      <4> HIDE DEF R
      <4> QED BY <2>2, <3>1 DEF Min
    <3> HIDE DEF last
    <3> QED BY <3>2
  <2> QED BY <2>1, <2>2
<1> HIDE DEF last, first
<1>5. first \in 1 .. i /\ \A k \in first .. i - 1 : Linked(events[k])
  BY <1>3
<1>6. \A k \in first .. last - 1 : k \in first .. i - 1 \/ k \in i .. last - 1
  BY <1>4, <1>5
<1> QED BY <1>1, <1>4, <1>5, <1>6

Created(n) == results[n].status = "Created"

\* The members of a chain were all created, or none was: a failure undoes the
\* members before it and decides those after it.
Atomic ==
  /\ \A j \in 1 .. Len(results) - 1 : Linked(events[j]) => (Created(j) <=> Created(j + 1))
  /\ results # <<>> /\ Len(results) = Len(events) /\ Linked(events[Len(results)]) =>
       ~Created(Len(results))

\* The persist walk, which looks at the whole chain of an event, takes it for
\* intact exactly when execution left the event created.
LEMMA IntactIsCreated ==
  ASSUME Len(events) \in Nat, Len(results) = Len(events), results # <<>>, Atomic,
         NEW i \in 1 .. Len(events)
  PROVE  /\ \A k \in ChainOf(i) : k \in 1 .. Len(events) /\ (Created(k) <=> Created(i))
         /\ i \in ChainOf(i)
         /\ Intact(i) <=> Created(i)
<1>1. PICK first \in 1 .. i, last \in i .. Len(events) :
        /\ ChainOf(i) = first .. last
        /\ \A k \in first .. last - 1 : Linked(events[k])
        /\ last # Len(events) => ~Linked(events[last])
  BY ChainBounds
<1> DEFINE S == {k \in 1 .. Len(events) : Created(k)}
<1>2. first \in Nat /\ last \in Nat /\ i \in first .. last /\ i \in Nat
  OBVIOUS
<1>3. \A k \in first .. last : k \in 1 .. Len(events)
  OBVIOUS
<1>4. \A k \in first .. last - 1 : k \in S <=> k + 1 \in S
  <2> SUFFICES ASSUME NEW k \in first .. last - 1
               PROVE  k \in S <=> k + 1 \in S
    OBVIOUS
  <2>1. k \in 1 .. Len(results) - 1 /\ k \in 1 .. Len(events) /\ k + 1 \in 1 .. Len(events)
    OBVIOUS
  <2>2. Created(k) <=> Created(k + 1)
    BY <1>1, <2>1 DEF Atomic
  <2> QED BY <2>1, <2>2
<1>5. \A k \in first .. last : k \in S <=> first \in S
  <2> HIDE DEF S
  <2> QED BY <1>2, <1>4, AgreesOnInterval
<1>6. \A k \in first .. last : k \in S <=> i \in S
  BY <1>2, <1>5
<1>7. \A k \in first .. last : Created(k) <=> Created(i)
  BY <1>2, <1>3, <1>6
<1>8. CASE \E k \in ChainOf(i) : ~Linked(events[k])
  BY <1>1, <1>2, <1>3, <1>7, <1>8 DEF Intact, Created
<1>9. CASE \A k \in ChainOf(i) : Linked(events[k])
  <2>1. Linked(events[last]) /\ last \in first .. last
    BY <1>1, <1>2, <1>9
  <2>2. last = Len(events)
    BY <1>1, <2>1
  <2>3. ~Created(last)
    BY <2>1, <2>2 DEF Atomic
  <2>4. ~Created(i)
    BY <1>7, <2>1, <2>3
  <2> QED BY <1>1, <1>2, <1>3, <1>7, <1>9, <2>4 DEF Intact
<1> QED BY <1>8, <1>9


-----------------------------------------------------------------------------
(* Extremes of the stores *)

\* KeyMax is the greatest timestamp of the rows, or zero.
LEMMA KeyMaxIsGreatest ==
  ASSUME NEW rows, \A i \in Stored(rows) : rows[i].timestamp \in 1 .. TimestampMax
  PROVE  /\ KeyMax(rows) \in Nat /\ Before(rows, KeyMax(rows))
         /\ \A t \in Nat : Before(rows, t) => KeyMax(rows) <= t
<1> DEFINE T == {0} \cup {rows[i].timestamp : i \in Stored(rows)}
<1>1. T \subseteq 0 .. TimestampMax /\ T # {} /\ TimestampMax \in Nat
  BY ConstantsAssumption
<1>2. \E x \in T : \A y \in T : x >= y
  <2> HIDE DEF T
  <2> QED BY <1>1, GreatestElement
<1>3. Max(T) \in T /\ \A y \in T : Max(T) >= y
  <2> HIDE DEF T
  <2> QED BY <1>2 DEF Max
<1>4. KeyMax(rows) = Max(T)
  BY DEF KeyMax
<1> DEFINE m == Max(T)
<1> HIDE DEF m
<1>5. m \in T /\ \A y \in T : m >= y
  BY <1>3 DEF m
<1>6. m \in Nat
  BY <1>1, <1>5
<1>7. Before(rows, m)
  <2>1. \A i \in Stored(rows) : rows[i].timestamp \in T /\ rows[i].timestamp \in Nat
    OBVIOUS
  <2> QED BY <1>5, <1>6, <2>1 DEF Before
<1>8. ASSUME NEW t \in Nat, Before(rows, t)
      PROVE  m <= t
  BY <1>5, <1>8 DEF Before
<1> QED BY <1>4, <1>6, <1>7, <1>8 DEF m

\* A transfer that may expire does so at a time after zero.
LEMMA ExpiriesArePositive ==
  ASSUME NEW db, Ledger(db), NEW i \in Expiring(db)
  PROVE  ExpiresAt(db.transfers[i]) \in Nat \ {0}
<1> DEFINE p == db.transfers[i]
<1>1. p \in TransferRows
  BY DEF Ledger, DbOK, Databases, Expiring, Stored
<1>2. p.timestamp \in 1 .. TimestampMax /\ p.timeout \in Nat /\ Second \in Nat
  BY <1>1, ConstantsAssumption DEF TransferRows
<1>3. \A x \in Nat, y \in Nat : x * y \in Nat
  OBVIOUS
<1>4. p.timeout * Second \in Nat
  BY <1>2, <1>3
<1> HIDE DEF p
<1>5. ExpiresAt(p) \in Nat \ {0}
  <2> DEFINE z == p.timeout * Second
  <2>1. z \in Nat
    BY <1>4
  <2> HIDE DEF z
  <2>2. ExpiresAt(p) = p.timestamp + z
    BY DEF ExpiresAt, z
  <2> QED BY <1>2, <2>1, <2>2, ConstantsAssumption
<1> QED BY <1>5 DEF p

\* The pulse that is searched for is not past the expiry of any hold.
LEMMA SoonestExpiryIsLeast ==
  ASSUME NEW db, Ledger(db)
  PROVE  /\ SoonestExpiry(db) \in 1 .. TimestampMax
         /\ \A i \in Expiring(db) : SoonestExpiry(db) <= ExpiresAt(db.transfers[i])
<1> DEFINE T == {TimestampMax} \cup {ExpiresAt(db.transfers[i]) : i \in Expiring(db)}
<1>1. T \subseteq Nat \ {0} /\ TimestampMax \in T
  BY ExpiriesArePositive, ConstantsAssumption
<1>2. \E x \in T : \A y \in T : x <= y
  <2> HIDE DEF T
  <2> QED BY <1>1, LeastElement
<1>3. Min(T) \in T /\ \A y \in T : Min(T) <= y
  <2> HIDE DEF T
  <2> QED BY <1>2 DEF Min
<1>4. SoonestExpiry(db) = Min(T)
  BY DEF SoonestExpiry
<1> DEFINE m == Min(T)
<1> HIDE DEF m
<1>5. m \in T /\ \A y \in T : m <= y
  BY <1>3 DEF m
<1>6. m \in 1 .. TimestampMax
  BY <1>1, <1>5
<1>7. \A i \in Expiring(db) : m <= ExpiresAt(db.transfers[i])
  BY <1>5
<1> QED BY <1>4, <1>6, <1>7 DEF m

-----------------------------------------------------------------------------
(* The invariant of the specification *)

Executing  == op \in {"create_accounts", "create_transfers", "persist_accounts", "persist_transfers"}
Creating   == op \in {"create_accounts", "create_transfers"}
Persisted  == op \in {"persist_accounts", "persist_transfers"}
Kind       == IF op \in {"create_accounts", "persist_accounts"} THEN "accounts" ELSE "transfers"

\* What an event is answered with.
Statuses ==
  Transient \cup
  {"Created", "Exists", "ExistsWithDifferentFlags", "ExistsWithDifferent",
   "ImportedEventTimestampMustNotRegress", "FlagsAreMutuallyExclusive",
   "AccountsMustBeDifferent", "ReservedForPendingTransfer",
   "ImportedEventTimestampMustPostdateAccounts", "Overflows", "PendingTransferNotPending",
   "TimeoutReservedForPendingTransfer", "PendingTransferHasDifferentAccount",
   "ExceedsPendingTransferAmount", "PendingTransferHasDifferentAmount",
   "PendingTransferAlreadyResolved", "PendingTransferExpired", "OverflowsTimeout", "IdAlreadyFailed",
   "LinkedEventChainOpen", "LinkedEventFailed", "ImportedEventExpected",
   "ImportedEventTimestampMustNotAdvance"}

ResultRows == [status : Statuses, timestamp : Int, amount : 0 .. AmountMax]

Events == IF Kind = "accounts" THEN AccountEvents ELSE TransferEvents

Types ==
  /\ op \in Ops /\ timestamp \in 0 .. TimestampMax /\ commit_timestamp \in 0 .. TimestampMax
  /\ pulse_next_timestamp \in 1 .. TimestampMax /\ ops \in 0 .. MaxOps
  /\ orphaned \subseteq Ids /\ due \subseteq Ids /\ logged \subseteq 1 .. TimestampMax
  /\ key_max \in Nat /\ saved.key_max \in Nat /\ chain_broken \in BOOLEAN
  /\ events \in Seq(Events) /\ results \in Seq(ResultRows)
  /\ chain \in 0 .. Len(results) /\ persisted \in 0 .. Len(results)

\* The stored transfers have timestamps of their own: insert_transfer asserts it.
Distinct(db) ==
  \A i, j \in Stored(db.transfers) :
    db.transfers[i].timestamp = db.transfers[j].timestamp => i = j

Ledgers == Ledger(store) /\ Distinct(store) /\ Sound(cache) /\ Sound(saved.db)

\* Between batches the caches lag behind the stores only in what expired.
Resting ==
  ~Executing =>
    /\ events = <<>> /\ results = <<>>
    /\ cache.transfers = store.transfers /\ Stored(cache.accounts) = Stored(store.accounts)

\* An operation comes after what is committed, and has a timestamp for each of its
\* events, or none of them is executed.
Clock ==
  /\ op = "idle" => UpTo(store, commit_timestamp)
  /\ op # "expire" => due = {}
  /\ op = "expire" => UpTo(store, timestamp) /\ due \subseteq Expiring(store)
  /\ Executing => /\ commit_timestamp <= timestamp
                  /\ results # <<>> => Len(events) <= timestamp

\* The open chain is linked up to the event that comes next.
Loop ==
  /\ Executing => Len(results) <= Len(events)
  /\ Persisted => Len(results) = Len(events)
  /\ Creating => persisted = 0
  /\ chain_broken => chain # 0
  /\ chain # 0 => /\ Len(results) < Len(events)
                  /\ \A j \in chain .. Len(results) :
                       Linked(events[j]) /\ (Created(j) <=> ~chain_broken)
  /\ chain # 0 /\ chain # 1 => ~Linked(events[chain - 1])
  /\ chain = 0 /\ Len(results) \in 1 .. Len(events) - 1 => ~Linked(events[Len(results)])

\* key_max is at or after every row of the groove that the batch adds to.
KeyMaxima ==
  Creating =>
    /\ Before(Groove(cache, Kind), key_max)
    /\ chain # 0 => Before(Groove(saved.db, Kind), saved.key_max) /\ saved.key_max <= key_max
    /\ Spaced /\ events # <<>> /\ ~Imported(events[1]) => key_max <= EventTimestamp(Len(results))

Scheduled ==
  op # "expire" => \A i \in Expiring(store) : pulse_next_timestamp <= ExpiresAt(store.transfers[i])

\* The results lead from the stores, through the scope of the open chain, to
\* the caches.
Remembered ==
  Executing =>
    \E h : /\ History(h, Kind, events, results, timestamp, commit_timestamp)
           /\ h[persisted] = store /\ h[Len(results)] = cache
           /\ chain # 0 => h[chain - 1] = saved.db

IInv ==
  /\ Types /\ Ledgers /\ Resting /\ Clock /\ Loop /\ Atomic
  /\ KeyMaxima /\ Scheduled /\ Remembered /\ AssertionsHold

\* What the batch reads is what is committed.
LEMMA PrefetchedIsStore ==
  ASSUME DbOK(store), DbOK(cache),
         cache.transfers = store.transfers, Stored(cache.accounts) = Stored(store.accounts)
  PROVE  Prefetched = store
<1>1. /\ store.accounts \in [Accounts -> AccountRows \cup {None}]
      /\ store.transfers \in [Ids -> TransferRows \cup {None}]
      /\ store.pending \in [Ids -> Status \cup {None}]
      /\ store = [accounts |-> store.accounts, transfers |-> store.transfers,
                  pending |-> store.pending]
  BY DEF DbOK, Databases
<1>2. cache.accounts \in [Accounts -> AccountRows \cup {None}]
  BY DEF DbOK, Databases
<1> DEFINE row(f) == [i \in DOMAIN store[f] |->
                        IF store[f][i] # None THEN store[f][i] ELSE cache[f][i]]
<1>3. row("accounts") = store.accounts
  <2>1. \A i \in Accounts : store.accounts[i] = None => cache.accounts[i] = None
    BY <1>1, <1>2 DEF Stored
  <2> QED BY <1>1, <2>1
<1>4. row("transfers") = store.transfers
  BY <1>1
<1>5. row("pending") = store.pending
  <2>1. ASSUME NEW i \in Ids, store.pending[i] = None
        PROVE  cache.pending[i] = None
    <3>1. CASE i \in Stored(store.transfers)
      <4>1. store.pending[i] \in (IF IsPending(store.transfers[i]) THEN Status ELSE {None})
        BY <3>1 DEF DbOK
      <4>2. ~IsPending(store.transfers[i])
        BY <2>1, <4>1, NoneAssumption
      <4>3. cache.pending[i] \in (IF IsPending(cache.transfers[i]) THEN Status ELSE {None})
        BY <3>1 DEF DbOK
      <4> QED BY <4>2, <4>3
    <3>2. CASE i \notin Stored(store.transfers)
      <4>1. i \in Ids \ Stored(cache.transfers)
        BY <3>2
      <4> QED BY <4>1 DEF DbOK
    <3> QED BY <3>1, <3>2
  <2> QED BY <1>1, <2>1
<1>6. Prefetched = [f \in {"accounts", "transfers", "pending"} |-> row(f)]
  BY DEF Prefetched
<1> HIDE DEF row
<1>7. Prefetched = [accounts |-> store.accounts, transfers |-> store.transfers,
                    pending |-> store.pending]
  BY <1>3, <1>4, <1>5, <1>6
<1> QED BY <1>1, <1>7


-----------------------------------------------------------------------------
(* The invariant holds initially, and every action keeps it *)

\* Nothing is stored and nothing is executed when the state machine starts.
LEMMA InitInvariant == Init => IInv
<1> SUFFICES ASSUME Init PROVE IInv
  OBVIOUS
<1> DEFINE db == [accounts |-> [a \in Accounts |-> None],
                  transfers |-> [i \in Ids |-> None], pending |-> [i \in Ids |-> None]]
<1>1. store = db /\ cache = db /\ saved.db = db
  BY DEF Init
<1>2. Stored(db.accounts) = {} /\ Stored(db.transfers) = {}
  BY DEF Stored
<1>3. Ledger(db) /\ Distinct(db) /\ Sound(db)
  <2>1. db \in Databases
    BY DEF Databases
  <2>2. DbOK(db)
    BY <1>2, <2>1 DEF DbOK
  <2>3. \A i \in Ids : Resolutions(db, i) = {} /\ db.pending[i] \notin {"Posted", "Voided"}
    BY <1>2, NoneAssumption DEF Resolutions, Status
  <2>4. ResolvedOnceIn(db)
    BY <2>3 DEF ResolvedOnceIn
  <2>5. Held(db) = {}
    BY <1>2 DEF Held
  <2>6. BalancesAre(db)
    BY <1>2 DEF BalancesAre
  <2>7. ClosedByHolds(db)
    BY <2>5 DEF ClosedByHolds
  <2>8. Ledger(db)
    BY <1>2, <2>2, <2>4, <2>6, <2>7 DEF Ledger
  <2> QED BY <1>2, <2>2, <2>8 DEF Distinct, Sound
<1> HIDE DEF db
<1>4. Types
  <2>1. /\ op = "idle" /\ timestamp = 0 /\ commit_timestamp = 0 /\ pulse_next_timestamp = 1
        /\ ops = 0 /\ orphaned = {} /\ due = {} /\ logged = {}
        /\ key_max = 0 /\ saved.key_max = 0 /\ chain_broken = FALSE
        /\ events = <<>> /\ results = <<>> /\ chain = 0 /\ persisted = 0
    BY DEF Init
  <2>2. events \in Seq(Events) /\ results \in Seq(ResultRows) /\ Len(results) = 0
    BY <2>1
  <2>3. TimestampMax \in Nat \ {0} /\ MaxOps \in Nat
    BY ConstantsAssumption
  <2>4. /\ op \in Ops /\ timestamp \in 0 .. TimestampMax /\ commit_timestamp \in 0 .. TimestampMax
        /\ pulse_next_timestamp \in 1 .. TimestampMax /\ ops \in 0 .. MaxOps
        /\ orphaned \subseteq Ids /\ due \subseteq Ids /\ logged \subseteq 1 .. TimestampMax
    BY <2>1, <2>3 DEF Ops
  <2>5. /\ key_max \in Nat /\ saved.key_max \in Nat
        /\ chain \in 0 .. Len(results) /\ persisted \in 0 .. Len(results)
    BY <2>1, <2>2
  <2>6. chain_broken \in BOOLEAN
    BY <2>1, Zenon
  <2> QED BY <2>2, <2>4, <2>5, <2>6 DEF Types
<1>5. Ledgers
  BY <1>1, <1>3 DEF Ledgers
<1>6. Resting
  BY <1>1 DEF Init, Resting
<1>7. Clock
  BY <1>1, <1>2 DEF Init, Clock, UpTo, Before, Executing
<1>8. Loop /\ Atomic
  BY DEF Init, Loop, Atomic, Executing, Persisted, Creating
<1>9. KeyMaxima /\ Remembered
  BY DEF Init, KeyMaxima, Remembered, Creating, Executing
<1>10. Scheduled
  BY <1>1, <1>2 DEF Scheduled, Expiring
<1>11. AssertionsHold
  BY DEF Init, AssertionsHold
<1> QED BY <1>4, <1>5, <1>6, <1>7, <1>8, <1>9, <1>10, <1>11 DEF IInv

\* The assertions that may fail, and when.
Expected(assertion) ==
  \/ assertion \in {"none", "imported_after_event", "resolved_before_hold",
                    "expiry_too_early", "two_account_events_share"}
  \/ /\ assertion \in {"timestamp_underflow", "account_after_transfer", "two_accounts_share",
                       "two_transfers_share", "expiry_before_commit"}
     /\ ~Spaced
  \/ assertion = "post_or_void" /\ ~SeparateHolds(cache)

\* An assertion that fails stops the replica: nothing moves.
LEMMA StopKeepsInvariant ==
  ASSUME IInv, NEW assertion, Stop(assertion), Expected(assertion)
  PROVE  IInv' /\ UNCHANGED <<stores, clock, loop, op, timestamp, ops>>
<1>1. UNCHANGED <<stores, clock, loop, op, timestamp, ops>>
  BY DEF Stop
<1>2. /\ store' = store /\ cache' = cache /\ saved' = saved /\ orphaned' = orphaned
      /\ logged' = logged /\ commit_timestamp' = commit_timestamp
      /\ pulse_next_timestamp' = pulse_next_timestamp /\ events' = events /\ results' = results
      /\ chain' = chain /\ chain_broken' = chain_broken /\ key_max' = key_max
      /\ persisted' = persisted /\ due' = due /\ op' = op /\ timestamp' = timestamp /\ ops' = ops
  BY <1>1 DEF stores, clock, loop
<1>3. Types' /\ Ledgers' /\ Resting' /\ Clock'
  BY <1>2 DEF IInv, Types, Ledgers, Resting, Clock, Executing, Kind, Events
<1>4. Loop' /\ Atomic' /\ Scheduled'
  BY <1>2 DEF IInv, Loop, Atomic, Scheduled, Executing, Creating, Persisted, Created
<1>5. KeyMaxima' /\ Remembered'
  BY <1>2 DEF IInv, KeyMaxima, Remembered, Executing, Creating, Kind, EventTimestamp, Spaced
<1>6. AssertionsHold'
  <2>1. panic' = assertion
    BY DEF Stop
  <2> QED BY <1>2, <2>1 DEF Expected, AssertionsHold, Spaced, SeparateHolds
<1> QED BY <1>1, <1>3, <1>4, <1>5, <1>6 DEF IInv

\* A batch begins with the stores as its history.
LEMMA BeginKeepsInvariant ==
  ASSUME IInv, NEW name \in {"create_accounts", "create_transfers"}, NEW batch,
         batch \in Seq(IF name = "create_accounts" THEN AccountEvents ELSE TransferEvents),
         Begin(name, batch),
         key_max' = KeyMax(IF name = "create_accounts" THEN store.accounts ELSE store.transfers)
  PROVE  IInv'
<1>1. /\ op = "idle" /\ panic = "none" /\ ops < MaxOps
      /\ timestamp' \in Timestamps
      /\ op' = name /\ events' = batch /\ results' = <<>>
      /\ chain' = 0 /\ chain_broken' = FALSE /\ persisted' = 0
      /\ cache' = Prefetched /\ ops' = ops + 1
      /\ store' = store /\ saved' = saved /\ orphaned' = orphaned /\ logged' = logged
      /\ commit_timestamp' = commit_timestamp
      /\ pulse_next_timestamp' = pulse_next_timestamp /\ due' = due /\ panic' = panic
  BY DEF Begin, clock
<1>2. /\ Types /\ Ledgers /\ Resting /\ Clock /\ Scheduled /\ AssertionsHold
  BY DEF IInv
<1>3. ~Executing /\ op # "expire"
  BY <1>1 DEF Executing
<1>4. Ledger(store) /\ Sound(cache) /\ Sound(saved.db)
  BY <1>2 DEF Ledgers
<1>5. cache' = store
  <2>1. cache.transfers = store.transfers /\ Stored(cache.accounts) = Stored(store.accounts)
    BY <1>2, <1>3 DEF Resting
  <2> QED BY <1>1, <1>4, <2>1, PrefetchedIsStore DEF Ledger, Sound
<1>6. Len(batch) \in Nat /\ commit_timestamp \in Nat /\ TimestampMax \in Nat
  BY <1>2, ConstantsAssumption DEF Types
<1>7. timestamp' \in 0 .. TimestampMax /\ timestamp' >= commit_timestamp
  BY <1>1, <1>6, ConstantsAssumption DEF Timestamps
<1>8. UpTo(store, commit_timestamp)
  BY <1>1, <1>2 DEF Clock
<1>9. /\ Executing' /\ Creating' /\ ~Persisted' /\ op' # "expire" /\ op' # "idle"
      /\ Kind' = (IF name = "create_accounts" THEN "accounts" ELSE "transfers")
      /\ Events' = (IF name = "create_accounts" THEN AccountEvents ELSE TransferEvents)
      /\ Len(results') = 0
  BY <1>1 DEF Executing, Creating, Persisted, Kind, Events
<1>10. /\ \A i \in Stored(store.accounts) : store.accounts[i].timestamp \in 1 .. TimestampMax
       /\ \A i \in Stored(store.transfers) : store.transfers[i].timestamp \in 1 .. TimestampMax
  <2>1. /\ store.accounts \in [Accounts -> AccountRows \cup {None}]
        /\ store.transfers \in [Ids -> TransferRows \cup {None}]
    BY <1>4 DEF Ledger, DbOK, Databases
  <2> QED BY <2>1 DEF Stored, AccountRows, TransferRows
<1> DEFINE rows == Groove(store, Kind')
<1>11. \A i \in Stored(rows) : rows[i].timestamp \in 1 .. TimestampMax
  BY <1>9, <1>10 DEF Groove
<1>12. key_max' = KeyMax(rows) /\ Before(rows, commit_timestamp)
  BY <1>8, <1>9 DEF Groove, UpTo
<1> HIDE DEF rows
<1>13. key_max' \in Nat /\ Before(rows, key_max') /\ key_max' <= commit_timestamp
  BY <1>6, <1>11, <1>12, KeyMaxIsGreatest
<1>14. Types'
  <2>1. /\ op' \in Ops /\ ops' \in 0 .. MaxOps /\ timestamp' \in 0 .. TimestampMax
        /\ events' \in Seq(Events') /\ results' \in Seq(ResultRows')
    BY <1>1, <1>2, <1>6, <1>7, <1>9, ConstantsAssumption DEF Types, Ops
  <2>2. /\ commit_timestamp' \in 0 .. TimestampMax /\ pulse_next_timestamp' \in 1 .. TimestampMax
        /\ orphaned' \subseteq Ids /\ due' \subseteq Ids /\ logged' \subseteq 1 .. TimestampMax
        /\ key_max' \in Nat /\ saved'.key_max \in Nat /\ chain_broken' \in BOOLEAN
    BY <1>1, <1>2, <1>13 DEF Types
  <2>3. chain' \in 0 .. Len(results') /\ persisted' \in 0 .. Len(results')
    BY <1>1, <1>9
  <2> QED BY <2>1, <2>2, <2>3 DEF Types
<1>15. Ledgers' /\ Resting' /\ AssertionsHold'
  <2>1. Sound(store)
    BY <1>4 DEF Ledger, Sound
  <2> QED BY <1>1, <1>2, <1>4, <1>5, <1>9, <2>1 DEF Ledgers, Resting, AssertionsHold
<1>16. Clock'
  BY <1>1, <1>2, <1>3, <1>6, <1>7, <1>9 DEF Clock
<1>17. Loop' /\ Atomic'
  BY <1>1, <1>6, <1>9 DEF Loop, Atomic
<1>18. KeyMaxima'
  <2>1. Before(Groove(cache', Kind'), key_max')
    BY <1>5, <1>13 DEF rows
  <2>2. Spaced' => key_max' <= timestamp' - Len(events') + Len(results')
    BY <1>1, <1>6, <1>7, <1>9, <1>13 DEF Spaced
  <2> QED BY <1>1, <2>1, <2>2 DEF KeyMaxima, EventTimestamp
<1>19. Scheduled'
  BY <1>1, <1>2, <1>3 DEF Scheduled
<1>20. Remembered'
  <2> DEFINE h == [n \in {0} |-> store]
  <2>1. UpTo(store, timestamp')
    <3>1. \A t \in 1 .. TimestampMax : t <= commit_timestamp => t <= timestamp'
      BY <1>6, <1>7
    <3> QED BY <1>8, <1>10, <3>1 DEF UpTo, Before
  <2>2. 0 .. 0 = {0}
    OBVIOUS
  <2>3. History(h, Kind', events', results', timestamp', commit_timestamp')
    <3>1. \A n \in 0 .. 0 : \A m \in 0 .. n : h[n] = store /\ h[m] = store
      OBVIOUS
    <3> HIDE DEF h
    <3>2. Sound(store)
      BY <1>4 DEF Ledger, Sound
    <3> QED BY <1>1, <1>8, <1>9, <2>1, <2>2, <3>1, <3>2 DEF History, Keeps, UpTo, Before
  <2>4. h[persisted'] = store' /\ h[Len(results')] = cache'
    BY <1>1, <1>5, <1>9
  <2> HIDE DEF h
  <2> QED BY <1>1, <2>3, <2>4 DEF Remembered
<1> QED BY <1>14, <1>15, <1>16, <1>17, <1>18, <1>19, <1>20 DEF IInv


\* The verdict on an event: a chain that is open at the end of the batch, a
\* chain that failed before, a batch that mixes imported events with others.
LEMMA VerdictIs ==
  ASSUME NEW e, NEW i, NEW status \in Statuses \cup Assertions, status # "LinkedEventChainOpen"
  PROVE  LET final == Verdict(e, i, status) IN
         /\ final \in Statuses \cup Assertions
         /\ final = "LinkedEventChainOpen" <=> Linked(e) /\ i = Len(events)
         /\ final = "Created" =>
              /\ status = "Created" /\ ~chain_broken
              /\ Imported(e) = Imported(events[1])
              /\ Imported(e) => ~(e.timestamp >= timestamp)
         /\ final = "Exists" => status = "Exists"
<1> DEFINE final == Verdict(e, i, status)
           open  == Linked(e) /\ i = Len(events)
           mixed == Imported(e) # Imported(events[1])
           late  == Imported(e) /\ e.timestamp >= timestamp
<1>1. final = IF open THEN "LinkedEventChainOpen"
              ELSE IF chain_broken THEN "LinkedEventFailed"
              ELSE IF mixed THEN "ImportedEventExpected"
              ELSE IF late THEN "ImportedEventTimestampMustNotAdvance"
              ELSE status
  BY DEF Verdict
<1> HIDE DEF final, open, mixed, late
<1>2. /\ final \in Statuses \cup Assertions
      /\ final = "LinkedEventChainOpen" <=> open
      /\ final = "Created" => status = "Created" /\ ~chain_broken /\ ~mixed /\ ~late
      /\ final = "Exists" => status = "Exists"
  BY <1>1 DEF Statuses, Assertions
<1> QED BY <1>2 DEF final, open, mixed, late

\* The first event of the chain that event i belongs to, zero when there is none.
First(i) == IF Linked(events[i]) /\ chain = 0 THEN i ELSE chain

\* Event i fails as the first of its chain.
Breaks(i, status) == Verdict(events[i], i, status) # "Created" /\ First(i) # 0 /\ ~chain_broken

\* What one iteration does to the results and to the chain: a failure undoes
\* the members of its chain, and the chain is open until its last member.
LEMMA ExecuteKeepsLoop ==
  ASSUME IInv, Creating, Len(results) < Len(events),
         NEW status \in Statuses \cup Assertions, status # "LinkedEventChainOpen",
         Verdict(events[Len(results) + 1], Len(results) + 1, status) \notin Assertions,
         NEW amount, status = "Created" => amount \in 0 .. AmountMax,
         NEW old, status = "Exists" => old.timestamp \in Int,
         NEW after,
         Execute(status, amount, old, after),
         UNCHANGED <<events, op, persisted, timestamp>>
  PROVE  LET i     == Len(results) + 1
             final == Verdict(events[i], i, status)
         IN
         /\ results' \in Seq(ResultRows) /\ Len(results') = i
         /\ chain' \in 0 .. i /\ chain_broken' \in BOOLEAN
         /\ results'[i].status = final
         /\ final = "Created" =>
              results'[i] = [status |-> "Created", amount |-> amount,
                             timestamp |-> TimestampOf(events[i], EventTimestamp(i))]
         /\ \A n \in 1 .. Len(results) :
              IF Breaks(i, status) /\ n >= First(i)
              THEN results'[n].status # "Created" ELSE results'[n] = results[n]
         /\ First(i) \in 0 .. i /\ (chain' # 0 => chain' = First(i))
         /\ Loop' /\ Atomic'
<1> DEFINE k      == Len(results)
           i      == k + 1
           e      == events[i]
           start  == IF Linked(e) /\ chain = 0 THEN i ELSE chain
           final  == Verdict(e, i, status)
           created == final = "Created"
           breaks == ~created /\ start # 0 /\ ~chain_broken
           ends   == start # 0 /\ (~Linked(e) \/ final = "LinkedEventChainOpen")
           failed == [j \in DOMAIN results |->
                        IF breaks /\ j >= start THEN [results[j] EXCEPT !.status = "LinkedEventFailed"]
                        ELSE results[j]]
           stamp  == IF created THEN TimestampOf(e, EventTimestamp(i))
                     ELSE IF final = "Exists" THEN old.timestamp ELSE EventTimestamp(i)
           row    == [status |-> final, timestamp |-> stamp, amount |-> IF created THEN amount ELSE 0]
<1>1. /\ results' = Append(failed, row)
      /\ chain' = (IF ends THEN 0 ELSE start)
      /\ chain_broken' = (~ends /\ (chain_broken \/ breaks))
  BY DEF Execute
<1>2. Types /\ Loop /\ Atomic
  BY DEF IInv
<1>3. /\ k \in Nat /\ Len(events) \in Nat /\ i \in 1 .. Len(events) /\ chain \in 0 .. k
      /\ results \in Seq(ResultRows) /\ timestamp \in Int
  BY <1>2, ConstantsAssumption DEF Types
<1>4. /\ final \in Statuses
      /\ final = "LinkedEventChainOpen" <=> Linked(e) /\ i = Len(events)
      /\ final = "Created" => ~chain_broken /\ status = "Created"
      /\ final = "Exists" => status = "Exists"
  BY VerdictIs
<1>5. /\ failed \in Seq(ResultRows) /\ Len(failed) = k
      /\ \A j \in 1 .. k : breaks /\ j >= start => failed[j].status # "Created"
      /\ \A j \in 1 .. k : ~(breaks /\ j >= start) => failed[j] = results[j]
  <2>1. \A j \in 1 .. k : results[j] \in ResultRows
    BY <1>3
  <2>2. \A r \in ResultRows : /\ [r EXCEPT !.status = "LinkedEventFailed"] \in ResultRows
                              /\ [r EXCEPT !.status = "LinkedEventFailed"].status # "Created"
    <3> SUFFICES ASSUME NEW r \in ResultRows
                 PROVE  /\ [r EXCEPT !.status = "LinkedEventFailed"] \in ResultRows
                        /\ [r EXCEPT !.status = "LinkedEventFailed"].status # "Created"
      OBVIOUS
    <3>1. PICK s \in Statuses, t \in Int, n \in 0 .. AmountMax :
            r = [status |-> s, timestamp |-> t, amount |-> n]
      BY DEF ResultRows
    <3>2. [[status |-> s, timestamp |-> t, amount |-> n] EXCEPT !.status = "LinkedEventFailed"] =
            [status |-> "LinkedEventFailed", timestamp |-> t, amount |-> n]
      OBVIOUS
    <3>3. [r EXCEPT !.status = "LinkedEventFailed"] =
            [[status |-> s, timestamp |-> t, amount |-> n] EXCEPT !.status = "LinkedEventFailed"]
      BY <3>1, Zenon
    <3> QED BY <3>2, <3>3 DEF ResultRows, Statuses
  <2>3. DOMAIN results = 1 .. k
    BY <1>3
  <2> HIDE DEF breaks, start
  <2>4. \A j \in 1 .. k : failed[j] \in ResultRows
    BY <2>1, <2>2, <2>3
  <2>5. failed \in [1 .. k -> ResultRows]
    BY <2>3, <2>4
  <2>6. failed \in Seq(ResultRows) /\ Len(failed) = k
    BY <1>3, <2>5
  <2> QED BY <2>1, <2>2, <2>3, <2>6
<1>6. row \in ResultRows
  <2>1. stamp \in Int
    <3>1. EventTimestamp(i) \in Int
      BY <1>3 DEF EventTimestamp
    <3>2. e.timestamp \in Nat
      <4>1. e \in Events
        BY <1>2, <1>3 DEF Types
      <4> HIDE DEF e
      <4> QED BY <4>1 DEF Events, AccountEvents, TransferEvents
    <3>3. final = "Exists" => old.timestamp \in Int
      BY <1>4
    <3> HIDE DEF final, i, e
    <3> QED BY <3>1, <3>2, <3>3 DEF TimestampOf
  <2>2. (IF created THEN amount ELSE 0) \in 0 .. AmountMax
    BY <1>4, ConstantsAssumption
  <2> HIDE DEF stamp, created, final
  <2> QED BY <1>4, <2>1, <2>2 DEF ResultRows
<1> HIDE DEF failed, row
<1>7. /\ results' \in Seq(ResultRows) /\ Len(results') = i
      /\ results'[i] = row /\ \A j \in 1 .. k : results'[j] = failed[j]
  BY <1>1, <1>3, <1>5, <1>6
<1>8. results'[i].status = final
  BY <1>7 DEF row
<1>9. /\ Creating' /\ Executing' /\ ~Persisted' /\ events' = events /\ persisted' = persisted
      /\ Executing
  BY DEF Creating, Executing, Persisted
<1>10. /\ Len(results') = i /\ i \in Nat
       /\ results'[i].status = "Created" <=> created
       /\ \A j \in 1 .. k : breaks /\ j >= start => results'[j].status # "Created"
       /\ \A j \in 1 .. k : ~(breaks /\ j >= start) => results'[j].status = results[j].status
  BY <1>3, <1>5, <1>7, <1>8
<1> DEFINE open == final = "LinkedEventChainOpen"
<1>11. /\ open <=> Linked(e) /\ i = Len(events)
       /\ created => ~chain_broken
       /\ open => ~created
  BY <1>4
<1>12. start \in 0 .. i /\ (start # 0 => chain # 0 \/ start = i) /\ (start = 0 => chain = 0 /\ ~Linked(e))
  BY <1>3
<1>13. chain_broken \in BOOLEAN /\ (chain_broken => chain # 0)
  BY <1>2 DEF Types, Loop
<1>14. /\ chain # 0 => start = chain
       /\ start # 0 /\ start # chain => start = i /\ chain = 0 /\ Linked(e)
  BY <1>3
<1>15. ends <=> start # 0 /\ (~Linked(e) \/ open)
  OBVIOUS
<1>16. breaks <=> ~created /\ start # 0 /\ ~chain_broken
  OBVIOUS
<1>30. /\ First(i) = start
       /\ Breaks(i, status) <=> breaks
       /\ final = "Created" => row = [status |-> "Created", amount |-> amount,
                                     timestamp |-> TimestampOf(e, EventTimestamp(i))]
  BY DEF First, Breaks, row
<1> HIDE DEF created, breaks, ends, open, start, final
<1>17. chain' \in 0 .. Len(results')
  BY <1>1, <1>3, <1>10, <1>12
<1>18. chain_broken' \in BOOLEAN
  BY <1>1, Zenon
<1>19. ASSUME chain' # 0
       PROVE  /\ ~ends /\ chain' = start /\ Linked(e) /\ ~open /\ i < Len(events)
  BY <1>1, <1>3, <1>11, <1>12, <1>15, <1>19
<1>20. ASSUME chain' # 0, NEW j \in chain' .. Len(results')
       PROVE  Linked(events[j]) /\ (results'[j].status = "Created" <=> ~chain_broken')
  <2>1. ~ends /\ chain' = start /\ Linked(e)
    BY <1>19, <1>20
  <2>2. chain_broken' <=> chain_broken \/ breaks
    BY <1>1, <2>1
  <2>3. CASE j = i
    BY <1>10, <1>11, <1>16, <1>20, <2>1, <2>2, <2>3
  <2>4. CASE j # i
    <3>1. j \in 1 .. k /\ j >= start /\ start # i
      BY <1>3, <1>10, <1>12, <1>20, <2>1, <2>4
    <3>2. start = chain /\ chain # 0
      BY <1>12, <1>14, <1>20, <2>1, <3>1
    <3>3. Linked(events[j]) /\ (Created(j) <=> ~chain_broken)
      BY <1>2, <1>3, <3>1, <3>2 DEF Loop
    <3>4. CASE breaks
      BY <1>10, <2>2, <3>1, <3>3, <3>4
    <3>5. CASE ~breaks
      BY <1>10, <2>2, <3>1, <3>3, <3>5 DEF Created
    <3> QED BY <3>4, <3>5
  <2> QED BY <2>3, <2>4
<1>21. ASSUME start # 0, start # 1
       PROVE  ~Linked(events[start - 1])
  <2>1. CASE chain # 0
    BY <1>2, <1>14, <1>21, <2>1 DEF Loop
  <2>2. CASE chain = 0
    <3>1. start = i /\ k \in 1 .. Len(events) - 1 /\ start - 1 = k
      BY <1>3, <1>12, <1>14, <1>21, <2>2
    <3> QED BY <1>2, <2>2, <3>1 DEF Loop
  <2> QED BY <2>1, <2>2
<1>22. ASSUME chain' = 0, i \in 1 .. Len(events) - 1
       PROVE  ~Linked(e)
  BY <1>1, <1>3, <1>11, <1>12, <1>15, <1>22
<1>23. Loop'
  <2>1. chain_broken' => chain' # 0
    BY <1>1, <1>13, <1>14, <1>16
  <2>2. persisted' = 0
    BY <1>2, <1>9 DEF Loop
  <2>3. chain' # 0 => Len(results') < Len(events')
    BY <1>9, <1>10, <1>19
  <2>4. chain' # 0 /\ chain' # 1 => ~Linked(events'[chain' - 1])
    BY <1>9, <1>19, <1>21
  <2>5. chain' = 0 /\ Len(results') \in 1 .. Len(events') - 1 => ~Linked(events'[Len(results')])
    BY <1>9, <1>10, <1>22
  <2>6. Len(results') <= Len(events')
    BY <1>3, <1>9, <1>10
  <2>7. chain' # 0 => \A j \in chain' .. Len(results') :
                        Linked(events'[j]) /\ (results'[j].status = "Created" <=> ~chain_broken')
    BY <1>9, <1>20
  <2> QED BY <1>9, <2>1, <2>2, <2>3, <2>4, <2>5, <2>6, <2>7 DEF Loop, Created
<1>24. Atomic'
  <2>1. ASSUME NEW j \in 1 .. k, Linked(events[j])
        PROVE  results'[j].status = "Created" <=> results'[j + 1].status = "Created"
    <3>1. CASE j = k
      <4>1. chain # 0 /\ start = chain
        <5>1. k \in 1 .. Len(events) - 1
          BY <1>3, <3>1
        <5> QED BY <1>2, <1>14, <2>1, <3>1, <5>1 DEF Loop
      <4>2. Created(k) <=> ~chain_broken
        <5>1. k \in chain .. k
          BY <1>3, <4>1
        <5> QED BY <1>2, <4>1, <5>1 DEF Loop
      <4>3. k >= start /\ k \in 1 .. k
        BY <1>3, <3>1, <4>1
      <4>4. CASE breaks
        BY <1>10, <1>16, <3>1, <4>3, <4>4
      <4>5. CASE ~breaks
        BY <1>10, <1>11, <1>13, <1>16, <3>1, <4>1, <4>2, <4>3, <4>5 DEF Created
      <4> QED BY <4>4, <4>5
    <3>2. CASE j # k
      <4>1. j \in 1 .. k - 1 /\ j + 1 \in 1 .. k
        BY <1>3, <3>2
      <4>2. Created(j) <=> Created(j + 1)
        BY <1>2, <2>1, <4>1 DEF Atomic
      <4>3. CASE breaks /\ j >= start
        <5>1. j + 1 >= start
          BY <1>12, <4>3
        <5> QED BY <1>10, <4>1, <4>3, <5>1
      <4>4. CASE breaks /\ ~(j >= start) /\ j + 1 >= start
        <5>1. start = j + 1 /\ start # 0 /\ start # 1 /\ start - 1 = j
          BY <1>12, <4>1, <4>4
        <5> QED BY <1>21, <2>1, <5>1
      <4>5. CASE ~(breaks /\ j >= start) /\ ~(breaks /\ j + 1 >= start)
        BY <1>10, <4>1, <4>2, <4>5 DEF Created
      <4> QED BY <4>3, <4>4, <4>5
    <3> QED BY <3>1, <3>2
  <2>2. Linked(e) /\ i = Len(events) => results'[i].status # "Created"
    BY <1>10, <1>11
  <2>3. Len(results') - 1 = k
    BY <1>3, <1>10
  <2> QED BY <1>9, <1>10, <2>1, <2>2, <2>3 DEF Atomic, Created
<1>25. \A n \in 1 .. k : IF breaks /\ n >= start
                         THEN results'[n].status # "Created" ELSE results'[n] = results[n]
  BY <1>5, <1>7
<1>26. chain' # 0 => chain' = start
  BY <1>1
<1>27. final = "Created" =>
         results'[i] = [status |-> "Created", amount |-> amount,
                        timestamp |-> TimestampOf(e, EventTimestamp(i))]
  BY <1>7, <1>30
<1>28. \A n \in 1 .. k : IF Breaks(i, status) /\ n >= First(i)
                         THEN results'[n].status # "Created" ELSE results'[n] = results[n]
  BY <1>25, <1>30
<1>29. First(i) \in 0 .. i /\ (chain' # 0 => chain' = First(i)) /\ chain' \in 0 .. i
  BY <1>3, <1>7, <1>12, <1>17, <1>26, <1>30
<1> QED BY <1>7, <1>8, <1>18, <1>23, <1>24, <1>27, <1>28, <1>29 DEF final


\* A created event is legal where it stands: its timestamp comes after the
\* rows of its groove, and is not past that of the operation.
LEMMA CreatedIsLegal ==
  ASSUME IInv, Creating, Len(results) < Len(events), Len(events) <= timestamp,
         NEW r, r.status = "Created",
         LET i == Len(results) + 1
             e == events[i]
         IN /\ r.timestamp = TimestampOf(e, EventTimestamp(i))
            /\ Imported(e) = Imported(events[1])
            /\ Imported(e) => ~(e.timestamp >= timestamp) /\ e.timestamp > key_max
            /\ Kind = "accounts" => cache.accounts[e.id] = None
            /\ Kind # "accounts" =>
                 /\ r.amount \in 0 .. AmountMax /\ Shaped(cache, e)
                 /\ SeparateHolds(cache) => Applicable(cache, e, r.amount)
  PROVE  /\ Legal(Kind, cache, events, r, Len(results) + 1, timestamp, commit_timestamp)
         /\ ~Imported(events[1]) => r.timestamp = EventTimestamp(Len(results) + 1)
<1> DEFINE i == Len(results) + 1
           e == events[i]
<1>1. Types /\ DbOK(cache) /\ KeyMaxima
  BY DEF IInv, Ledgers, Sound
<1>2. /\ Len(results) \in Nat /\ Len(events) \in Nat /\ timestamp \in Nat /\ i \in 1 .. Len(events)
      /\ Len(events) <= timestamp /\ timestamp <= TimestampMax /\ TimestampMax \in Nat
      /\ key_max \in Nat
  BY <1>1, ConstantsAssumption DEF Types
<1>3. e \in Events
  BY <1>1, <1>2 DEF Types
<1>4. /\ r.timestamp = TimestampOf(e, EventTimestamp(i))
      /\ Imported(e) = Imported(events[1])
      /\ Imported(e) => ~(e.timestamp >= timestamp) /\ e.timestamp > key_max
      /\ Kind = "accounts" => cache.accounts[e.id] = None
      /\ Kind # "accounts" =>
           /\ r.amount \in 0 .. AmountMax /\ Shaped(cache, e)
           /\ SeparateHolds(cache) => Applicable(cache, e, r.amount)
  OBVIOUS
<1>5. EventTimestamp(i) = timestamp - Len(events) + i
  BY DEF EventTimestamp
<1>6. EventTimestamp(Len(results)) = timestamp - Len(events) + Len(results)
  BY DEF EventTimestamp
<1> HIDE DEF e, i
<1>7. e.timestamp \in Nat /\ (Imported(e) => e.timestamp # 0)
  BY <1>3 DEF Events, AccountEvents, TransferEvents, Imported
<1>8. /\ r.timestamp \in 1 .. TimestampMax /\ r.timestamp <= timestamp
      /\ ~Imported(e) => r.timestamp = EventTimestamp(i)
  BY <1>2, <1>4, <1>5, <1>7 DEF TimestampOf
<1>13. commit_timestamp + Len(events) <= timestamp <=> Spaced
  BY DEF Spaced, Creating
<1>9. ASSUME Spaced
      PROVE  key_max < r.timestamp
  <2>1. CASE Imported(e)
    BY <1>4, <2>1 DEF TimestampOf
  <2>2. CASE ~Imported(e)
    <3>1. ~Imported(events[1]) /\ events # <<>>
      BY <1>2, <1>4, <2>2
    <3>2. key_max <= EventTimestamp(Len(results))
      BY <1>1, <1>9, <3>1 DEF KeyMaxima
    <3>3. i = Len(results) + 1
      BY DEF i
    <3> QED BY <1>2, <1>5, <1>6, <1>8, <2>2, <3>2, <3>3
  <2> QED BY <2>1, <2>2
<1>10. ASSUME Spaced
       PROVE  \A j \in Stored(Groove(cache, Kind)) : Groove(cache, Kind)[j].timestamp < r.timestamp
  <2>1. /\ cache.accounts \in [Accounts -> AccountRows \cup {None}]
        /\ cache.transfers \in [Ids -> TransferRows \cup {None}]
    BY <1>1 DEF DbOK, Databases
  <2>2. \A j \in Stored(Groove(cache, Kind)) : Groove(cache, Kind)[j].timestamp \in Nat
    BY <2>1 DEF Groove, Stored, AccountRows, TransferRows
  <2>3. Before(Groove(cache, Kind), key_max)
    BY <1>1 DEF KeyMaxima
  <2>4. key_max < r.timestamp
    BY <1>9, <1>10
  <2> HIDE DEF i
  <2> QED BY <1>2, <1>8, <2>2, <2>3, <2>4 DEF Before
<1>11. /\ Kind = "accounts" => e \in AccountEvents
       /\ Kind # "accounts" => e \in TransferEvents
  BY <1>3 DEF Events
<1>12. Legal(Kind, cache, events, r, i, timestamp, commit_timestamp)
  <2>1. Imported(e) <=> Imported(events[1])
    BY <1>4
  <2> QED BY <1>4, <1>5, <1>8, <1>10, <1>11, <1>13, <2>1 DEF Legal, e
<1> QED BY <1>4, <1>8, <1>12 DEF i


\* The timestamps of a groove are numbers.
LEMMA GrooveTimestamps ==
  ASSUME NEW db, DbOK(db), NEW kind
  PROVE  \A i \in Stored(Groove(db, kind)) : Groove(db, kind)[i].timestamp \in 1 .. TimestampMax
<1>1. /\ db.accounts \in [Accounts -> AccountRows \cup {None}]
      /\ db.transfers \in [Ids -> TransferRows \cup {None}]
  BY DEF DbOK, Databases
<1> QED BY <1>1 DEF Groove, Stored, AccountRows, TransferRows

\* Timestamps that are at most t are at most every later one.
LEMMA BeforeLater ==
  ASSUME NEW db, DbOK(db), NEW kind, NEW t \in Nat, NEW u \in Nat, t <= u,
         Before(Groove(db, kind), t)
  PROVE  Before(Groove(db, kind), u)
<1> DEFINE rows == Groove(db, kind)
<1>1. \A i \in Stored(rows) : rows[i].timestamp \in 1 .. TimestampMax
  BY GrooveTimestamps
<1>2. \A x \in 1 .. TimestampMax : x <= t => x <= u
  BY ConstantsAssumption
<1> HIDE DEF rows
<1>3. Before(rows, u)
  <2>1. Before(rows, t)
    BY DEF rows
  <2> QED BY <1>1, <1>2, <2>1 DEF Before
<1> QED BY <1>3 DEF rows

\* The row that a created event adds comes last in its groove.
LEMMA EffectComesLast ==
  ASSUME NEW db, DbOK(db), NEW kind, NEW evs, NEW r, NEW n, NEW top, NEW commit,
         r.status = "Created", Legal(kind, db, evs, r, n, top, commit),
         NEW u \in Nat, r.timestamp <= u, Before(Groove(db, kind), u)
  PROVE  Before(Groove(Effect(kind, db, evs[n], r), kind), u)
<1> DEFINE e == evs[n]
           d == Effect(kind, db, e, r)
<1>1. CASE kind = "accounts"
  <2>1. /\ e \in AccountEvents /\ db.accounts[e.id] = None /\ r.timestamp \in 1 .. TimestampMax
    BY <1>1 DEF Legal
  <2>2. d = Opened(db, e, r.timestamp)
    BY <1>1 DEF Effect
  <2>3. /\ d.accounts[e.id] = NewAccount(e, r.timestamp)
        /\ \A a \in Stored(db.accounts) : d.accounts[a] = db.accounts[a]
        /\ Stored(d.accounts) = Stored(db.accounts) \cup {e.id}
    BY <2>1, <2>2, OpenKeepsShape
  <2> HIDE DEF d
  <2>4. d.accounts[e.id].timestamp = r.timestamp
    BY <2>3 DEF NewAccount
  <2> QED BY <1>1, <2>3, <2>4 DEF Before, Groove, d
<1>2. CASE kind # "accounts"
  <2>1. /\ e \in TransferEvents /\ r.amount \in 0 .. AmountMax /\ Shaped(db, e)
        /\ r.timestamp \in 1 .. TimestampMax
    BY <1>2 DEF Legal
  <2>2. d = ApplyTransfer(db, e, r.timestamp, r.amount)
    BY <1>2 DEF Effect
  <2>3. /\ Stored(d.transfers) = Stored(db.transfers) \cup {e.id}
        /\ e.id \in Ids \ Stored(db.transfers)
        /\ \A i \in Ids \ {e.id} : d.transfers[i] = db.transfers[i]
        /\ d.transfers[e.id].timestamp = r.timestamp
    BY SMTT(30), <2>1, <2>2, ApplyKeepsShape
  <2>4. Stored(db.transfers) \subseteq Ids \ {e.id}
    BY <2>3 DEF DbOK, Databases, Stored
  <2> HIDE DEF d
  <2> QED BY <1>2, <2>3, <2>4 DEF Before, Groove, d
<1> QED BY <1>1, <1>2

\* An iteration keeps the invariant: a created event adds a database to the
\* history, a chain that breaks takes it back to where the chain began.
LEMMA ExecuteKeepsInvariant ==
  ASSUME IInv, Creating, Len(results) < Len(events),
         Len(events) <= timestamp,
         NEW status \in Statuses \cup Assertions, status # "LinkedEventChainOpen",
         Verdict(events[Len(results) + 1], Len(results) + 1, status) \notin Assertions,
         NEW amount, NEW old, status = "Exists" => old.timestamp \in Int,
         NEW after,
         LET i == Len(results) + 1
             e == events[i]
             r == [status |-> "Created", amount |-> amount,
                   timestamp |-> TimestampOf(e, EventTimestamp(i))]
         IN status = "Created" =>
              /\ amount \in 0 .. AmountMax /\ after = Effect(Kind, cache, e, r)
              /\ Imported(e) => e.timestamp > key_max
              /\ Kind = "accounts" => cache.accounts[e.id] = None
              /\ Kind # "accounts" => /\ Shaped(cache, e)
                                      /\ SeparateHolds(cache) => Applicable(cache, e, amount),
         Execute(status, amount, old, after),
         panic = "none", panic' = panic,
         UNCHANGED <<store, orphaned, logged, clock, events, persisted, due, op, timestamp, ops>>
  PROVE  IInv'
<1> DEFINE k     == Len(results)
           i     == k + 1
           e     == events[i]
           r     == [status |-> "Created", amount |-> amount,
                     timestamp |-> TimestampOf(e, EventTimestamp(i))]
           scope == IF Linked(e) /\ chain = 0 THEN [db |-> cache, key_max |-> key_max] ELSE saved
           final == Verdict(e, i, status)
           created == final = "Created"
           breaks == Breaks(i, status)
           first == First(i)
<1>1. /\ Types /\ Ledgers /\ Clock /\ KeyMaxima /\ Scheduled /\ Remembered /\ AssertionsHold /\ Loop
      /\ Ledger(store) /\ Sound(cache) /\ Sound(saved.db)
  BY DEF IInv, Ledgers
<1>2. /\ k \in Nat /\ Len(events) \in Nat /\ i \in 1 .. Len(events) /\ key_max \in Nat
      /\ saved.key_max \in Nat /\ chain \in 0 .. k
      /\ op \in {"create_accounts", "create_transfers"}
  BY <1>1 DEF Types, Creating
<1>3. /\ events' = events /\ persisted' = persisted /\ op' = op /\ timestamp' = timestamp
      /\ store' = store /\ orphaned' = orphaned /\ logged' = logged /\ due' = due /\ ops' = ops
      /\ commit_timestamp' = commit_timestamp /\ pulse_next_timestamp' = pulse_next_timestamp
      /\ panic' = panic
  BY DEF clock
<1>4. /\ Kind' = Kind /\ Events' = Events /\ Executing' /\ Executing /\ Creating'
      /\ op # "idle" /\ op # "expire"
      /\ Kind = "accounts" <=> op # "create_transfers"
  BY <1>2, <1>3 DEF Kind, Events, Executing, Creating
<1>5. /\ results' \in Seq(ResultRows) /\ Len(results') = i
      /\ chain' \in 0 .. i /\ chain_broken' \in BOOLEAN
      /\ results'[i].status = final
      /\ created => results'[i] = r
      /\ \A n \in 1 .. k : IF breaks /\ n >= first
                           THEN results'[n].status # "Created" ELSE results'[n] = results[n]
      /\ first \in 0 .. i /\ (chain' # 0 => chain' = first)
      /\ Loop' /\ Atomic'
  <2>1. status = "Created" => amount \in 0 .. AmountMax
    OBVIOUS
  <2>2. UNCHANGED <<events, op, persisted, timestamp>>
    BY <1>3
  <2> QED BY <2>1, <2>2, ExecuteKeepsLoop
<1>6. /\ cache' = (IF breaks THEN scope.db ELSE IF created THEN after ELSE cache)
      /\ saved' = scope
      /\ key_max' = (IF breaks /\ op = "create_transfers" THEN scope.key_max
                     ELSE IF created /\ r.timestamp > key_max THEN r.timestamp ELSE key_max)
  BY DEF Execute, Discard, Breaks, First
<1>7. /\ created => status = "Created" /\ ~chain_broken /\ Imported(e) = Imported(events[1])
      /\ created /\ Imported(e) => ~(e.timestamp >= timestamp)
  BY VerdictIs
<1>8. created =>
        /\ amount \in 0 .. AmountMax /\ after = Effect(Kind, cache, e, r)
        /\ Imported(e) => e.timestamp > key_max
        /\ Kind = "accounts" => cache.accounts[e.id] = None
        /\ Kind # "accounts" => /\ Shaped(cache, e)
                                /\ SeparateHolds(cache) => Applicable(cache, e, amount)
  BY <1>7
<1>9. ASSUME created
      PROVE  /\ Legal(Kind, cache, events, r, i, timestamp, commit_timestamp)
             /\ ~Imported(events[1]) => r.timestamp = EventTimestamp(i)
  <2>1. r.status = "Created" /\ r.amount = amount
    OBVIOUS
  <2>2. /\ r.timestamp = TimestampOf(e, EventTimestamp(i))
        /\ Imported(e) = Imported(events[1])
        /\ Imported(e) => ~(e.timestamp >= timestamp) /\ e.timestamp > key_max
        /\ Kind = "accounts" => cache.accounts[e.id] = None
        /\ Kind # "accounts" =>
             /\ r.amount \in 0 .. AmountMax /\ Shaped(cache, e)
             /\ SeparateHolds(cache) => Applicable(cache, e, r.amount)
    BY <1>7, <1>8, <1>9
  <2> HIDE DEF r
  <2> QED BY <2>1, <2>2, CreatedIsLegal
<1>10. breaks => ~created /\ first # 0
  BY DEF Breaks
<1>11. /\ first = (IF Linked(e) /\ chain = 0 THEN i ELSE chain)
       /\ scope.db = (IF Linked(e) /\ chain = 0 THEN cache ELSE saved.db)
       /\ scope.key_max = (IF Linked(e) /\ chain = 0 THEN key_max ELSE saved.key_max)
  BY DEF First
<1>12. /\ EventTimestamp(k) \in Int /\ EventTimestamp(i) \in Int
       /\ EventTimestamp(k) <= EventTimestamp(i)
  <2>1. timestamp \in Int /\ Len(events) \in Int /\ k \in Int /\ i \in Int /\ k <= i
    BY <1>1, <1>2, ConstantsAssumption DEF Types
  <2> HIDE DEF k, i, r, scope, final, created, breaks, first, e
  <2> QED BY SMTT(30), <2>1 DEF EventTimestamp
<1> HIDE DEF scope, final, created, breaks, first, r, e
<1>13. PICK h : /\ History(h, Kind, events, results, timestamp, commit_timestamp)
                /\ h[persisted] = store /\ h[k] = cache
                /\ chain # 0 => h[chain - 1] = saved.db
  BY <1>1, <1>4 DEF Remembered
<1>14. first # 0 => first \in 1 .. i /\ h[first - 1] = scope.db
  BY <1>2, <1>5, <1>11, <1>13
<1>15. persisted = 0 /\ persisted \in 0 .. k
  BY <1>1, <1>2 DEF Loop, Creating
<1>16. \E g : /\ History(g, Kind, events, results', timestamp, commit_timestamp)
              /\ g[persisted] = store /\ g[i] = cache'
              /\ chain' # 0 => g[chain' - 1] = scope.db
  <2>1. CASE breaks
    <3>1. first \in 1 .. i /\ h[first - 1] = scope.db /\ ~created
      BY <1>10, <1>14, <2>1
    <3>2. \A n \in 1 .. first - 1 : results'[n] = results[n]
      BY <1>2, <1>5, <2>1, <3>1
    <3>3. \A n \in first .. i : results'[n].status # "Created"
      <4>1. results'[i].status # "Created"
        BY <1>5, <3>1 DEF created
      <4> QED BY <1>2, <1>5, <2>1, <3>1, <4>1
    <3>4. \E g : /\ History(g, Kind, events, results', timestamp, commit_timestamp)
                 /\ \A n \in 0 .. first - 1 : g[n] = h[n]
                 /\ \A n \in first .. Len(results) + 1 : g[n] = h[first - 1]
      <4> DEFINE all == results'
                 kind == Kind
      <4>1. \A n \in first .. Len(results) + 1 : all[n].status # "Created"
        BY <3>3
      <4>2. Len(all) = Len(results) + 1 /\ Len(results) \in Nat /\ first \in 1 .. Len(results) + 1
        BY <1>2, <1>5, <3>1
      <4>3. \A n \in 1 .. first - 1 : all[n] = results[n]
        BY <3>2
      <4>4. History(h, kind, events, results, timestamp, commit_timestamp)
        BY <1>13
      <4> HIDE DEF all, kind
      <4>5. \E g : /\ History(g, kind, events, all, timestamp, commit_timestamp)
                   /\ \A n \in 0 .. first - 1 : g[n] = h[n]
                   /\ \A n \in first .. Len(results) + 1 : g[n] = h[first - 1]
        BY <4>1, <4>2, <4>3, <4>4, HistoryBreaks
      <4> QED BY <4>5 DEF all, kind
    <3>5. PICK g : /\ History(g, Kind, events, results', timestamp, commit_timestamp)
                   /\ \A n \in 0 .. first - 1 : g[n] = h[n]
                   /\ \A n \in first .. Len(results) + 1 : g[n] = h[first - 1]
      BY <3>4
    <3>6. g[0] = h[0] /\ g[i] = h[first - 1] /\ g[first - 1] = h[first - 1]
      BY <1>2, <3>1, <3>5
    <3>7. cache' = scope.db
      BY <1>6, <2>1
    <3> QED BY <1>5, <1>13, <1>15, <3>1, <3>5, <3>6, <3>7
  <2>2. CASE ~breaks
    <3> DEFINE all == results'
               kind == Kind
               n == Len(results) + 1
    <3>1. \A m \in 1 .. Len(results) : all[m] = results[m]
      BY <1>5, <2>2
    <3>2. Len(all) = Len(results) + 1 /\ Len(results) \in Nat
      BY <1>2, <1>5
    <3>3. History(h, kind, events, results, timestamp, commit_timestamp)
      BY <1>13
    <3>4. all[n].status = "Created" => Legal(kind, h[Len(results)], events, all[n], n, timestamp, commit_timestamp)
      BY <1>5, <1>9, <1>13 DEF created
    <3>5. Effect(kind, h[Len(results)], events[n], all[n]) = cache'
      <4>1. CASE created
        BY <1>5, <1>6, <1>8, <1>13, <2>2, <4>1 DEF e
      <4>2. CASE ~created
        <5>1. cache' = cache /\ all[n].status # "Created"
          BY <1>5, <1>6, <2>2, <4>2 DEF created
        <5> QED BY <1>13, <5>1 DEF Effect
      <4> QED BY <4>1, <4>2
    <3> HIDE DEF all, kind
    <3>6. \E g : /\ History(g, kind, events, all, timestamp, commit_timestamp)
                 /\ \A m \in 0 .. Len(results) : g[m] = h[m]
                 /\ g[Len(results) + 1] =
                      Effect(kind, h[Len(results)], events[Len(results) + 1], all[Len(results) + 1])
      BY <3>1, <3>2, <3>3, <3>4, HistoryGrows
    <3>7. PICK g : /\ History(g, Kind, events, results', timestamp, commit_timestamp)
                   /\ \A m \in 0 .. k : g[m] = h[m]
                   /\ g[i] = cache'
      BY <3>5, <3>6 DEF all, kind
    <3>8. chain' # 0 => chain' = first /\ first - 1 \in 0 .. k /\ h[first - 1] = scope.db
      BY <1>2, <1>5, <1>14
    <3>9. g[persisted] = store
      BY <1>13, <1>15, <3>7
    <3> QED BY <3>7, <3>8, <3>9
  <2> QED BY <2>1, <2>2
<1>17. Remembered'
  <2>1. saved'.db = scope.db
    BY <1>6
  <2> QED BY <1>3, <1>4, <1>5, <1>16, <2>1 DEF Remembered
<1>18. Sound(cache') /\ Sound(scope.db)
  <2>1. PICK g : /\ History(g, Kind, events, results', timestamp, commit_timestamp)
                 /\ g[i] = cache'
    BY <1>16
  <2>2. i \in 0 .. Len(results')
    BY <1>2, <1>5
  <2>3. Sound(cache')
    BY <2>1, <2>2 DEF History
  <2> QED BY <1>1, <1>11, <2>3
<1>19. /\ scope.key_max \in Nat /\ (first # 0 => scope.key_max <= key_max)
       /\ first # 0 => Before(Groove(scope.db, Kind), scope.key_max)
  BY <1>1, <1>2, <1>11 DEF KeyMaxima, Creating
<1>20. created => r.timestamp \in 1 .. TimestampMax
  BY <1>9 DEF Legal
<1>21. key_max' \in Nat /\ (first # 0 => scope.key_max <= key_max')
  BY <1>2, <1>6, <1>10, <1>19, <1>20
<1>22. Before(Groove(cache', Kind), key_max')
  <2>0. Before(Groove(cache, Kind), key_max)
    BY <1>1 DEF KeyMaxima, Creating
  <2>1. CASE breaks
    <3>1. Before(Groove(scope.db, Kind), scope.key_max) /\ cache' = scope.db /\ scope.key_max <= key_max'
      BY <1>6, <1>10, <1>19, <1>21, <2>1
    <3>2. DbOK(scope.db) /\ scope.key_max \in Nat /\ key_max' \in Nat
      BY <1>18, <1>19, <1>21 DEF Sound
    <3> QED BY <3>1, <3>2, BeforeLater
  <2>2. CASE ~breaks /\ created
    <3>1. /\ Legal(Kind, cache, events, r, i, timestamp, commit_timestamp) /\ r.status = "Created"
          /\ cache' = Effect(Kind, cache, events[i], r)
      BY <1>6, <1>8, <1>9, <2>2 DEF e, r
    <3>2. r.timestamp <= key_max' /\ key_max <= key_max' /\ key_max' \in Nat
      BY <1>2, <1>6, <1>20, <1>21, <2>2
    <3>3. Before(Groove(cache, Kind), key_max')
      BY <1>1, <1>2, <2>0, <3>2, BeforeLater DEF Sound
    <3> DEFINE kind == Kind
               u == key_max'
               x == Effect(kind, cache, events[i], r)
    <3> HIDE DEF kind, u, i
    <3>4. Before(Groove(x, kind), u)
      <4>1. /\ Legal(kind, cache, events, r, i, timestamp, commit_timestamp) /\ r.status = "Created" /\ DbOK(cache)
            /\ u \in Nat /\ r.timestamp <= u /\ Before(Groove(cache, kind), u)
        BY <1>1, <3>1, <3>2, <3>3 DEF kind, u, Sound
      <4> QED BY <4>1, EffectComesLast
    <3>5. x = cache'
      BY <3>1 DEF kind
    <3> HIDE DEF x
    <3> QED BY <3>4, <3>5 DEF kind, u
  <2>3. CASE ~breaks /\ ~created
    BY <1>6, <2>0, <2>3
  <2> QED BY <2>1, <2>2, <2>3
<1>23. Spaced /\ events # <<>> /\ ~Imported(events[1]) => key_max' <= EventTimestamp(i)
  <2> SUFFICES ASSUME Spaced, events # <<>>, ~Imported(events[1])
               PROVE  key_max' <= EventTimestamp(i)
    OBVIOUS
  <2>1. key_max <= EventTimestamp(k)
    BY <1>1 DEF KeyMaxima, Creating
  <2>2. created => r.timestamp = EventTimestamp(i)
    BY <1>9
  <2>3. breaks => scope.key_max <= key_max
    BY <1>10, <1>19
  <2> QED BY <1>2, <1>6, <1>12, <1>19, <2>1, <2>2, <2>3
<1>24. KeyMaxima'
  <2>1. EventTimestamp(i) = timestamp' - Len(events') + Len(results')
    BY <1>3, <1>5 DEF EventTimestamp
  <2>2. chain' # 0 => first # 0
    BY <1>5
  <2>3. saved' = scope
    BY <1>6
  <2>4. Spaced' => Spaced
    BY <1>3 DEF Spaced
  <2> QED BY <1>3, <1>4, <1>19, <1>21, <1>22, <1>23, <2>1, <2>2, <2>3, <2>4 DEF KeyMaxima, EventTimestamp
<1>25. Types'
  <2>1. /\ op' \in Ops /\ timestamp' \in 0 .. TimestampMax /\ commit_timestamp' \in 0 .. TimestampMax
        /\ pulse_next_timestamp' \in 1 .. TimestampMax /\ ops' \in 0 .. MaxOps
        /\ orphaned' \subseteq Ids /\ due' \subseteq Ids /\ logged' \subseteq 1 .. TimestampMax
        /\ events' \in Seq(Events')
    BY <1>1, <1>3, <1>4 DEF Types
  <2>2. saved'.key_max \in Nat
    BY <1>6, <1>19
  <2>3. chain' \in 0 .. Len(results') /\ persisted' \in 0 .. Len(results')
    BY <1>2, <1>3, <1>5, <1>15
  <2> QED BY <1>5, <1>21, <2>1, <2>2, <2>3 DEF Types
<1>26. Ledgers' /\ Resting'
  BY <1>1, <1>3, <1>4, <1>6, <1>18 DEF Ledgers, Resting
<1>27. Clock' /\ Scheduled' /\ AssertionsHold'
  BY <1>1, <1>3, <1>4 DEF Clock, Scheduled, AssertionsHold
<1> QED BY <1>5, <1>17, <1>24, <1>25, <1>26, <1>27 DEF IInv


\* The status of an account: an existing one is found, a created one does not
\* precede its groove.
LEMMA AccountStatusIs ==
  ASSUME NEW c, NEW e, NEW ts, NEW kmax
  PROVE  LET s == AccountStatus(c, e, ts, kmax) IN
         /\ s \in Statuses \cup Assertions /\ s # "LinkedEventChainOpen"
         /\ s \in Assertions => s = "imported_after_event"
         /\ s = "Exists" => c.accounts[e.id] # None
         /\ s = "Created" =>
              c.accounts[e.id] = None /\ (Imported(e) => ~(e.timestamp <= kmax))
<1> DEFINE old == c.accounts[e.id]
           late == Regresses(e, kmax, c.transfers)
           ahead == IsAhead(e, ts)
           both == {"debits_must_not_exceed_credits", "credits_must_not_exceed_debits"} \subseteq e.flags
           same == e.flags = old.flags
           s == AccountStatus(c, e, ts, kmax)
<1>1. s = IF old # None THEN IF same THEN "Exists" ELSE "ExistsWithDifferentFlags"
          ELSE IF ahead THEN "imported_after_event"
          ELSE IF late THEN "ImportedEventTimestampMustNotRegress"
          ELSE IF both THEN "FlagsAreMutuallyExclusive" ELSE "Created"
  BY DEF AccountStatus
<1>2. ~late => (Imported(e) => ~(e.timestamp <= kmax))
  BY DEF Regresses
<1> HIDE DEF old, late, ahead, both, same, s
<1>3. /\ s \in Statuses \cup Assertions /\ s # "LinkedEventChainOpen"
      /\ s \in Assertions => s = "imported_after_event"
      /\ s = "Exists" => old # None
      /\ s = "Created" => old = None /\ ~late
  BY <1>1 DEF Statuses, Assertions
<1> QED BY <1>2, <1>3 DEF s, old

\* What the checks of execute_create_transfers may answer, whatever the caches hold:
\* the status is a known one, Exists is said of a stored transfer only, and a created
\* imported event is later than its groove.
LEMMA TransferStatusIs ==
  ASSUME NEW c, NEW e, NEW ts, NEW kmax, NEW failed
  PROVE  LET s == StatusOf(c, e, ts, kmax, failed) IN
         /\ s \in Statuses \cup Assertions /\ s # "LinkedEventChainOpen"
         /\ s = "Exists" => c.transfers[e.id] # None
         /\ s = "Created" => (Imported(e) => ~(e.timestamp <= kmax))
         /\ s = "account_after_transfer" =>
              /\ ~(IsPost(e) \/ IsVoid(e))
              /\ c.accounts[e.dr] # None /\ c.accounts[e.cr] # None
              /\ ts <= c.accounts[e.dr].timestamp \/ ts <= c.accounts[e.cr].timestamp
<1> DEFINE Fine(s) ==
             /\ s \in Statuses \cup Assertions /\ s # "LinkedEventChainOpen"
             /\ s = "Exists" => c.transfers[e.id] # None
             /\ s = "Created" => (Imported(e) => ~(e.timestamp <= kmax))
             /\ s = "account_after_transfer" =>
                  /\ c.accounts[e.dr] # None /\ c.accounts[e.cr] # None
                  /\ ts <= c.accounts[e.dr].timestamp \/ ts <= c.accounts[e.cr].timestamp
<1>0. \A x, y : ClosedStatus(x, y) \in {"DebitAccountAlreadyClosed", "CreditAccountAlreadyClosed", "Created"}
  BY DEF ClosedStatus
<1>1. Regresses(e, kmax, c.accounts) \/ (Imported(e) => ~(e.timestamp <= kmax))
  BY DEF Regresses
<1>2. Fine(TransferStatus(c, e, ts, kmax))
  <2> DEFINE dr == c.accounts[e.dr]
             cr == c.accounts[e.cr]
             old == c.transfers[e.id]
             amount == AmountActual(e, dr, cr)
             found  == TransferExists(e, old)
             ahead  == IsAhead(e, ts)
             late   == Regresses(e, kmax, c.accounts)
             same   == e.dr = e.cr
             reserved == ~IsPending(e) /\ (e.timeout # 0 \/ e.flags \cap {"closing_debit", "closing_credit"} # {})
             early  == Imported(e) /\ (\/ e.timestamp <= dr.timestamp \/ e.timestamp <= cr.timestamp
                                       \/ e.timeout # 0)
             later  == ~Imported(e) /\ (ts <= dr.timestamp \/ ts <= cr.timestamp)
             closed == ClosedStatus(dr, cr)
             expiry == OverflowsTimeout(e, TimestampOf(e, ts))
             over   == Overflows(e, dr, cr, amount)
             debit  == DebitsExceedCredits(dr, amount)
             credit == CreditsExceedDebits(cr, amount)
             s == TransferStatus(c, e, ts, kmax)
  <2>1. s = IF dr = None THEN "DebitAccountNotFound"
            ELSE IF cr = None THEN "CreditAccountNotFound"
            ELSE IF old # None THEN found
            ELSE IF ahead THEN "imported_after_event"
            ELSE IF late THEN "ImportedEventTimestampMustNotRegress"
            ELSE IF same THEN "AccountsMustBeDifferent"
            ELSE IF reserved THEN "ReservedForPendingTransfer"
            ELSE IF early THEN "ImportedEventTimestampMustPostdateAccounts"
            ELSE IF later THEN "account_after_transfer"
            ELSE IF closed # "Created" THEN closed
            ELSE IF over THEN "Overflows"
            ELSE IF expiry THEN "OverflowsTimeout"
            ELSE IF debit THEN "ExceedsCredits"
            ELSE IF credit THEN "ExceedsDebits"
            ELSE "Created"
    BY DEF TransferStatus
  <2>2. found \in {"Exists", "ExistsWithDifferent"}
    BY DEF TransferExists
  <2>3. closed \in {"DebitAccountAlreadyClosed", "CreditAccountAlreadyClosed", "Created"}
    BY <1>0
  <2>4. ~late => (Imported(e) => ~(e.timestamp <= kmax))
    BY <1>1
  <2> HIDE DEF dr, cr, old, amount, found, ahead, late, same, reserved, early, later, closed, over, expiry, debit, credit, s
  <2>5. /\ s \in Statuses \cup Assertions /\ s # "LinkedEventChainOpen"
        /\ s = "Exists" => old # None
        /\ s = "Created" => ~late
        /\ s = "account_after_transfer" => later /\ dr # None /\ cr # None
    BY <2>1, <2>2, <2>3 DEF Statuses, Assertions, Transient
  <2> QED BY <2>4, <2>5 DEF s, old, later, dr, cr
<1>3. Fine(PostOrVoidStatus(c, e, ts, kmax)) /\ PostOrVoidStatus(c, e, ts, kmax) # "account_after_transfer"
  <2> DEFINE p == c.transfers[e.pending_id]
             old == c.transfers[e.id]
             amount == AmountResolved(e, p)
             found  == PostOrVoidExists(e, old, p)
             ahead  == IsAhead(e, ts)
             late   == Regresses(e, kmax, c.accounts)
             closed == ClosedStatus(c.accounts[p.dr], c.accounts[p.cr])
             regular == old.pending_id = None
             pending == IsPending(p)
             both   == \/ IsPost(e) /\ IsVoid(e)
                       \/ e.flags \cap {"pending", "balancing_debit", "balancing_credit",
                                        "closing_debit", "closing_credit"} # {}
             timed  == e.timeout # 0
             other  == e.dr \notin {None, p.dr} \/ e.cr \notin {None, p.cr}
             more   == amount > p.amount
             less   == IsVoid(e) /\ amount < p.amount
             resolved == c.pending[e.pending_id] # "Pending"
             expired == p.timeout # 0 /\ ExpiresAt(p) <= ts
             s == PostOrVoidStatus(c, e, ts, kmax)
  <2>1. s = IF old # None THEN IF regular THEN "ExistsWithDifferentFlags" ELSE found
            ELSE IF p = None THEN "PendingTransferNotFound"
            ELSE IF ~pending THEN "PendingTransferNotPending"
            ELSE IF both THEN "FlagsAreMutuallyExclusive"
            ELSE IF timed THEN "TimeoutReservedForPendingTransfer"
            ELSE IF other THEN "PendingTransferHasDifferentAccount"
            ELSE IF more THEN "ExceedsPendingTransferAmount"
            ELSE IF less THEN "PendingTransferHasDifferentAmount"
            ELSE IF resolved THEN "PendingTransferAlreadyResolved"
            ELSE IF expired THEN "PendingTransferExpired"
            ELSE IF ahead THEN "imported_after_event"
            ELSE IF late THEN "ImportedEventTimestampMustNotRegress"
            ELSE IF IsPost(e) THEN closed
            ELSE "Created"
    BY DEF PostOrVoidStatus
  <2>2. found \in {"Exists", "ExistsWithDifferent", "resolved_before_hold"}
    BY DEF PostOrVoidExists
  <2>3. closed \in {"DebitAccountAlreadyClosed", "CreditAccountAlreadyClosed", "Created"}
    BY <1>0
  <2>4. ~late => (Imported(e) => ~(e.timestamp <= kmax))
    BY <1>1
  <2> HIDE DEF p, old, amount, found, ahead, late, closed, regular, pending, both, timed, other, more, less,
               resolved, expired, s
  <2>5. /\ s \in Statuses \cup Assertions /\ s # "LinkedEventChainOpen"
        /\ s = "Exists" => old # None
        /\ s = "Created" => ~late
        /\ s # "account_after_transfer"
    BY <2>1, <2>2, <2>3 DEF Statuses, Assertions, Transient
  <2> QED BY <2>4, <2>5 DEF s, old
<1>4. Fine("IdAlreadyFailed")
  BY DEF Statuses
<1> HIDE DEF Fine
<1>5. Fine(StatusOf(c, e, ts, kmax, failed))
  BY <1>2, <1>3, <1>4 DEF StatusOf
<1>6. IsPost(e) \/ IsVoid(e) => StatusOf(c, e, ts, kmax, failed) # "account_after_transfer"
  BY <1>3 DEF StatusOf
<1> QED BY <1>5, <1>6 DEF Fine


\* A row that is found has a timestamp.
LEMMA FoundRow ==
  ASSUME NEW db, DbOK(db), NEW kind, NEW i \in DOMAIN Groove(db, kind),
         Groove(db, kind)[i] # None
  PROVE  Groove(db, kind)[i].timestamp \in Int
<1>1. i \in Stored(Groove(db, kind))
  BY DEF Stored
<1>2. Groove(db, kind)[i].timestamp \in 1 .. TimestampMax
  BY <1>1, GrooveTimestamps
<1> QED BY <1>2

\* The next event of an account batch.
LEMMA ExecuteAccountKeepsInvariant ==
  ASSUME IInv, ExecuteAccount
  PROVE  IInv'
<1> DEFINE i == Len(results) + 1
           e == events[i]
           ts == TimestampOf(e, EventTimestamp(i))
           status == AccountStatus(cache, e, EventTimestamp(i), key_max)
           old == cache.accounts[e.id]
           after == [cache EXCEPT !.accounts[e.id] = NewAccount(e, ts)]
           amount == 0
           r == [status |-> "Created", amount |-> amount, timestamp |-> ts]
           final == Verdict(e, i, status)
           failure == LoopPanic(final, TRUE)
<1>1. /\ op = "create_accounts" /\ Len(results) < Len(events)
      /\ panic = "none"
      /\ \/ failure # "none" /\ Stop(failure)
         \/ /\ failure = "none" /\ Execute(status, amount, old, after) /\ panic' = panic
            /\ UNCHANGED <<store, orphaned, logged, clock, events, persisted, due, op, timestamp, ops>>
  BY DEF ExecuteAccount, Looping
<1>2. Creating /\ Kind = "accounts" /\ Types /\ Sound(cache)
  BY <1>1 DEF Creating, Kind, IInv, Ledgers
<1>3. e \in AccountEvents /\ e.id \in Accounts /\ e.timestamp \in Nat
  <2>1. i \in 1 .. Len(events)
    BY <1>1, <1>2 DEF Types
  <2>2. e \in Events
    BY <1>2, <2>1 DEF Types
  <2> HIDE DEF e
  <2> QED BY <1>2, <2>2 DEF Events, AccountEvents
<1>4. /\ status \in Statuses \cup Assertions /\ status # "LinkedEventChainOpen"
      /\ status \in Assertions => status = "imported_after_event"
      /\ status = "Exists" => old # None
      /\ status = "Created" => old = None /\ (Imported(e) => ~(e.timestamp <= key_max))
  BY AccountStatusIs
<1>5. status = "Exists" => old.timestamp \in Int
  <2>1. Groove(cache, Kind) = cache.accounts /\ DOMAIN cache.accounts = Accounts
    BY <1>2 DEF Groove, Sound, DbOK, Databases
  <2> HIDE DEF status, e
  <2> QED BY <1>2, <1>3, <1>4, <2>1, FoundRow DEF Sound
<1>6. after = Effect(Kind, cache, e, r)
  BY <1>2 DEF Effect, Opened
<1>7. key_max \in Nat /\ amount \in 0 .. AmountMax
  BY <1>2, ConstantsAssumption DEF Types
<1>9. /\ failure = IF timestamp < Len(events) THEN "timestamp_underflow"
                   ELSE IF final \in Assertions THEN final ELSE "none"
      /\ final \in Assertions => final = status
  BY DEF LoopPanic, Verdict, Assertions
<1> HIDE DEF e, status, old, after, amount, i, ts, final, failure
<1>8. status = "Created" =>
        /\ amount \in 0 .. AmountMax /\ after = Effect(Kind, cache, e, r)
        /\ Imported(e) => e.timestamp > key_max
        /\ Kind = "accounts" => cache.accounts[e.id] = None
        /\ Kind # "accounts" => /\ Shaped(cache, e)
                                /\ SeparateHolds(cache) => Applicable(cache, e, amount)
  <2>1. Imported(e) /\ ~(e.timestamp <= key_max) => e.timestamp > key_max
    BY <1>3, <1>7
  <2>2. status = "Created" => cache.accounts[e.id] = None
    BY <1>4 DEF old
  <2> QED BY <1>2, <1>4, <1>6, <1>7, <2>1, <2>2
<1>10. CASE failure # "none" /\ Stop(failure)
  <2>1. timestamp < Len(events) => ~Spaced
    BY <1>2, ConstantsAssumption DEF Spaced, Creating, Types
  <2>2. Expected(failure)
    BY <1>4, <1>9, <1>10, <2>1 DEF Expected
  <2> QED BY <1>10, <2>2, StopKeepsInvariant
<1>11. CASE /\ failure = "none" /\ Execute(status, amount, old, after) /\ panic' = panic
            /\ UNCHANGED <<store, orphaned, logged, clock, events, persisted, due, op, timestamp, ops>>
  <2>1. Len(events) <= timestamp /\ final \notin Assertions
    BY <1>2, <1>9, <1>11, ConstantsAssumption DEF Assertions, Types
  <2> QED BY <1>1, <1>2, <1>4, <1>5, <1>8, <1>11, <2>1, ExecuteKeepsInvariant DEF e, i, ts, final
<1> QED BY <1>1, <1>10, <1>11

\* The next event of a batch of transfers: what it was checked for is what the
\* assertions of its application ask.
LEMMA ExecuteTransferKeepsInvariant ==
  ASSUME IInv, ExecuteTransfer
  PROVE  IInv'
<1> DEFINE i == Len(results) + 1
           e == events[i]
           ts == TimestampOf(e, EventTimestamp(i))
           failed == orphaned \cup WorkingOrphaned
           status == StatusOf(cache, e, EventTimestamp(i), key_max, failed)
           old == cache.transfers[e.id]
           amount == AmountOf(cache, e)
           after == ApplyTransfer(cache, e, ts, amount)
           r == [status |-> "Created", amount |-> amount, timestamp |-> ts]
           final == Verdict(e, i, status)
           clean == AppliesCleanly(cache, e, amount)
           failure == LoopPanic(final, clean)
           goes == /\ failure = "none" /\ Execute(status, amount, old, after) /\ panic' = panic
                   /\ UNCHANGED <<store, orphaned, logged, clock, events, persisted, due, op, timestamp, ops>>
<1>1. /\ op = "create_transfers" /\ Len(results) < Len(events)
      /\ panic = "none"
      /\ (failure # "none" /\ Stop(failure)) \/ goes
  BY DEF ExecuteTransfer, Looping
<1>2. Creating /\ Kind = "transfers" /\ Types /\ Sound(cache)
  BY <1>1 DEF Creating, Kind, IInv, Ledgers
<1>3. e \in TransferEvents /\ e.id \in Ids /\ e.timestamp \in Nat
  <2>1. i \in 1 .. Len(events)
    BY <1>1, <1>2 DEF Types
  <2>2. e \in Events
    BY <1>2, <2>1 DEF Types
  <2> HIDE DEF e
  <2> QED BY <1>2, <2>2 DEF Events, TransferEvents
<1>4. /\ status \in Statuses \cup Assertions /\ status # "LinkedEventChainOpen"
      /\ status = "Exists" => old # None
      /\ status = "Created" => (Imported(e) => ~(e.timestamp <= key_max))
      /\ status = "account_after_transfer" =>
           /\ ~(IsPost(e) \/ IsVoid(e))
           /\ cache.accounts[e.dr] # None /\ cache.accounts[e.cr] # None
           /\ \/ EventTimestamp(i) <= cache.accounts[e.dr].timestamp
              \/ EventTimestamp(i) <= cache.accounts[e.cr].timestamp
  BY TransferStatusIs
<1>5. status = "Exists" => old.timestamp \in Int
  <2>1. Groove(cache, Kind) = cache.transfers /\ DOMAIN cache.transfers = Ids
    BY <1>2 DEF Groove, Sound, DbOK, Databases
  <2> HIDE DEF status, e
  <2> QED BY <1>2, <1>3, <1>4, <2>1, FoundRow DEF Sound
<1>6. after = Effect(Kind, cache, e, r)
  BY <1>2 DEF Effect
<1>7. /\ failure = IF timestamp < Len(events) THEN "timestamp_underflow"
                   ELSE IF final \in Assertions THEN final
                   ELSE IF final = "Created" /\ ~clean THEN "post_or_void"
                   ELSE "none"
      /\ final \in Assertions => final = status
      /\ final = "Created" => status = "Created"
  BY DEF LoopPanic, Verdict, Assertions
<1>8. status = "Created" =>
        /\ amount \in 0 .. AmountMax /\ Shaped(cache, e)
        /\ SeparateHolds(cache) => Applicable(cache, e, amount) /\ clean
  <2> SUFFICES ASSUME status = "Created"
               PROVE  /\ amount \in 0 .. AmountMax /\ Shaped(cache, e)
                      /\ SeparateHolds(cache) => Applicable(cache, e, amount) /\ clean
    OBVIOUS
  <2>1. amount \in 0 .. AmountMax /\ Shaped(cache, e)
    BY <1>2, <1>3, CreatedIsShaped DEF Sound
  <2>2. ASSUME SeparateHolds(cache)
        PROVE  Applicable(cache, e, amount) /\ clean
    <3>1. Ledger(cache)
      BY <1>2, <2>2 DEF Sound
    <3>2. Applicable(cache, e, amount)
      BY <1>3, <3>1, CreatedIsApplicable
    <3> QED BY <1>3, <2>1, <3>1, <3>2, ApplicableAppliesCleanly
  <2> QED BY <2>1, <2>2
<1>9. key_max \in Nat /\ timestamp \in Nat /\ Len(events) \in Nat /\ commit_timestamp \in Nat
  BY <1>2, ConstantsAssumption DEF Types
<1>10. ASSUME Spaced, status = "account_after_transfer"
       PROVE  FALSE
  <2>1. PICK h : /\ History(h, Kind, events, results, timestamp, commit_timestamp)
                 /\ h[Len(results)] = cache
    BY <1>2 DEF IInv, Remembered, Creating, Executing
  <2>2. Before(cache.accounts, commit_timestamp)
    <3>1. Len(results) \in 0 .. Len(results)
      BY <1>2 DEF Types
    <3> QED BY <1>2, <2>1, <3>1 DEF History
  <2>3. /\ {e.dr, e.cr} \subseteq Accounts
        /\ cache.accounts[e.dr] # None /\ cache.accounts[e.cr] # None
    BY <1>3, <1>4, <1>10 DEF TransferEvents, IsPost, IsVoid
  <2>4. cache.accounts \in [Accounts -> AccountRows \cup {None}]
    BY <1>2 DEF Sound, DbOK, Databases
  <2>5. e.dr \in Stored(cache.accounts) /\ e.cr \in Stored(cache.accounts)
    BY <2>3, <2>4 DEF Stored
  <2>6. \A x \in Stored(cache.accounts) :
          cache.accounts[x].timestamp \in Nat /\ cache.accounts[x].timestamp <= commit_timestamp
    BY <2>2, <2>4 DEF Before, Stored, AccountRows
  <2>7. /\ EventTimestamp(i) \in Int /\ commit_timestamp < EventTimestamp(i)
    <3>1. commit_timestamp + Len(events) <= timestamp
      BY <1>1, <1>10 DEF Spaced
    <3>2. i \in Nat /\ i >= 1 /\ EventTimestamp(i) = timestamp - Len(events) + i
      BY <1>2 DEF EventTimestamp, Types
    <3> HIDE DEF i
    <3> QED BY <1>9, <3>1, <3>2
  <2> HIDE DEF e, i, status
  <2> QED BY <1>4, <1>9, <1>10, <2>5, <2>6, <2>7
<1> HIDE DEF e, status, old, after, amount, i, ts, final, clean, failure
<1>11. status = "Created" =>
        /\ amount \in 0 .. AmountMax /\ after = Effect(Kind, cache, e, r)
        /\ Imported(e) => e.timestamp > key_max
        /\ Kind = "accounts" => cache.accounts[e.id] = None
        /\ Kind # "accounts" => /\ Shaped(cache, e)
                                /\ SeparateHolds(cache) => Applicable(cache, e, amount)
  <2>1. Imported(e) /\ ~(e.timestamp <= key_max) => e.timestamp > key_max
    BY <1>3, <1>9
  <2> QED BY <1>2, <1>4, <1>6, <1>8, <2>1
<1>12. CASE failure # "none" /\ Stop(failure)
  <2>1. timestamp < Len(events) => ~Spaced
    BY <1>2, <1>9 DEF Spaced, Creating
  <2>2. Expected(failure)
    <3>1. CASE failure = "timestamp_underflow"
      BY <1>7, <1>12, <2>1, <3>1 DEF Expected, Assertions
    <3>2. CASE failure \in Assertions
      BY <1>7, <1>10, <3>2 DEF Expected, Assertions
    <3>3. CASE failure = "post_or_void"
      BY <1>7, <1>8, <3>3 DEF Expected, Assertions
    <3> QED BY <1>7, <1>12, <3>1, <3>2, <3>3
  <2> QED BY <1>12, <2>2, StopKeepsInvariant
<1>13. CASE goes
  <2>1. Len(events) <= timestamp /\ final \notin Assertions
    BY <1>7, <1>9, <1>13 DEF Assertions
  <2> QED BY <1>1, <1>2, <1>4, <1>5, <1>11, <1>13, <2>1, ExecuteKeepsInvariant DEF e, i, ts, final
<1> QED BY <1>1, <1>12, <1>13

\* Persisting begins with the stores and the caches as the execution left them.
LEMMA PersistKeepsInvariant ==
  ASSUME IInv, Persist
  PROVE  IInv'
<1>1. /\ op \in {"create_accounts", "create_transfers"} /\ Len(results) = Len(events)
      /\ op' = (IF op = "create_accounts" THEN "persist_accounts" ELSE "persist_transfers")
      /\ orphaned' = (IF op = "create_accounts" THEN orphaned ELSE orphaned \cup WorkingOrphaned)
      /\ store' = store /\ cache' = cache /\ saved' = saved /\ logged' = logged
      /\ commit_timestamp' = commit_timestamp /\ pulse_next_timestamp' = pulse_next_timestamp
      /\ events' = events /\ results' = results /\ chain' = chain /\ chain_broken' = chain_broken
      /\ key_max' = key_max /\ persisted' = persisted /\ due' = due
      /\ timestamp' = timestamp /\ panic = "none" /\ panic' = "none" /\ ops' = ops
  BY DEF Persist, clock, loop
<1>2. /\ Executing /\ Creating /\ Executing' /\ Persisted' /\ ~Creating'
      /\ op \notin {"idle", "expire"} /\ op' \notin {"idle", "expire"}
      /\ Kind' = Kind /\ Events' = Events /\ op' \in Ops
      /\ op = "create_transfers" => Kind = "transfers"
  BY <1>1 DEF Executing, Creating, Persisted, Kind, Events, Ops
<1>3. Types /\ Ledgers /\ Clock /\ Loop /\ Atomic /\ Scheduled /\ Remembered /\ AssertionsHold
  BY DEF IInv
<1>4. orphaned' \subseteq Ids
  <2>1. CASE op = "create_accounts"
    BY <1>1, <1>3, <2>1 DEF Types
  <2>2. CASE op = "create_transfers"
    <3>1. \A n \in DOMAIN results : events[n].id \in Ids
      <4>1. \A n \in DOMAIN results : n \in 1 .. Len(events)
        BY <1>1, <1>3 DEF Types
      <4>2. \A n \in 1 .. Len(events) : events[n] \in TransferEvents
        BY <1>2, <1>3, <2>2 DEF Types, Events
      <4> QED BY <4>1, <4>2 DEF TransferEvents
    <3>2. WorkingOrphaned \subseteq Ids
      BY <3>1 DEF WorkingOrphaned
    <3> QED BY <1>1, <1>3, <2>2, <3>2 DEF Types
  <2> QED BY <1>1, <2>1, <2>2
<1>5. Types'
  BY <1>1, <1>2, <1>3, <1>4 DEF Types
<1>6. Ledgers' /\ Resting' /\ KeyMaxima'
  BY <1>1, <1>2, <1>3 DEF Ledgers, Resting, KeyMaxima
<1>7. Clock' /\ Scheduled' /\ AssertionsHold'
  BY <1>1, <1>2, <1>3 DEF Clock, Scheduled, AssertionsHold
<1>8. Loop' /\ Atomic'
  BY <1>1, <1>2, <1>3 DEF Loop, Atomic, Created
<1>9. Remembered'
  BY <1>1, <1>2, <1>3 DEF Remembered
<1> QED BY <1>5, <1>6, <1>7, <1>8, <1>9 DEF IInv


\* The walk over the results finds the next event as execution left it, and the
\* event is legal on what the walk has stored so far.
LEMMA WalkFollowsHistory ==
  ASSUME IInv, Persisted, persisted < Len(events)
  PROVE  LET i == persisted + 1 IN
         /\ i \in 1 .. Len(events) /\ Len(results) = Len(events)
         /\ results[i] \in ResultRows /\ events[i] \in Events
         /\ Intact(i) <=> results[i].status = "Created"
         /\ results[i].status = "Created" =>
              Legal(Kind, store, events, results[i], i, timestamp, commit_timestamp)
         /\ \E h : /\ History(h, Kind, events, results, timestamp, commit_timestamp)
                   /\ h[i] = Effect(Kind, store, events[i], results[i])
                   /\ h[Len(results)] = cache
<1> DEFINE i == persisted + 1
<1>1. Types /\ Loop /\ Atomic /\ Remembered /\ Executing
  BY DEF IInv, Persisted, Executing
<1>2. /\ Len(results) = Len(events) /\ Len(events) \in Nat /\ i \in 1 .. Len(events)
      /\ persisted = i - 1 /\ results # <<>>
      /\ results \in Seq(ResultRows) /\ events \in Seq(Events)
  BY <1>1 DEF Types, Loop
<1>3. Intact(i) <=> Created(i)
  BY <1>1, <1>2, IntactIsCreated
<1>4. PICK h : /\ History(h, Kind, events, results, timestamp, commit_timestamp)
               /\ h[persisted] = store /\ h[Len(results)] = cache
  BY <1>1 DEF Remembered
<1> HIDE DEF i
<1>5. /\ h[i] = Effect(Kind, h[i - 1], events[i], results[i])
      /\ results[i].status = "Created" =>
           Legal(Kind, h[i - 1], events, results[i], i, timestamp, commit_timestamp)
  BY <1>2, <1>4 DEF History
<1>6. results[i] \in ResultRows /\ events[i] \in Events
  BY <1>2
<1>7. h[i] = Effect(Kind, store, events[i], results[i])
  BY <1>2, <1>4, <1>5
<1>8. \E g : /\ History(g, Kind, events, results, timestamp, commit_timestamp)
             /\ g[i] = Effect(Kind, store, events[i], results[i])
             /\ g[Len(results)] = cache
  BY <1>4, <1>7
<1>9. results[i].status = "Created" => Legal(Kind, store, events, results[i], i, timestamp, commit_timestamp)
  BY <1>2, <1>4, <1>5
<1>10. Intact(i) <=> results[i].status = "Created"
  BY <1>3 DEF Created
<1> QED BY <1>2, <1>6, <1>8, <1>9, <1>10 DEF i

\* A step of the walk that stores what execution decided keeps the invariant.
LEMMA WalkKeepsInvariant ==
  ASSUME IInv, Persisted, persisted < Len(events),
         store' = Effect(Kind, store, events[persisted + 1], results[persisted + 1]),
         persisted' = persisted + 1,
         logged' \subseteq 1 .. TimestampMax, pulse_next_timestamp' \in 1 .. TimestampMax,
         \A i \in Expiring(store') : pulse_next_timestamp' <= ExpiresAt(store'.transfers[i]),
         Distinct(store'), panic' = "none",
         UNCHANGED <<cache, saved, orphaned, commit_timestamp, events, results, chain, chain_broken,
                     key_max, due, op, timestamp, ops>>
  PROVE  IInv'
<1> DEFINE i == persisted + 1
<1>1. Types /\ Ledgers /\ Clock /\ Loop /\ Atomic
  BY DEF IInv
<1>2. /\ i \in 1 .. Len(events) /\ Len(results) = Len(events)
      /\ \E h : /\ History(h, Kind, events, results, timestamp, commit_timestamp)
                /\ h[i] = Effect(Kind, store, events[i], results[i])
                /\ h[Len(results)] = cache
  BY WalkFollowsHistory
<1>3. /\ persisted' = i /\ store' = Effect(Kind, store, events[i], results[i])
  OBVIOUS
<1> HIDE DEF i
<1>4. PICK h : /\ History(h, Kind, events, results, timestamp, commit_timestamp)
               /\ h[i] = store' /\ h[Len(results)] = cache
  BY <1>2, <1>3
<1>5. /\ Executing /\ ~Creating /\ op \notin {"idle", "expire"}
      /\ Executing' = Executing /\ Creating' = Creating /\ Persisted' = Persisted
      /\ Kind' = Kind /\ Events' = Events /\ op' = op
  BY DEF Executing, Creating, Persisted, Kind, Events
<1>6. Len(events) \in Nat /\ i \in 0 .. Len(results) /\ chain = 0
  BY <1>1, <1>2 DEF Types, Loop
<1>7. Ledger(store')
  <2>1. Sound(store')
    BY <1>4, <1>6 DEF History
  <2>2. SeparateHolds(store')
    BY DEF Distinct, SeparateHolds
  <2> QED BY <2>1, <2>2 DEF Sound
<1>8. Types'
  <2>1. persisted' \in 0 .. Len(results')
    BY <1>3, <1>6
  <2> QED BY <1>1, <1>5, <2>1 DEF Types
<1>9. Ledgers' /\ Resting' /\ KeyMaxima'
  BY <1>1, <1>5, <1>7 DEF Ledgers, Resting, KeyMaxima
<1>10. Clock' /\ Scheduled' /\ AssertionsHold'
  BY <1>1, <1>5 DEF Clock, Scheduled, AssertionsHold
<1>11. Loop' /\ Atomic'
  BY <1>1, <1>5 DEF Loop, Atomic, Created
<1>12. Remembered'
  <2>1. /\ History(h, Kind', events', results', timestamp', commit_timestamp')
        /\ h[persisted'] = store' /\ h[Len(results')] = cache' /\ chain' = 0
    BY <1>3, <1>4, <1>5, <1>6
  <2> QED BY <2>1 DEF Remembered
<1> QED BY <1>8, <1>9, <1>10, <1>11, <1>12 DEF IInv

\* An account is stored with the timestamp that execution gave it.
LEMMA PersistAccountKeepsInvariant ==
  ASSUME IInv, PersistAccount
  PROVE  IInv' /\ store'.transfers = store.transfers
<1> DEFINE i == persisted + 1
           e == events[i]
           r == results[i]
           ts == r.timestamp
           failure == IF Intact(i) THEN AccountPanic(e, ts) ELSE "none"
<1>1. /\ op = "persist_accounts" /\ persisted < Len(events) /\ panic = "none"
      /\ \/ failure # "none" /\ Stop(failure)
         \/ /\ failure = "none"
            /\ store' = (IF Intact(i) THEN [store EXCEPT !.accounts[e.id] = NewAccount(e, ts)] ELSE store)
            /\ persisted' = i
            /\ UNCHANGED <<cache, saved, orphaned, logged, clock, events, results, chain, chain_broken,
                           key_max, due, op, timestamp, panic, ops>>
  BY DEF PersistAccount, Persisting
<1>2. Persisted /\ Kind = "accounts" /\ op # "expire"
  BY <1>1 DEF Persisted, Kind
<1>3. Types /\ Ledger(store) /\ DbOK(store) /\ Distinct(store) /\ Scheduled
  BY DEF IInv, Ledgers, Ledger
<1>4. /\ Intact(i) <=> r.status = "Created"
      /\ r.status = "Created" => Legal(Kind, store, events, r, i, timestamp, commit_timestamp)
  BY <1>1, <1>2, WalkFollowsHistory
<1>5. failure = (IF Intact(i) /\ Shares(store.accounts, e.id, ts) THEN "two_accounts_share" ELSE "none")
  BY DEF AccountPanic
<1> HIDE DEF failure
<1>6. CASE failure # "none" /\ Stop(failure)
  <2>1. Shares(store.accounts, e.id, ts) /\ r.status = "Created" /\ failure = "two_accounts_share"
    BY <1>4, <1>5, <1>6
  <2>2. PICK j \in Stored(store.accounts) : store.accounts[j].timestamp = ts
    BY <2>1 DEF Shares
  <2>3. ~Spaced
    <3> SUFFICES ASSUME Spaced PROVE FALSE
      OBVIOUS
    <3>1. commit_timestamp + Len(events) <= timestamp
      BY <1>2 DEF Spaced
    <3> HIDE DEF r, ts, i
    <3>2. /\ r.timestamp \in 1 .. TimestampMax
          /\ \A x \in Stored(store.accounts) : store.accounts[x].timestamp < r.timestamp
      BY <1>2, <1>4, <2>1, <3>1 DEF Legal, Groove
    <3>3. r.timestamp < r.timestamp /\ r.timestamp \in Nat
      BY <2>2, <3>2 DEF ts
    <3> QED BY <3>3
  <2>4. Expected(failure)
    BY <2>1, <2>3 DEF Expected
  <2>5. IInv' /\ UNCHANGED <<stores, clock, loop, op, timestamp, ops>>
    BY <1>6, <2>4, StopKeepsInvariant
  <2> QED BY <2>5 DEF stores
<1>7. CASE /\ failure = "none"
           /\ store' = (IF Intact(i) THEN [store EXCEPT !.accounts[e.id] = NewAccount(e, ts)] ELSE store)
           /\ persisted' = i
           /\ UNCHANGED <<cache, saved, orphaned, logged, clock, events, results, chain, chain_broken,
                          key_max, due, op, timestamp, panic, ops>>
  <2>1. store' = Effect(Kind, store, e, r)
    BY <1>2, <1>4, <1>7 DEF Effect, Opened
  <2> HIDE DEF e, r, ts, i
  <2>2. store'.transfers = store.transfers /\ store'.pending = store.pending
    <3>1. CASE r.status = "Created"
      <4>1. /\ e \in AccountEvents /\ store.accounts[e.id] = None /\ r.timestamp \in 1 .. TimestampMax
        BY <1>2, <1>4, <3>1 DEF Legal, e
      <4>2. store' = Opened(store, e, r.timestamp)
        BY <1>2, <2>1, <3>1 DEF Effect
      <4> QED BY <1>3, <4>1, <4>2, OpenKeepsShape
    <3>2. CASE r.status # "Created"
      BY <2>1, <3>2 DEF Effect
    <3> QED BY <3>1, <3>2
  <2>3. \A j \in Expiring(store') : pulse_next_timestamp' <= ExpiresAt(store'.transfers[j])
    <3>1. Expiring(store') = Expiring(store) /\ pulse_next_timestamp' = pulse_next_timestamp
      BY <1>7, <2>2 DEF Expiring, clock
    <3> QED BY <1>2, <1>3, <2>2, <3>1 DEF Scheduled
  <2>4. Distinct(store')
    BY <1>3, <2>2 DEF Distinct
  <2>5. logged' \subseteq 1 .. TimestampMax /\ pulse_next_timestamp' \in 1 .. TimestampMax
    BY <1>3, <1>7 DEF Types, clock
  <2>6. /\ panic' = "none"
        /\ UNCHANGED <<cache, saved, orphaned, commit_timestamp, events, results, chain, chain_broken,
                       key_max, due, op, timestamp, ops>>
    BY <1>1, <1>7 DEF clock
  <2>7. IInv'
    BY <1>1, <1>2, <1>7, <2>1, <2>3, <2>4, <2>5, <2>6, WalkKeepsInvariant DEF e, r, i
  <2> QED BY <2>2, <2>7
<1> QED BY <1>1, <1>6, <1>7


\* A new transfer adds at most its own expiry to those there are.
LEMMA ExpiriesAfterCreate ==
  ASSUME NEW db, Ledger(db), NEW e \in TransferEvents, NEW ts, NEW n,
         IsPending(e) => HoldsAt(db, ts) = {},
         NEW j \in Expiring(CreateTransfer(db, e, ts, n))
  PROVE  LET d == CreateTransfer(db, e, ts, n) IN
         \/ j \in Expiring(db) /\ d.transfers[j] = db.transfers[j]
         \/ e.timeout # 0 /\ ExpiresAt(d.transfers[j]) = ts + e.timeout * Second
<1> DEFINE d == CreateTransfer(db, e, ts, n)
           row == [dr |-> e.dr, cr |-> e.cr, amount |-> n, flags |-> e.flags,
                   pending_id |-> None, timeout |-> e.timeout, timestamp |-> ts]
<1>1. /\ d.transfers = [db.transfers EXCEPT ![e.id] = row]
      /\ d.pending = WithRow(db, e.id, ts, PendingRow(e))
  BY DEF CreateTransfer
<1>2. /\ DOMAIN db.transfers = Ids /\ DOMAIN db.pending = Ids /\ e.id \in Ids
      /\ WithRow(db, e.id, ts, PendingRow(e)) = [db.pending EXCEPT ![e.id] = PendingRow(e)]
  <2>1. db.pending \in [Ids -> Status \cup {None}] /\ DOMAIN db.transfers = Ids /\ e.id \in Ids
    BY DEF Ledger, DbOK, Databases, TransferEvents
  <2>2. PendingRow(e) # None => HoldsAt(db, ts) = {}
    BY DEF PendingRow
  <2> QED BY <2>1, <2>2, NewRow
<1>3. j \in Stored(d.transfers) /\ d.pending[j] = "Pending" /\ d.transfers[j].timeout # 0
  BY DEF Expiring
<1> HIDE DEF d
<1>4. j \in Ids
  BY <1>1, <1>2, <1>3 DEF Stored
<1>5. CASE j = e.id
  <2>1. d.transfers[j] = row
    BY <1>1, <1>2, <1>5
  <2>2. row.timeout = e.timeout /\ ExpiresAt(row) = ts + e.timeout * Second
    BY DEF ExpiresAt
  <2> QED BY <1>3, <2>1, <2>2 DEF d
<1>6. CASE j # e.id
  <2>1. d.transfers[j] = db.transfers[j] /\ d.pending[j] = db.pending[j]
    BY <1>1, <1>2, <1>4, <1>6
  <2>2. j \in Stored(db.transfers)
    BY <1>2, <1>3, <1>4, <2>1 DEF Stored
  <2> QED BY <1>3, <2>1, <2>2 DEF Expiring, d
<1> QED BY <1>5, <1>6

\* The pulse that is set after a transfer is not past the expiry of any hold.
LEMMA NextPulseIsScheduled ==
  ASSUME NEW db, Ledger(db), NEW e \in TransferEvents, NEW ts \in 1 .. TimestampMax,
         NEW n \in 0 .. AmountMax, Shaped(db, e), Applicable(db, e, n),
         SeparateHolds(ApplyTransfer(db, e, ts, n)),
         pulse_next_timestamp \in 1 .. TimestampMax,
         \A i \in Expiring(db) : pulse_next_timestamp <= ExpiresAt(db.transfers[i])
  PROVE  LET d == ApplyTransfer(db, e, ts, n)
             p == NextPulse(d, e, ts)
         IN /\ p \in 1 .. TimestampMax
            /\ \A i \in Expiring(d) : p <= ExpiresAt(d.transfers[i])
<1> DEFINE d == ApplyTransfer(db, e, ts, n)
           p == NextPulse(d, e, ts)
<1>1. Ledger(d)
  BY ApplyKeepsLedger
<1>2. CASE IsPost(e) \/ IsVoid(e)
  <2>1. p = SoonestExpiry(d)
    BY <1>2 DEF NextPulse
  <2> HIDE DEF d, p
  <2>2. p \in 1 .. TimestampMax /\ \A i \in Expiring(d) : p <= ExpiresAt(d.transfers[i])
    BY <1>1, <2>1, SoonestExpiryIsLeast
  <2> QED BY <2>2 DEF d, p
<1>3. CASE ~(IsPost(e) \/ IsVoid(e))
  <2> DEFINE z == e.timeout * Second
             q == pulse_next_timestamp
  <2>1. d = CreateTransfer(db, e, ts, n)
    BY <1>3 DEF ApplyTransfer
  <2>2. p = IF e.timeout > 0 THEN (IF q < ts + z THEN q ELSE ts + z) ELSE q
    BY <1>3 DEF NextPulse, Lesser
  <2>3. e.timeout \in Nat
    BY DEF TransferEvents
  <2>4. z \in Nat
    <3>1. \A x \in Nat, y \in Nat : x * y \in Nat
      OBVIOUS
    <3> QED BY <2>3, <3>1, ConstantsAssumption
  <2>5. \A i \in Expiring(d) :
          \/ i \in Expiring(db) /\ d.transfers[i] = db.transfers[i]
          \/ e.timeout # 0 /\ ExpiresAt(d.transfers[i]) = ts + z
    <3>1. IsPending(e) => HoldsAt(db, ts) = {}
      BY SeparateBefore DEF Ledger
    <3> QED BY <2>1, <3>1, ExpiriesAfterCreate
  <2>6. \A i \in Expiring(d) : ExpiresAt(d.transfers[i]) \in Nat
    <3> HIDE DEF d
    <3> QED BY <1>1, ExpiriesArePositive
  <2> HIDE DEF d, p, z, q
  <2>7. p \in 1 .. TimestampMax
    <3>1. q \in 1 .. TimestampMax /\ TimestampMax \in Nat
      BY ConstantsAssumption DEF q
    <3> QED BY <2>2, <2>3, <2>4, <3>1
  <2>8. p <= q /\ q \in Nat /\ p \in Nat /\ (e.timeout # 0 => p <= ts + z)
    BY <2>2, <2>3, <2>4 DEF q
  <2>9. ASSUME NEW i \in Expiring(d)
        PROVE  p <= ExpiresAt(d.transfers[i])
    <3>1. CASE i \in Expiring(db) /\ d.transfers[i] = db.transfers[i]
      <4>1. q <= ExpiresAt(d.transfers[i])
        BY <3>1 DEF q
      <4> QED BY <2>6, <2>8, <4>1
    <3>2. CASE e.timeout # 0 /\ ExpiresAt(d.transfers[i]) = ts + z
      BY <2>8, <3>2
    <3> QED BY <2>5, <3>1, <3>2
  <2> QED BY <2>7, <2>9 DEF d, p
<1> QED BY <1>2, <1>3

\* A transfer is stored with the timestamp and the amount that execution gave
\* it; it is not the second resolution of its pending transfer.
LEMMA PersistTransferKeepsInvariant ==
  ASSUME IInv, PersistTransfer
  PROVE  IInv' /\ Keeps(store, store')
<1> DEFINE i == persisted + 1
           e == events[i]
           r == results[i]
           ts == r.timestamp
           amount == r.amount
           failure == IF Intact(i) THEN TransferPanic(e, ts, amount) ELSE "none"
           goes == /\ failure = "none"
                   /\ IF Intact(i)
                      THEN /\ store' = ApplyTransfer(store, e, ts, amount)
                           /\ logged' = logged \cup {ts}
                           /\ pulse_next_timestamp' = NextPulse(store', e, ts)
                      ELSE UNCHANGED <<store, logged, pulse_next_timestamp>>
                   /\ persisted' = i
                   /\ UNCHANGED <<cache, saved, orphaned, commit_timestamp, events, results, chain,
                                  chain_broken, key_max, due, op, timestamp, panic, ops>>
<1>1. /\ op = "persist_transfers" /\ persisted < Len(events) /\ panic = "none"
      /\ (failure # "none" /\ Stop(failure)) \/ goes
  BY DEF PersistTransfer, Persisting
<1>2. Persisted /\ Kind = "transfers" /\ op # "expire"
  BY <1>1 DEF Persisted, Kind
<1>3. /\ Types /\ Ledger(store) /\ DbOK(store) /\ Distinct(store) /\ Scheduled
      /\ SeparateHolds(store)
  BY DEF IInv, Ledgers, Ledger, Distinct, SeparateHolds
<1>4. /\ Intact(i) <=> r.status = "Created"
      /\ r.status = "Created" => Legal(Kind, store, events, r, i, timestamp, commit_timestamp)
  BY <1>1, <1>2, WalkFollowsHistory
<1>5. ASSUME Intact(i)
      PROVE  /\ e \in TransferEvents /\ ts \in 1 .. TimestampMax /\ amount \in 0 .. AmountMax
             /\ Shaped(store, e) /\ Applicable(store, e, amount)
             /\ Spaced => \A j \in Stored(store.transfers) : store.transfers[j].timestamp < ts
  <2>1. Spaced => commit_timestamp + Len(events) <= timestamp
    BY <1>2 DEF Spaced
  <2>2. Legal(Kind, store, events, r, i, timestamp, commit_timestamp)
    BY <1>4, <1>5
  <2> HIDE DEF r, i
  <2> QED BY <1>2, <1>3, <2>1, <2>2 DEF Legal, Groove, e, ts, amount
<1> HIDE DEF failure, goes
<1>6. CASE failure # "none" /\ Stop(failure)
  <2>1. Intact(i) /\ failure = TransferPanic(e, ts, amount)
    BY <1>6 DEF failure
  <2> HIDE DEF e, r, ts, i, amount
  <2>2. Spaced => ~Shares(store.transfers, e.id, ts)
    BY <1>5, <2>1 DEF Shares
  <2>3. IsPost(e) \/ IsVoid(e) => store.pending[e.pending_id] = "Pending"
    BY <1>5, <2>1 DEF Applicable, Resolvable, Held
  <2>4. AppliesCleanly(store, e, amount)
    BY <1>3, <1>5, <2>1, ApplicableAppliesCleanly
  <2>5. Expected(failure)
    BY <1>6, <2>1, <2>2, <2>3, <2>4 DEF TransferPanic, Expected
  <2>6. IInv' /\ UNCHANGED <<stores, clock, loop, op, timestamp, ops>>
    BY <1>6, <2>5, StopKeepsInvariant
  <2> QED BY <2>6 DEF stores, Keeps
<1>7. CASE goes /\ Intact(i)
  <2>1. /\ store' = ApplyTransfer(store, e, ts, amount) /\ failure = "none"
        /\ logged' = logged \cup {ts} /\ pulse_next_timestamp' = NextPulse(store', e, ts)
        /\ persisted' = i /\ panic' = panic
        /\ UNCHANGED <<cache, saved, orphaned, commit_timestamp, events, results, chain, chain_broken,
                       key_max, due, op, timestamp, ops>>
    BY <1>7 DEF goes
  <2>2. store' = Effect(Kind, store, e, r)
    BY <1>2, <1>4, <1>7, <2>1 DEF Effect
  <2>3. ~Shares(store.transfers, e.id, ts)
    BY <1>7, <2>1 DEF failure, TransferPanic
  <2> HIDE DEF e, r, ts, i, amount
  <2>4. /\ Stored(store'.transfers) = Stored(store.transfers) \cup {e.id}
        /\ e.id \in Ids \ Stored(store.transfers)
        /\ \A j \in Ids \ {e.id} : store'.transfers[j] = store.transfers[j]
        /\ store'.transfers[e.id].timestamp = ts
    BY <1>3, <1>5, <1>7, <2>1, ApplyKeepsShape
  <2>5. Stored(store.transfers) \subseteq Ids \ {e.id}
    BY <1>3, <2>4 DEF DbOK, Databases, Stored
  <2>6. Keeps(store, store')
    BY <2>4, <2>5 DEF Keeps
  <2>7. Distinct(store')
    <3>1. \A j \in Stored(store.transfers) : store'.transfers[j].timestamp # ts
      BY <2>3, <2>4, <2>5 DEF Shares
    <3>2. \A j \in Stored(store.transfers) : store'.transfers[j] = store.transfers[j]
      BY <2>4, <2>5
    <3> QED BY <1>3, <2>4, <3>1, <3>2 DEF Distinct
  <2>8. /\ pulse_next_timestamp' \in 1 .. TimestampMax
        /\ \A j \in Expiring(store') : pulse_next_timestamp' <= ExpiresAt(store'.transfers[j])
    <3>1. pulse_next_timestamp' = NextPulse(ApplyTransfer(store, e, ts, amount), e, ts)
      BY <2>1
    <3>2. /\ pulse_next_timestamp \in 1 .. TimestampMax
          /\ \A j \in Expiring(store) : pulse_next_timestamp <= ExpiresAt(store.transfers[j])
      BY <1>2, <1>3 DEF Types, Scheduled
    <3>3. SeparateHolds(ApplyTransfer(store, e, ts, amount))
      BY <2>1, <2>7 DEF Distinct, SeparateHolds
    <3> QED BY <1>3, <1>5, <1>7, <2>1, <3>1, <3>2, <3>3, NextPulseIsScheduled
  <2>9. logged' \subseteq 1 .. TimestampMax
    BY <1>3, <1>5, <1>7, <2>1 DEF Types
  <2>10. IInv'
    BY <1>1, <1>2, <2>1, <2>2, <2>7, <2>8, <2>9, WalkKeepsInvariant DEF e, r, i
  <2> QED BY <2>6, <2>10
<1>8. CASE goes /\ ~Intact(i)
  <2>1. /\ store' = store /\ logged' = logged /\ pulse_next_timestamp' = pulse_next_timestamp
        /\ persisted' = i /\ panic' = panic
        /\ UNCHANGED <<cache, saved, orphaned, commit_timestamp, events, results, chain, chain_broken,
                       key_max, due, op, timestamp, ops>>
    BY <1>8 DEF goes
  <2>2. store' = Effect(Kind, store, e, r)
    BY <1>4, <1>8, <2>1 DEF Effect
  <2> HIDE DEF e, r, ts, i, amount
  <2>3. /\ pulse_next_timestamp' \in 1 .. TimestampMax /\ logged' \subseteq 1 .. TimestampMax
        /\ \A j \in Expiring(store') : pulse_next_timestamp' <= ExpiresAt(store'.transfers[j])
        /\ Distinct(store')
    BY <1>2, <1>3, <2>1 DEF Types, Scheduled
  <2>4. IInv'
    BY <1>1, <1>2, <2>1, <2>2, <2>3, WalkKeepsInvariant DEF e, r, i
  <2> QED BY <2>1, <2>4 DEF Keeps
<1> QED BY <1>1, <1>6, <1>7, <1>8


\* A batch ends with stores that are what its events were decided on; a pulse
\* ends with the search for the next expiry.
LEMMA FinishKeepsInvariant ==
  ASSUME IInv, Finish
  PROVE  IInv' /\ (Persisted => cache = store)
<1>1. /\ \/ Persisted /\ persisted = Len(events)
         \/ op = "expire" /\ due = {}
      /\ op' = "idle" /\ commit_timestamp' = timestamp
      /\ events' = <<>> /\ results' = <<>> /\ persisted' = 0 /\ key_max' = 0
      /\ pulse_next_timestamp' = (IF op = "expire" THEN SoonestExpiry(store) ELSE pulse_next_timestamp)
      /\ store' = store /\ cache' = cache /\ saved' = saved /\ orphaned' = orphaned
      /\ logged' = logged /\ chain' = chain /\ due' = due /\ timestamp' = timestamp
      /\ panic' = "none" /\ ops' = ops
  BY DEF Finish, Persisted, stores
<1>2. chain_broken' = chain_broken
  BY DEF Finish
<1>3. Types /\ Ledgers /\ Clock /\ Loop /\ Resting /\ Scheduled /\ Remembered /\ AssertionsHold /\ Ledger(store)
  BY DEF IInv, Ledgers
<1>4. ~Executing' /\ ~Persisted' /\ ~Creating' /\ op' # "expire" /\ Len(results') = 0
  BY <1>1 DEF Executing, Persisted, Creating
<1>5. ASSUME Persisted
      PROVE  cache = store /\ chain = 0 /\ UpTo(store, timestamp)
  <2>1. Executing /\ Len(results) = Len(events) /\ Len(events) \in Nat /\ op # "expire"
    BY <1>3, <1>5 DEF Persisted, Executing, Loop, Types
  <2>2. persisted = Len(results) /\ persisted \in 0 .. Len(results)
    BY <1>1, <1>3, <2>1 DEF Types
  <2>3. PICK h : /\ History(h, Kind, events, results, timestamp, commit_timestamp)
                 /\ h[persisted] = store /\ h[Len(results)] = cache
    BY <1>3, <2>1 DEF Remembered
  <2>4. UpTo(store, timestamp)
    BY <2>2, <2>3 DEF History
  <2>5. chain = 0
    BY <1>3, <2>1 DEF Loop, Types
  <2> QED BY <2>2, <2>3, <2>4, <2>5
<1>6. ASSUME op = "expire"
      PROVE  /\ chain = 0 /\ UpTo(store, timestamp) /\ ~Executing
             /\ cache.transfers = store.transfers /\ Stored(cache.accounts) = Stored(store.accounts)
  <2>1. ~Executing
    BY <1>6 DEF Executing
  <2> QED BY <1>3, <1>6, <2>1 DEF Resting, Types, Clock
<1>7. chain = 0 /\ UpTo(store, timestamp) /\ due = {}
  BY <1>1, <1>3, <1>5, <1>6 DEF Persisted, Clock
<1>8. Types'
  <2>1. pulse_next_timestamp' \in 1 .. TimestampMax
    BY <1>1, <1>3, SoonestExpiryIsLeast DEF Types
  <2>2. events' \in Seq(Events') /\ results' \in Seq(ResultRows')
    BY <1>1
  <2>3. /\ chain' \in 0 .. Len(results') /\ persisted' \in 0 .. Len(results')
    BY <1>1, <1>4, <1>7
  <2>4. chain_broken' \in BOOLEAN
    BY <1>2, <1>3 DEF Types
  <2>5. op' \in Ops /\ key_max' \in Nat /\ timestamp' \in 0 .. TimestampMax
        /\ commit_timestamp' \in 0 .. TimestampMax /\ saved'.key_max \in Nat
    BY <1>1, <1>3 DEF Types, Ops
  <2> QED BY <1>1, <1>3, <2>1, <2>2, <2>3, <2>4, <2>5 DEF Types
<1>9. Ledgers' /\ KeyMaxima' /\ Remembered' /\ AssertionsHold'
  BY <1>1, <1>3, <1>4 DEF Ledgers, KeyMaxima, Remembered, AssertionsHold
<1>10. Resting'
  BY <1>1, <1>5, <1>6 DEF Resting
<1>11. Clock'
  BY <1>1, <1>4, <1>7 DEF Clock
<1>12. Loop' /\ Atomic'
  <2>1. chain' = 0 /\ chain_broken' = FALSE
    <3>1. ~chain_broken /\ chain_broken \in BOOLEAN
      BY <1>3, <1>7 DEF Loop, Types
    <3>2. chain_broken = FALSE
      BY <3>1, Zenon
    <3> QED BY <1>1, <1>2, <1>7, <3>2
  <2> QED BY <1>1, <1>4, <2>1 DEF Loop, Atomic
<1>13. Scheduled'
  <2>1. CASE op = "expire"
    BY <1>1, <1>3, <2>1, SoonestExpiryIsLeast DEF Scheduled
  <2>2. CASE op # "expire"
    BY <1>1, <1>3, <2>2 DEF Scheduled
  <2> QED BY <2>1, <2>2
<1> QED BY <1>5, <1>8, <1>9, <1>10, <1>11, <1>12, <1>13 DEF IInv

\* A pulse takes a timestamp for each of the transfers that are due.
LEMMA PulseKeepsInvariant ==
  ASSUME IInv, Pulse
  PROVE  IInv'
<1> DEFINE ts == timestamp'
<1>1. /\ ts \in Timestamps
      /\ due' = {i \in Expiring(store) : ExpiresAt(store.transfers[i]) <= ts}
  BY DEF Pulse
<1>2. /\ op = "idle" /\ panic = "none" /\ ops < MaxOps /\ op' = "expire" /\ ops' = ops + 1
      /\ store' = store /\ cache' = cache /\ saved' = saved /\ orphaned' = orphaned
      /\ logged' = logged /\ commit_timestamp' = commit_timestamp
      /\ pulse_next_timestamp' = pulse_next_timestamp
      /\ events' = events /\ results' = results /\ chain' = chain /\ chain_broken' = chain_broken
      /\ key_max' = key_max /\ persisted' = persisted /\ panic' = "none"
  BY DEF Pulse, stores, clock
<1>3. Types /\ Ledgers /\ Clock /\ Loop /\ Atomic /\ Resting /\ Scheduled /\ AssertionsHold /\ Ledger(store)
  BY DEF IInv, Ledgers
<1>4. /\ ~Executing /\ ~Executing' /\ ~Persisted' /\ ~Creating' /\ ~Creating
      /\ op # "expire" /\ op' # "idle" /\ op' \in Ops
  BY <1>2 DEF Executing, Persisted, Creating, Ops
<1> HIDE DEF ts
<1>5. due' \subseteq Expiring(store) /\ timestamp' = ts
  BY <1>1 DEF ts
<1>6. due' \subseteq Ids
  <2>1. Expiring(store) \subseteq Ids
    BY <1>3 DEF Ledger, DbOK, Databases, Expiring, Stored
  <2> QED BY <1>5, <2>1
<1>8. commit_timestamp \in Nat /\ TimestampMax \in Nat
  BY <1>3, ConstantsAssumption DEF Types
<1>9. ts \in 0 .. TimestampMax /\ commit_timestamp <= ts
  BY <1>1, <1>8, ConstantsAssumption DEF Timestamps
<1>10. UpTo(store, ts)
  <2>1. UpTo(store, commit_timestamp)
    BY <1>2, <1>3 DEF Clock
  <2>2. Groove(store, "accounts") = store.accounts /\ Groove(store, "transfers") = store.transfers
    BY DEF Groove
  <2>3. /\ Before(Groove(store, "accounts"), commit_timestamp)
        /\ Before(Groove(store, "transfers"), commit_timestamp)
    BY <2>1, <2>2 DEF UpTo
  <2>4. ts \in Nat /\ commit_timestamp <= ts
    BY <1>9
  <2>5. Before(Groove(store, "accounts"), ts) /\ Before(Groove(store, "transfers"), ts)
    BY <1>3, <1>8, <2>3, <2>4, BeforeLater DEF Ledger
  <2> QED BY <2>2, <2>5 DEF UpTo
<1>11. Types'
  <2>1. ops' \in 0 .. MaxOps /\ timestamp' \in 0 .. TimestampMax /\ due' \subseteq Ids
    BY <1>2, <1>3, <1>5, <1>6, <1>9, ConstantsAssumption DEF Types, ts
  <2>2. events' \in Seq(Events') /\ events = <<>> /\ results = <<>>
    BY <1>2, <1>3, <1>4 DEF Resting
  <2> QED BY <1>2, <1>3, <1>4, <2>1, <2>2 DEF Types
<1>12. Ledgers' /\ KeyMaxima' /\ Remembered' /\ AssertionsHold' /\ Scheduled' /\ Resting'
  BY <1>2, <1>3, <1>4 DEF Ledgers, KeyMaxima, Remembered, AssertionsHold, Scheduled, Resting
<1>13. Clock'
  BY <1>2, <1>3, <1>4, <1>5, <1>9, <1>10 DEF Clock, ts
<1>14. Loop' /\ Atomic'
  BY <1>2, <1>3, <1>4 DEF Loop, Atomic, Created
<1> QED BY <1>11, <1>12, <1>13, <1>14 DEF IInv

\* An expiry gives back a hold that is there, on accounts that it closed.
LEMMA ExpireKeepsInvariant ==
  ASSUME IInv, NEW i \in Ids, Expire(i)
  PROVE  IInv' /\ store'.transfers = store.transfers
<1> DEFINE p == store.transfers[i]
           ts == timestamp - Cardinality(due) + 1
           failure == ExpirePanic(p, ts)
           goes == /\ failure = "none" /\ store' = Lapsed(store, i)
                   /\ logged' = logged \cup {ts} /\ commit_timestamp' = ts /\ due' = due \ {i}
                   /\ cache' = cache /\ saved' = saved /\ orphaned' = orphaned
                   /\ pulse_next_timestamp' = pulse_next_timestamp
                   /\ events' = events /\ results' = results /\ chain' = chain
                   /\ chain_broken' = chain_broken /\ key_max' = key_max /\ persisted' = persisted
                   /\ op' = op /\ timestamp' = timestamp /\ panic' = panic /\ ops' = ops
<1>1. /\ op = "expire" /\ panic = "none" /\ i \in due
      /\ (failure # "none" /\ Stop(failure)) \/ goes
  BY DEF Expire
<1>2. /\ Types /\ Ledgers /\ Clock /\ Loop /\ Atomic /\ Resting /\ Ledger(store) /\ SeparateHolds(store)
      /\ due \subseteq Ids /\ timestamp \in 0 .. TimestampMax
      /\ commit_timestamp \in 0 .. TimestampMax /\ TimestampMax \in Nat
  BY ConstantsAssumption DEF IInv, Ledgers, Types, Distinct, SeparateHolds
<1>3. due \subseteq Expiring(store) /\ UpTo(store, timestamp)
  BY <1>1, <1>2 DEF Clock
<1>4. Cardinality(due) \in Nat \ {0}
  <2>1. IsFiniteSet(due)
    BY <1>2, ConstantsAssumption, FS_Subset
  <2> QED BY <1>1, <2>1, FS_CardinalityType, FS_EmptySet
<1>5. i \in Held(store)
  BY <1>1, <1>3 DEF Held, Expiring
<1>6. ts \in Int /\ ts <= timestamp
  BY <1>2, <1>4
<1>7. Spaced => commit_timestamp < ts
  BY <1>1, <1>2, <1>4 DEF Spaced
<1>8. /\ ~(store.accounts[p.dr].debits_pending < p.amount)
      /\ ~(store.accounts[p.cr].credits_pending < p.amount)
      /\ "closing_debit" \in p.flags => Closed(store.accounts[p.dr])
      /\ "closing_credit" \in p.flags => Closed(store.accounts[p.cr])
  <2>1. /\ store.accounts[p.dr].debits_pending >= p.amount
        /\ store.accounts[p.cr].credits_pending >= p.amount
    BY <1>2, <1>5, HoldIsPending DEF Ledger
  <2>2. /\ {p.dr, p.cr} \subseteq Stored(store.accounts) /\ p \in TransferRows
        /\ store.accounts \in [Accounts -> AccountRows \cup {None}]
    BY <1>2, <1>5 DEF Ledger, DbOK, Databases, Held, Stored
  <2>3. /\ store.accounts[p.dr].debits_pending \in Nat /\ p.amount \in Nat
        /\ store.accounts[p.cr].credits_pending \in Nat
    BY <2>2 DEF Stored, AccountRows, TransferRows
  <2>4. /\ "closing_debit" \in p.flags => Closed(store.accounts[p.dr])
        /\ "closing_credit" \in p.flags => Closed(store.accounts[p.cr])
    BY <1>2, <1>5, <2>2 DEF Ledger, ClosedByHolds, Closes, ClosesDebit, ClosesCredit, TransferRows
  <2> HIDE DEF p
  <2> QED BY <2>1, <2>3, <2>4
<1> HIDE DEF p, ts
<1>9. \/ failure \in {"none", "expiry_too_early", "two_account_events_share"}
      \/ failure = "expiry_before_commit" /\ ~(commit_timestamp < ts)
  BY <1>8 DEF ExpirePanic
<1>10. failure = "none" => commit_timestamp < ts
  BY DEF ExpirePanic
<1> HIDE DEF failure, goes
<1>11. CASE failure # "none" /\ Stop(failure)
  <2>1. Expected(failure)
    BY <1>7, <1>9 DEF Expected
  <2>2. IInv' /\ UNCHANGED <<stores, clock, loop, op, timestamp, ops>>
    BY <1>11, <2>1, StopKeepsInvariant
  <2> QED BY <2>2 DEF stores
<1>12. CASE goes
  <2>1. /\ store' = Lapsed(store, i) /\ failure = "none"
        /\ logged' = logged \cup {ts} /\ commit_timestamp' = ts /\ due' = due \ {i}
        /\ cache' = cache /\ saved' = saved /\ orphaned' = orphaned
        /\ pulse_next_timestamp' = pulse_next_timestamp
        /\ events' = events /\ results' = results /\ chain' = chain
        /\ chain_broken' = chain_broken /\ key_max' = key_max /\ persisted' = persisted
        /\ op' = op /\ timestamp' = timestamp /\ panic' = panic /\ ops' = ops
    BY <1>12 DEF goes
  <2>2. /\ ~Executing /\ ~Executing' /\ ~Persisted' /\ ~Creating' /\ op # "idle" /\ Events' = Events
    BY <1>1, <2>1 DEF Executing, Persisted, Creating, Events, Kind
  <2>3. /\ Ledger(store')
        /\ store'.transfers = store.transfers
        /\ store'.pending[i] = "Expired" /\ \A j \in Ids \ {i} : store'.pending[j] = store.pending[j]
        /\ Stored(store'.accounts) = Stored(store.accounts)
        /\ \A a \in Stored(store.accounts) :
             store'.accounts[a].timestamp = store.accounts[a].timestamp
    BY <1>2, <1>5, <2>1, LapseKeepsLedger
  <2>4. ts \in 1 .. TimestampMax
    BY <1>2, <1>6, <1>10, <2>1
  <2>5. UpTo(store', timestamp)
    BY <1>3, <2>3 DEF UpTo, Before
  <2>6. due \ {i} \subseteq Expiring(store')
    BY <1>2, <1>3, <2>3 DEF Expiring
  <2>7. Types'
    <3>1. logged' \subseteq 1 .. TimestampMax /\ commit_timestamp' \in 0 .. TimestampMax /\ due' \subseteq Ids
      BY <1>2, <2>1, <2>4 DEF Types
    <3> QED BY <1>2, <2>1, <2>2, <3>1 DEF Types
  <2>8. Ledgers'
    BY <1>2, <2>1, <2>3 DEF Ledgers, Distinct
  <2>9. KeyMaxima' /\ Remembered' /\ Scheduled'
    BY <1>1, <2>1, <2>2 DEF KeyMaxima, Remembered, Scheduled
  <2>10. Resting'
    BY <1>2, <2>1, <2>2, <2>3 DEF Resting
  <2>11. Clock'
    BY <1>1, <2>1, <2>2, <2>5, <2>6 DEF Clock
  <2>12. Loop' /\ Atomic'
    BY <1>2, <2>1, <2>2 DEF Loop, Atomic, Created
  <2>13. AssertionsHold'
    BY <1>1, <2>1 DEF AssertionsHold
  <2> QED BY <2>3, <2>7, <2>8, <2>9, <2>10, <2>11, <2>12, <2>13 DEF IInv
<1> QED BY <1>1, <1>11, <1>12


\* Every action keeps the invariant.
LEMMA NextKeepsInvariant == IInv /\ [Next]_vars => IInv'
<1> SUFFICES ASSUME IInv, [Next]_vars PROVE IInv'
  OBVIOUS
<1>1. ASSUME NEW batch \in AccountBatches, CreateAccounts(batch)
      PROVE  IInv'
  <2>1. batch \in Seq(AccountEvents)
    BY BatchesAssumption
  <2> QED BY <1>1, <2>1, BeginKeepsInvariant DEF CreateAccounts
<1>2. ASSUME NEW batch \in TransferBatches, CreateTransfers(batch)
      PROVE  IInv'
  <2>1. batch \in Seq(TransferEvents)
    BY BatchesAssumption
  <2> QED BY <1>2, <2>1, BeginKeepsInvariant DEF CreateTransfers
<1>3. CASE ExecuteAccount
  BY <1>3, ExecuteAccountKeepsInvariant
<1>4. CASE ExecuteTransfer
  BY <1>4, ExecuteTransferKeepsInvariant
<1>5. CASE Persist
  BY <1>5, PersistKeepsInvariant
<1>6. CASE PersistAccount
  BY <1>6, PersistAccountKeepsInvariant
<1>7. CASE PersistTransfer
  BY <1>7, PersistTransferKeepsInvariant
<1>8. CASE Finish
  BY <1>8, FinishKeepsInvariant
<1>9. CASE Pulse
  BY <1>9, PulseKeepsInvariant
<1>10. ASSUME NEW i \in Ids, Expire(i)
       PROVE  IInv'
  BY <1>10, ExpireKeepsInvariant
<1>11. CASE UNCHANGED vars
  BY <1>11 DEF vars, stores, clock, loop, IInv, Types, Ledgers, Resting, Clock, Loop, Atomic,
               KeyMaxima, Scheduled, Remembered, AssertionsHold, Executing, Creating,
               Persisted, Kind, Events, Created, EventTimestamp, Spaced, SeparateHolds
<1> QED BY <1>1, <1>2, <1>3, <1>4, <1>5, <1>6, <1>7, <1>8, <1>9, <1>10, <1>11 DEF Next

-----------------------------------------------------------------------------
(* Theorems *)

\* The inductive invariant: the stores and the caches are ledgers, and the
\* results of a batch are a history that leads from the ones to the others.
THEOREM InvariantHolds == Spec => []IInv
<1>1. Init => IInv
  BY InitInvariant
<1>2. IInv /\ [Next]_vars => IInv'
  BY NextKeepsInvariant
<1> QED BY <1>1, <1>2, PTL DEF Spec

\* The stores and the caches hold well-formed records that refer to each other,
\* whatever order of batches, chains that fail and pulses produced them.
THEOREM TypesAreCorrect == Spec => []TypeOK
<1>1. IInv => TypeOK
  BY DEF IInv, Types, Ledgers, Ledger, Sound, TypeOK
<1> QED BY <1>1, InvariantHolds, PTL

\* The balances of an account are the sums of its transfers: what
\* commit_transfer_accounts and commit_post_void_accounts add and give back, and
\* expire_pending_transfers gives back, is what the stored transfers say.
THEOREM BalancesFollowHistory == Spec => []BalancesAreHistory
<1>1. IInv => BalancesAreHistory
  BY DEF IInv, Ledgers, Ledger, BalancesAreHistory
<1> QED BY <1>1, InvariantHolds, PTL

\* A limited account is never overdrawn, although limits are checked on the
\* caches before the balances are written and their sums may wrap.
THEOREM LimitsAreKept == Spec => []LimitsHold
<1>1. IInv => LimitsHold
  BY DEF IInv, Ledgers, Ledger, LimitsHold
<1> QED BY <1>1, InvariantHolds, PTL

\* A pending transfer is posted, voided or expired at most once: the status in
\* transfers_pending, the stored resolution and the hold agree, in the stores and,
\* as long as no two holds share a timestamp, in the caches.
THEOREM PendingResolvedOnce == Spec => []ResolvedOnce
<1>1. IInv => ResolvedOnce
  BY DEF IInv, Ledgers, Ledger, Sound, ResolvedOnce
<1> QED BY <1>1, InvariantHolds, PTL

\* The pulse is never set past the expiry of a hold: commit_transfer and the
\* end of a pulse keep pulse_next_timestamp at or before the soonest.
THEOREM PulseIsScheduled == Spec => []NoExpiryIsMissed
<1>1. IInv => NoExpiryIsMissed
  BY DEF IInv, Scheduled, NoExpiryIsMissed
<1> QED BY <1>1, InvariantHolds, PTL

\* The assertions of the persist walk and of the pulse on statuses, holds and closed
\* accounts never fail, whatever the batches; those on timestamps may, all but four
\* of them only in an operation with fewer timestamps than events.
THEOREM AssertionsAreKept == Spec => []AssertionsHold
<1>1. IInv => AssertionsHold
  BY DEF IInv, AssertionsHold
<1> QED BY <1>1, InvariantHolds, PTL

\* The persist walk, which sees only the events and their results, writes to the
\* stores what execution decided in the scopes of the caches.
THEOREM StoresFollowCaches == Spec => CachesAgree
<1> DEFINE Agree == (op \in {"persist_accounts", "persist_transfers"} /\ op' = "idle") => cache = store
<1>1. IInv /\ [Next]_vars => [Agree]_vars
  <2> SUFFICES ASSUME IInv, Next, Persisted, op' = "idle"
               PROVE  cache = store
    BY DEF Persisted
  <2>1. CASE Finish
    BY <2>1, FinishKeepsInvariant
  <2>2. CASE PersistAccount \/ PersistTransfer
    BY <2>2 DEF PersistAccount, PersistTransfer, Stop, Persisted
  <2>3. ~(Pulse \/ ExecuteAccount \/ ExecuteTransfer \/ Persist)
    BY DEF Pulse, ExecuteAccount, ExecuteTransfer, Looping, Persist, Persisted
  <2>4. \A batch : ~CreateAccounts(batch) /\ ~CreateTransfers(batch)
    BY DEF CreateAccounts, CreateTransfers, Begin, Persisted
  <2>5. \A i : ~Expire(i)
    BY DEF Expire, Persisted
  <2> QED BY <2>1, <2>2, <2>3, <2>4, <2>5 DEF Next
<1> HIDE DEF Agree
<1>2. Spec => [][Agree]_vars
  BY <1>1, InvariantHolds, PTL DEF Spec
<1> QED BY <1>2 DEF CachesAgree, Agree


\* An iteration adds to the caches only what it created: a scope that is
\* discarded takes transfers away.
LEMMA ExecuteOnlyAddsCreated ==
  ASSUME IInv, Creating, NEW status, NEW amount, NEW old, NEW after,
         Execute(status, amount, old, after),
         NEW i \in Ids, cache.transfers[i] = None,
         Verdict(events[Len(results) + 1], Len(results) + 1, status) = "Created" =>
           after.transfers[i] = None
  PROVE  cache'.transfers[i] = None
<1> DEFINE n == Len(results) + 1
           e == events[n]
           scope == IF Linked(e) /\ chain = 0 THEN cache ELSE saved.db
           created == Verdict(e, n, status) = "Created"
           breaks == Breaks(n, status)
<1>1. cache' = (IF breaks THEN scope ELSE IF created THEN after ELSE cache)
  BY DEF Execute, Discard, Breaks, First
<1>2. breaks => Linked(e) \/ chain # 0
  BY DEF Breaks, First
<1> HIDE DEF created, breaks, e
<1>3. ASSUME chain # 0
      PROVE  saved.db.transfers[i] = None
  <2>1. Executing /\ Types /\ Sound(saved.db) /\ Sound(cache)
    BY DEF IInv, Ledgers, Creating, Executing
  <2>2. PICK h : /\ History(h, Kind, events, results, timestamp, commit_timestamp)
                 /\ h[Len(results)] = cache /\ h[chain - 1] = saved.db
    BY <1>3, <2>1 DEF IInv, Remembered
  <2>3. Len(results) \in 0 .. Len(results) /\ chain - 1 \in 0 .. Len(results)
    BY <1>3, <2>1 DEF Types
  <2>4. Keeps(saved.db, cache)
    BY <2>2, <2>3 DEF History
  <2>5. DOMAIN saved.db.transfers = Ids
    BY <2>1 DEF Sound, DbOK, Databases
  <2> QED BY <2>4, <2>5 DEF Keeps, Stored
<1>4. scope.transfers[i] = None \/ ~breaks
  BY <1>2, <1>3
<1>5. created => after.transfers[i] = None
  BY DEF created, e
<1> QED BY <1>1, <1>4, <1>5

\* A stored transfer is never changed, by a post, a void, an expiry or a chain
\* that fails, and an id in transfers_orphaned is never created.
THEOREM HistoryIsKept == Spec => HistoryOnlyGrows
<1> DEFINE Grows == /\ \A i \in Stored(store.transfers) : store'.transfers[i] = store.transfers[i]
                    /\ \A i \in orphaned \ Stored(cache.transfers) : cache'.transfers[i] = None
           Same  == store'.transfers = store.transfers /\ cache'.transfers = cache.transfers
<1>1. ASSUME IInv, Next
      PROVE  Grows
  <2>1. Types /\ Ledgers /\ Resting /\ DbOK(store) /\ DbOK(cache)
    BY <1>1 DEF IInv, Ledgers, Ledger, Sound
  <2>2. \A i \in orphaned \ Stored(cache.transfers) : i \in Ids /\ cache.transfers[i] = None
    BY <2>1 DEF Types, DbOK, Databases, Stored
  <2>3. Same => Grows
    BY <2>2
  <2>4. ASSUME store' = store,
               \A i \in orphaned \ Stored(cache.transfers) : cache'.transfers[i] = None
        PROVE  Grows
    BY <2>4
  <2>5. ASSUME NEW name, NEW batch, Begin(name, batch)
        PROVE  Same
    <3>1. ~Executing /\ cache' = Prefetched /\ store' = store
      BY <2>5 DEF Begin, Executing
    <3>2. cache.transfers = store.transfers /\ Stored(cache.accounts) = Stored(store.accounts)
      BY <2>1, <3>1 DEF Resting
    <3>3. Prefetched = store
      BY <2>1, <3>2, PrefetchedIsStore
    <3> QED BY <3>1, <3>2, <3>3
  <2>6. ASSUME NEW assertion, Stop(assertion)
         PROVE  Same
    BY <2>6 DEF Stop, stores
  <2>7. ASSUME ExecuteAccount
        PROVE  Grows
    <3> DEFINE n == Len(results) + 1
               e == events[n]
               ts == TimestampOf(e, EventTimestamp(n))
               status == AccountStatus(cache, e, EventTimestamp(n), key_max)
               after == [cache EXCEPT !.accounts[e.id] = NewAccount(e, ts)]
               failure == LoopPanic(Verdict(e, n, status), TRUE)
    <3>1. CASE Stop(failure)
      BY <2>3, <2>6, <3>1
    <3>2. CASE ~Stop(failure)
      <4>1. Creating /\ Execute(status, 0, cache.accounts[e.id], after) /\ store' = store
        BY <2>7, <3>2 DEF ExecuteAccount, Looping, Creating
      <4>2. after.transfers = cache.transfers
        BY <2>1 DEF DbOK, Databases
      <4> HIDE DEF status, after, failure
      <4>3. ASSUME NEW i \in orphaned \ Stored(cache.transfers)
            PROVE  cache'.transfers[i] = None
        BY <1>1, <2>2, <4>1, <4>2, ExecuteOnlyAddsCreated
      <4> QED BY <2>4, <4>1, <4>3
    <3> QED BY <3>1, <3>2
  <2>8. ASSUME ExecuteTransfer
        PROVE  Grows
    <3> DEFINE n == Len(results) + 1
               e == events[n]
               ts == TimestampOf(e, EventTimestamp(n))
               failed == orphaned \cup WorkingOrphaned
               status == StatusOf(cache, e, EventTimestamp(n), key_max, failed)
               amount == AmountOf(cache, e)
               after == ApplyTransfer(cache, e, ts, amount)
               failure == LoopPanic(Verdict(e, n, status), AppliesCleanly(cache, e, amount))
    <3>0. CASE Stop(failure)
      BY <2>3, <2>6, <3>0
    <3> SUFFICES ASSUME ~Stop(failure) PROVE Grows
      BY <3>0
    <3>1. /\ Creating /\ op = "create_transfers" /\ Len(results) < Len(events)
          /\ Execute(status, amount, cache.transfers[e.id], after) /\ store' = store
      BY <2>8 DEF ExecuteTransfer, Looping, Creating
    <3>2. e \in TransferEvents
      <4>1. n \in 1 .. Len(events) /\ Kind = "transfers"
        BY <2>1, <3>1 DEF Types, Kind
      <4> QED BY <2>1, <4>1 DEF Types, Events
    <3>3. /\ status \in Statuses \cup Assertions /\ status # "LinkedEventChainOpen"
      BY TransferStatusIs
    <3>4. Verdict(e, n, status) = "Created" => status = "Created"
      BY <3>3, VerdictIs
    <3>5. ASSUME status = "Created", NEW i \in orphaned \ Stored(cache.transfers)
          PROVE  after.transfers[i] = None
      <4>1. e.id \notin failed
        BY <2>1, <3>2, <3>5, CreatedIsShaped
      <4>2. i \in Ids \ {e.id} /\ cache.transfers[i] = None
        BY <2>2, <4>1
      <4>3. after.transfers = (IF IsPost(e) \/ IsVoid(e)
                               THEN PostOrVoid(cache, e, ts, amount).transfers
                               ELSE CreateTransfer(cache, e, ts, amount).transfers)
        BY DEF ApplyTransfer
      <4>4. /\ PostOrVoid(cache, e, ts, amount).transfers[i] = cache.transfers[i]
            /\ CreateTransfer(cache, e, ts, amount).transfers[i] = cache.transfers[i]
        <5>1. cache.transfers \in [Ids -> TransferRows \cup {None}]
          BY <2>1 DEF DbOK, Databases
        <5> QED BY <4>2, <5>1 DEF PostOrVoid, CreateTransfer
      <4> QED BY <4>2, <4>3, <4>4
    <3> HIDE DEF status, after, failed, failure
    <3>6. ASSUME NEW i \in orphaned \ Stored(cache.transfers)
          PROVE  cache'.transfers[i] = None
      <4>1. Verdict(events[Len(results) + 1], Len(results) + 1, status) = "Created" =>
              after.transfers[i] = None
        BY <3>4, <3>5, <3>6
      <4> HIDE DEF amount, e
      <4> QED BY <1>1, <2>2, <3>1, <3>6, <4>1, ExecuteOnlyAddsCreated
    <3> QED BY <2>4, <3>1, <3>6
  <2>9. ASSUME PersistTransfer
        PROVE  Grows
    BY <1>1, <2>2, <2>9, PersistTransferKeepsInvariant DEF PersistTransfer, Stop, stores, Keeps
  <2>10. ASSUME PersistAccount
        PROVE  Same
    BY <1>1, <2>10, PersistAccountKeepsInvariant DEF PersistAccount, Stop, stores
  <2>11. ASSUME NEW i \in Ids, Expire(i)
         PROVE  Same
    BY <1>1, <2>11, ExpireKeepsInvariant DEF Expire, Stop, stores
  <2>12. ASSUME Persist \/ Finish \/ Pulse
         PROVE  Same
    BY <2>12 DEF Persist, Finish, Pulse, stores
  <2> HIDE DEF Same, Grows
  <2>13. (\E batch \in AccountBatches : CreateAccounts(batch))
         \/ (\E batch \in TransferBatches : CreateTransfers(batch)) => Same
    BY <2>5 DEF CreateAccounts, CreateTransfers
  <2> QED BY <1>1, <2>3, <2>7, <2>8, <2>9, <2>10, <2>11, <2>12, <2>13 DEF Next
<1>2. IInv /\ [Next]_vars => [Grows]_vars
  BY <1>1
<1> HIDE DEF Grows
<1>3. Spec => [][Grows]_vars
  BY <1>2, InvariantHolds, PTL DEF Spec
<1> QED BY <1>3 DEF HistoryOnlyGrows, Grows


\* Result n stores its id, new, when it is created, and changes nothing when not.
Adds(h, evs, res, n) ==
  /\ res[n].status = "Created" =>
       /\ evs[n].id \notin Stored(h[n - 1].transfers)
       /\ Stored(h[n].transfers) = Stored(h[n - 1].transfers) \cup {evs[n].id}
  /\ res[n].status # "Created" => h[n] = h[n - 1]

\* Along a history of transfers the stored ids grow by one with every result that
\* is created.
LEMMA HistoryAdds ==
  ASSUME NEW h, NEW kind, kind # "accounts", NEW evs, NEW res, NEW top, NEW commit,
         Len(res) \in Nat, History(h, kind, evs, res, top, commit)
  PROVE  \A n \in 1 .. Len(res) : Adds(h, evs, res, n)
<1> TAKE n \in 1 .. Len(res)
<1> DEFINE r == res[n]
           db == h[n - 1]
<1>1. n - 1 \in 0 .. Len(res)
  OBVIOUS
<1>2. /\ Sound(db) /\ UpTo(db, top) /\ h[n] = Effect(kind, db, evs[n], r)
      /\ r.status = "Created" => Legal(kind, db, evs, r, n, top, commit)
  BY <1>1 DEF History
<1>3. r.status # "Created" => h[n] = db
  BY <1>2 DEF Effect
<1> HIDE DEF r, db
<1>4. r.status = "Created" =>
        /\ evs[n].id \notin Stored(db.transfers)
        /\ Stored(h[n].transfers) = Stored(db.transfers) \cup {evs[n].id}
  BY <1>2, EffectKeepsSound
<1> QED BY <1>3, <1>4 DEF r, db, Adds

\* What a history created is stored at its end and was not at its beginning.
LEMMA CreatedIsNew ==
  ASSUME NEW h, NEW kind, kind # "accounts", NEW evs, NEW res, NEW top, NEW commit,
         Len(res) \in Nat, History(h, kind, evs, res, top, commit),
         NEW n \in 1 .. Len(res), res[n].status = "Created"
  PROVE  evs[n].id \in Stored(h[Len(res)].transfers) \ Stored(h[0].transfers)
<1>1. /\ n - 1 \in 0 .. Len(res) /\ n \in 0 .. Len(res) /\ Len(res) \in 0 .. Len(res)
      /\ 0 \in 0 .. n - 1 /\ n \in 0 .. Len(res)
  OBVIOUS
<1>2. /\ Keeps(h[0], h[n - 1]) /\ Keeps(h[n], h[Len(res)])
      /\ DbOK(h[n - 1]) /\ DbOK(h[n]) /\ DbOK(h[Len(res)])
  BY <1>1 DEF History, Sound
<1>3. /\ DOMAIN h[n - 1].transfers = Ids /\ DOMAIN h[n].transfers = Ids
      /\ DOMAIN h[Len(res)].transfers = Ids
  BY <1>2 DEF DbOK, Databases
<1>4. /\ evs[n].id \notin Stored(h[n - 1].transfers)
      /\ evs[n].id \in Stored(h[n].transfers)
  <2>1. \A m \in 1 .. Len(res) : Adds(h, evs, res, m)
    BY HistoryAdds
  <2> QED BY <2>1 DEF Adds
<1>5. evs[n].id \in Stored(h[Len(res)].transfers)
  BY <1>2, <1>3, <1>4 DEF Keeps, Stored
<1>6. evs[n].id \notin Stored(h[0].transfers)
  BY <1>2, <1>3, <1>4 DEF Keeps, Stored
<1> QED BY <1>5, <1>6

\* What is stored at the end of a history and was not at its beginning, was created.
AddsOnlyCreated(h, evs, res) ==
  \A id \in Stored(h[Len(res)].transfers) \ Stored(h[0].transfers) :
    \E k \in 1 .. Len(res) : evs[k].id = id /\ res[k].status = "Created"

\* ... as the least result after which it is stored shows.
LEMMA NewIsCreated ==
  ASSUME NEW h, NEW kind, kind # "accounts", NEW evs, NEW res, NEW top, NEW commit,
         Len(res) \in Nat, History(h, kind, evs, res, top, commit)
  PROVE  AddsOnlyCreated(h, evs, res)
<1> SUFFICES ASSUME NEW id \in Stored(h[Len(res)].transfers) \ Stored(h[0].transfers)
             PROVE  \E k \in 1 .. Len(res) : evs[k].id = id /\ res[k].status = "Created"
  BY DEF AddsOnlyCreated
<1> DEFINE U == {n \in 0 .. Len(res) : id \in Stored(h[n].transfers)}
<1>1. U \subseteq Nat /\ Len(res) \in U
  OBVIOUS
<1>2. PICK n \in U : \A m \in U : n <= m
  <2> HIDE DEF U
  <2> QED BY <1>1, LeastElement
<1>3. n \in 1 .. Len(res) /\ n - 1 \in 0 .. Len(res)
  <2>1. n \in 0 .. Len(res) /\ n # 0
    OBVIOUS
  <2> QED BY <2>1
<1>4. id \in Stored(h[n].transfers) /\ id \notin Stored(h[n - 1].transfers)
  <2>1. ~(n <= n - 1)
    BY <1>3
  <2> QED BY <1>2, <1>3, <2>1
<1>5. \A m \in 1 .. Len(res) : Adds(h, evs, res, m)
  BY HistoryAdds
<1>6. res[n].status = "Created" /\ evs[n].id = id
  BY SMTT(30), <1>3, <1>4, <1>5 DEF Adds
<1> QED BY <1>3, <1>6

\* The members of a linked chain are created together or not at all, when a member
\* fails first, last, or because the batch ends within the chain, and the caches
\* gain what was created and nothing else.
THEOREM ChainsAreKeptAtomic == Spec => ChainsAreAtomic
<1> DEFINE created(k) == results[k].status = "Created"
           new(id) == cache.transfers[id] # None /\ store.transfers[id] = None
           whole == /\ \A i \in DOMAIN events :
                         \/ \A k \in ChainOf(i) : created(k) /\ new(events[k].id)
                         \/ \A k \in ChainOf(i) : ~created(k)
                    /\ \A id \in Ids : new(id) => \E k \in DOMAIN events : events[k].id = id /\ created(k)
           Atom == (op = "create_transfers" /\ op' = "persist_transfers") => whole
<1>1. ASSUME IInv, Next, op = "create_transfers", op' = "persist_transfers"
      PROVE  whole
  <2>1. Len(results) = Len(events)
    <3>1. CASE Persist
      BY <3>1 DEF Persist
    <3>2. ~(ExecuteAccount \/ ExecuteTransfer)
      BY <1>1 DEF ExecuteAccount, ExecuteTransfer, Stop
    <3>3. ~(Pulse \/ PersistAccount \/ PersistTransfer \/ Finish)
      BY <1>1 DEF Pulse, PersistAccount, PersistTransfer, Persisting, Finish
    <3>4. \A batch : ~CreateAccounts(batch) /\ ~CreateTransfers(batch)
      BY <1>1 DEF CreateAccounts, CreateTransfers, Begin
    <3>5. \A j : ~Expire(j)
      BY <1>1 DEF Expire
    <3> QED BY <1>1, <3>1, <3>2, <3>3, <3>4, <3>5 DEF Next
  <2>2. Types /\ Loop /\ Atomic /\ Creating /\ Executing /\ Kind = "transfers" /\ persisted = 0
    BY <1>1 DEF IInv, Loop, Creating, Executing, Kind
  <2>3. Len(events) \in Nat /\ Len(results) \in Nat /\ DOMAIN events = 1 .. Len(events)
    BY <2>2 DEF Types
  <2>4. PICK h : /\ History(h, "transfers", events, results, timestamp, commit_timestamp)
                 /\ h[0] = store /\ h[Len(results)] = cache
    BY <1>1, <2>2 DEF IInv, Remembered
  <2>5. DOMAIN cache.transfers = Ids /\ DOMAIN store.transfers = Ids
    BY <1>1 DEF IInv, Ledgers, Ledger, Sound, DbOK, Databases
  <2>6. \A id \in Ids : new(id) <=> id \in Stored(cache.transfers) \ Stored(store.transfers)
    BY <2>5 DEF Stored
  <2>7. ASSUME NEW k \in 1 .. Len(events), created(k)
        PROVE  new(events[k].id)
    <3>1. events[k].id \in Stored(cache.transfers) \ Stored(store.transfers)
      BY <2>1, <2>3, <2>4, <2>7, CreatedIsNew
    <3>2. events[k].id \in Ids
      BY <2>5, <3>1 DEF Stored
    <3> HIDE DEF new
    <3> QED BY <2>6, <3>1, <3>2
  <2>8. ASSUME NEW id \in Ids, new(id)
        PROVE  \E k \in DOMAIN events : events[k].id = id /\ created(k)
    <3>1. id \in Stored(cache.transfers) \ Stored(store.transfers)
      BY <2>6, <2>8
    <3>2. \E k \in 1 .. Len(results) : events[k].id = id /\ results[k].status = "Created"
      <4>1. "transfers" # "accounts" /\ Len(results) \in Nat
            /\ History(h, "transfers", events, results, timestamp, commit_timestamp)
        BY <2>3, <2>4
      <4>2. AddsOnlyCreated(h, events, results)
        BY <4>1, NewIsCreated
      <4>3. id \in Stored(h[Len(results)].transfers) \ Stored(h[0].transfers)
        BY <2>4, <3>1
      <4> QED BY <4>2, <4>3 DEF AddsOnlyCreated
    <3> QED BY <2>1, <2>3, <3>2
  <2>9. ASSUME NEW i \in DOMAIN events
        PROVE  \/ \A k \in ChainOf(i) : created(k) /\ new(events[k].id)
               \/ \A k \in ChainOf(i) : ~created(k)
    <3>1. i \in 1 .. Len(events) /\ results # <<>>
      BY <2>1, <2>3
    <3>2. \A k \in ChainOf(i) : k \in 1 .. Len(events) /\ (Created(k) <=> Created(i))
      BY <2>1, <2>2, <2>3, <3>1, IntactIsCreated
    <3> HIDE DEF new
    <3> QED BY <2>7, <3>2 DEF Created
  <2> HIDE DEF created, new
  <2> QED BY <2>8, <2>9
<1>2. IInv /\ [Next]_vars => [Atom]_vars
  <2> HIDE DEF whole
  <2> QED BY <1>1
<1> HIDE DEF Atom
<1>3. Spec => [][Atom]_vars
  BY <1>2, InvariantHolds, PTL DEF Spec
<1> QED BY <1>3 DEF ChainsAreAtomic, Atom
=============================================================================
