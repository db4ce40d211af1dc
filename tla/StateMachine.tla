---------------------------- MODULE StateMachine ----------------------------
(***************************************************************************)
(* The accounting state machine (state_machine.rs): create_accounts,       *)
(* create_transfers and the pulse that expires pending transfers.          *)
(*                                                                         *)
(* A batch is executed against the object caches, event by event, and what *)
(* it created is then persisted to the committed stores, again event by    *)
(* event: each iteration of the two loops is an action.  A linked chain    *)
(* opens a scope of the caches that is discarded when a member fails.      *)
(* Checks of a single field (reserved bits, ids of zero, ledgers, codes,   *)
(* user data) are left out: the events of the instances pass them.         *)
(***************************************************************************)
EXTENDS Integers, Sequences, FiniteSets
INSTANCE FiniteSetsExt

CONSTANTS Accounts, Ids,   \* of accounts and of transfers
          AmountMax,       \* u128::MAX
          TimestampMax,    \* TIMESTAMP_MAX, and a bound of the instances
          Second,          \* NS_PER_S
          AccountBatches, TransferBatches,  \* the requests of the clients
          MaxOps,          \* bound of the operations
          MaxGap,          \* bound of the time that passes between two operations
          None

VARIABLES
  store,       \* the committed stores [accounts, transfers, pending]
  cache,       \* the object caches, of the same shape
  saved,       \* the caches and key_max when the open chain began
  orphaned,    \* transfers_orphaned
  logged,      \* the timestamps of account_events
  commit_timestamp, pulse_next_timestamp,
  op,          \* what is executed: see Ops
  timestamp,   \* of the operation
  events, results, chain, chain_broken, key_max,  \* locals of the loop
  persisted,   \* how many events persist has walked over
  due,         \* the pending transfers the pulse has still to expire
  panic,       \* the assertion that failed
  ops          \* how many operations there were

stores == <<store, cache, saved, orphaned, logged>>
clock  == <<commit_timestamp, pulse_next_timestamp>>
loop   == <<events, results, chain, chain_broken, key_max, persisted, due>>
vars   == <<stores, clock, loop, op, timestamp, panic, ops>>

Flags == {"linked", "imported", "closed", "history",
          "debits_must_not_exceed_credits", "credits_must_not_exceed_debits"}

TransferFlags == {"linked", "imported", "pending", "post_pending_transfer",
                  "void_pending_transfer", "balancing_debit", "balancing_credit",
                  "closing_debit", "closing_credit"}

Status == {"Pending", "Posted", "Voided", "Expired"}

\* The rows of the stores.
AccountRows ==
  [timestamp : 1 .. TimestampMax, flags : SUBSET Flags,
   debits_pending : 0 .. AmountMax, debits_posted : 0 .. AmountMax,
   credits_pending : 0 .. AmountMax, credits_posted : 0 .. AmountMax]

TransferRows ==
  [dr : Accounts, cr : Accounts, amount : 0 .. AmountMax, flags : SUBSET TransferFlags,
   pending_id : Ids \cup {None}, timeout : Nat, timestamp : 1 .. TimestampMax]

\* The events that pass the checks of a single field.
AccountEvents ==
  {e \in [id : Accounts, flags : SUBSET Flags, timestamp : Nat] :
     "imported" \in e.flags => e.timestamp # 0}

TransferEvents ==
  {e \in [id : Ids, dr : Accounts \cup {None}, cr : Accounts \cup {None},
          amount : 0 .. AmountMax, flags : SUBSET TransferFlags,
          pending_id : Ids \cup {None}, timeout : Nat, timestamp : Nat] :
     /\ "imported" \in e.flags => e.timestamp # 0
     /\ IF {"post_pending_transfer", "void_pending_transfer"} \cap e.flags # {}
        THEN e.pending_id \in Ids \ {e.id}
        ELSE e.pending_id = None /\ {e.dr, e.cr} \subseteq Accounts}

ASSUME ConstantsAssumption ==
  /\ IsFiniteSet(Accounts) /\ IsFiniteSet(Ids)
  /\ AmountMax \in Nat /\ TimestampMax \in Nat \ {0} /\ Second \in Nat
  /\ MaxOps \in Nat /\ MaxGap \in Nat

ASSUME NoneAssumption ==
  /\ None \notin Accounts /\ None \notin Ids /\ None \notin Status
  /\ None \notin AccountRows /\ None \notin TransferRows

ASSUME BatchesAssumption ==
  /\ \A batch \in AccountBatches : batch \in Seq(AccountEvents)
  /\ \A batch \in TransferBatches : batch \in Seq(TransferEvents)

Ops == {"idle", "create_accounts", "create_transfers",
        "persist_accounts", "persist_transfers", "expire"}

-----------------------------------------------------------------------------
(* Records *)

Linked(e)   == "linked" \in e.flags
Imported(e) == "imported" \in e.flags
IsPost(e)   == "post_pending_transfer" \in e.flags
IsVoid(e)   == "void_pending_transfer" \in e.flags
IsPending(e) == "pending" \in e.flags
Closed(a)   == "closed" \in a.flags

Wrap(n)         == n % (AmountMax + 1)
SumOverflows(a, b) == a + b > AmountMax
Saturating(n)   == IF n < 0 THEN 0 ELSE n
Lesser(a, b)    == IF a < b THEN a ELSE b

NewAccount(e, ts) ==
  [timestamp |-> ts, flags |-> e.flags,
   debits_pending |-> 0, debits_posted |-> 0, credits_pending |-> 0, credits_posted |-> 0]

Stored(t) == {i \in DOMAIN t : t[i] # None}

KeyMax(t) == Max({0} \cup {t[i].timestamp : i \in Stored(t)})

\* An imported event keeps its own timestamp.
TimestampOf(e, ts) == IF Imported(e) THEN e.timestamp ELSE ts

ExpiresAt(p) == p.timestamp + p.timeout * Second

\* (a mutation: a resolved transfer stays in the index)
NeverReaped(db) == {i \in Stored(db.transfers) : db.transfers[i].timeout # 0}

\* The transfers the expires_at index holds.
Expiring(db) ==
  {i \in Stored(db.transfers) : db.pending[i] = "Pending" /\ db.transfers[i].timeout # 0}

SoonestExpiry(db) ==
  Min({TimestampMax} \cup {ExpiresAt(db.transfers[i]) : i \in Expiring(db)})

\* The rows of transfers_pending are kept by timestamp: the row of a hold is the
\* row of every hold that shares its timestamp.
HoldsAt(db, ts) ==
  {i \in Stored(db.transfers) : IsPending(db.transfers[i]) /\ db.transfers[i].timestamp = ts}

WithRow(db, i, ts, status) ==
  [j \in Ids |-> IF j = i \/ (status # None /\ j \in HoldsAt(db, ts)) THEN status ELSE db.pending[j]]

-----------------------------------------------------------------------------
(* The balances *)

Debit(a, kind, n) ==
  IF kind = "pending" THEN [a EXCEPT !.debits_pending = Wrap(@ + n)]
  ELSE [a EXCEPT !.debits_posted = Wrap(@ + n)]

Credit(a, kind, n) ==
  IF kind = "pending" THEN [a EXCEPT !.credits_pending = Wrap(@ + n)]
  ELSE [a EXCEPT !.credits_posted = Wrap(@ + n)]

\* (a mutation: a closing transfer leaves the account open)
LeavesOpen(a) == a

Close(a)  == [a EXCEPT !.flags = @ \cup {"closed"}]
Reopen(a) == [a EXCEPT !.flags = @ \ {"closed"}]

\* (a mutation: every transfer gets a row in transfers_pending)
RowForAll(e) == "Pending"

\* The row of a new transfer in transfers_pending.
PendingRow(e) == IF IsPending(e) THEN "Pending" ELSE None

\* commit_transfer_accounts, and what is stored with it
CreateTransfer(db, e, ts, amount) ==
  LET kind == IF IsPending(e) THEN "pending" ELSE "posted"
      dr == Debit(db.accounts[e.dr], kind, amount)
      cr == Credit(db.accounts[e.cr], kind, amount)
  IN [accounts  |-> [db.accounts EXCEPT
                       ![e.dr] = IF "closing_debit" \in e.flags THEN Close(dr) ELSE dr,
                       ![e.cr] = IF "closing_credit" \in e.flags THEN Close(cr) ELSE cr],
      transfers |-> [db.transfers EXCEPT ![e.id] =
                       [dr |-> e.dr, cr |-> e.cr, amount |-> amount, flags |-> e.flags,
                        pending_id |-> None, timeout |-> e.timeout, timestamp |-> ts]],
      pending   |-> WithRow(db, e.id, ts, PendingRow(e))]

\* The hold of the pending transfer p is given back.
Released(accounts, p) ==
  LET dr == Debit(accounts[p.dr], "pending", - p.amount)
      cr == Credit(accounts[p.cr], "pending", - p.amount)
  IN [accounts EXCEPT ![p.dr] = dr, ![p.cr] = cr]

\* ... and the accounts it closed are opened again.
Reverted(accounts, p) ==
  [a \in Accounts |->
     IF \/ a = p.dr /\ "closing_debit" \in p.flags
        \/ a = p.cr /\ "closing_credit" \in p.flags
     THEN Reopen(Released(accounts, p)[a]) ELSE Released(accounts, p)[a]]

\* (a mutation: a void posts nothing and gives back nothing)
PostOnly(db, e, ts, amount) ==
  LET p == db.transfers[e.pending_id]
      free == Released(db.accounts, p)
  IN [accounts  |-> IF IsVoid(e) THEN db.accounts
                    ELSE [free EXCEPT ![p.dr] = Debit(@, "posted", amount),
                                      ![p.cr] = Credit(@, "posted", amount)],
      transfers |-> [db.transfers EXCEPT ![e.id] =
                       [dr |-> p.dr, cr |-> p.cr, amount |-> amount, flags |-> e.flags,
                        pending_id |-> e.pending_id, timeout |-> 0, timestamp |-> ts]],
      pending   |-> WithRow(db, e.pending_id, p.timestamp, IF IsPost(e) THEN "Posted" ELSE "Voided")]

\* commit_post_void_accounts and fold_post_void_transfer
PostOrVoid(db, e, ts, amount) ==
  LET p == db.transfers[e.pending_id]
      free == Released(db.accounts, p)
  IN [accounts  |-> IF IsVoid(e) THEN Reverted(db.accounts, p)
                    ELSE [free EXCEPT ![p.dr] = Debit(@, "posted", amount),
                                      ![p.cr] = Credit(@, "posted", amount)],
      transfers |-> [db.transfers EXCEPT ![e.id] =
                       [dr |-> p.dr, cr |-> p.cr, amount |-> amount, flags |-> e.flags,
                        pending_id |-> e.pending_id, timeout |-> 0, timestamp |-> ts]],
      pending   |-> WithRow(db, e.pending_id, p.timestamp, IF IsPost(e) THEN "Posted" ELSE "Voided")]

\* What the expiry of the pending transfer i leaves.
Lapsed(db, i) ==
  [accounts  |-> Reverted(db.accounts, db.transfers[i]),
   transfers |-> db.transfers,
   pending   |-> WithRow(db, i, db.transfers[i].timestamp, "Expired")]

ApplyTransfer(db, e, ts, amount) ==
  IF IsPost(e) \/ IsVoid(e) THEN PostOrVoid(db, e, ts, amount)
  ELSE CreateTransfer(db, e, ts, amount)

\* compute_amount_actual
AmountActual(e, dr, cr) ==
  LET debit  == Saturating(dr.credits_posted - Wrap(dr.debits_posted + dr.debits_pending))
      credit == Saturating(cr.debits_posted - Wrap(cr.credits_posted + cr.credits_pending))
      capped == IF "balancing_debit" \in e.flags THEN Lesser(e.amount, debit) ELSE e.amount
  IN IF "balancing_credit" \in e.flags THEN Lesser(capped, credit) ELSE capped

\* What a post or a void applies to the pending transfer p.
AmountResolved(e, p) ==
  IF e.amount = (IF IsVoid(e) THEN 0 ELSE AmountMax) THEN p.amount ELSE e.amount

\* (a mutation: holds are not counted)
PostedExceedCredits(a, n) ==
  /\ "debits_must_not_exceed_credits" \in a.flags
  /\ Wrap(a.debits_posted + n) > a.credits_posted

DebitsExceedCredits(a, n) ==
  /\ "debits_must_not_exceed_credits" \in a.flags
  /\ Wrap(Wrap(a.debits_pending + a.debits_posted) + n) > a.credits_posted

CreditsExceedDebits(a, n) ==
  /\ "credits_must_not_exceed_debits" \in a.flags
  /\ Wrap(Wrap(a.credits_pending + a.credits_posted) + n) > a.debits_posted

Overflows(e, dr, cr, n) ==
  \/ IsPending(e) /\ (SumOverflows(n, dr.debits_pending) \/ SumOverflows(n, cr.credits_pending))
  \/ SumOverflows(n, dr.debits_posted) \/ SumOverflows(n, cr.credits_posted)
  \/ SumOverflows(n, Wrap(dr.debits_pending + dr.debits_posted))
  \/ SumOverflows(n, Wrap(cr.credits_pending + cr.credits_posted))

OverflowsTimeout(e, ts) == ts + e.timeout * Second > TimestampMax

-----------------------------------------------------------------------------
(* The status of one event, given the caches c, the timestamp ts of the    *)
(* event and the greatest timestamp kmax of the groove, or the assertion   *)
(* that fails where the status is decided.                                 *)

Assertions == {"imported_after_event", "account_after_transfer", "resolved_before_hold"}

Transient == {"DebitAccountNotFound", "CreditAccountNotFound", "PendingTransferNotFound",
              "ExceedsCredits", "ExceedsDebits",
              "DebitAccountAlreadyClosed", "CreditAccountAlreadyClosed"}

\* An imported event may neither precede its groove nor share the timestamp of
\* an object of the other one.
Regresses(e, kmax, others) ==
  Imported(e) /\ (e.timestamp <= kmax \/ \E i \in Stored(others) : others[i].timestamp = e.timestamp)

\* ... nor follow its own place in the batch: that is asserted.
IsAhead(e, ts) == Imported(e) /\ e.timestamp > ts

\* create_account
AccountStatus(c, e, ts, kmax) ==
  LET old == c.accounts[e.id] IN
  IF old # None THEN IF e.flags = old.flags THEN "Exists" ELSE "ExistsWithDifferentFlags"
  ELSE IF IsAhead(e, ts) THEN "imported_after_event"
  ELSE IF Regresses(e, kmax, c.transfers) THEN "ImportedEventTimestampMustNotRegress"
  ELSE IF {"debits_must_not_exceed_credits", "credits_must_not_exceed_debits"} \subseteq e.flags
       THEN "FlagsAreMutuallyExclusive"
  ELSE "Created"

\* create_transfer_exists
TransferExists(e, old) ==
  IF /\ e.flags = old.flags /\ e.dr = old.dr /\ e.cr = old.cr
     /\ IF IsPending(e) THEN e.amount <= old.amount ELSE e.amount = old.amount
     /\ e.pending_id = old.pending_id /\ e.timeout = old.timeout
  THEN "Exists" ELSE "ExistsWithDifferent"

ClosedStatus(dr, cr) ==
  IF Closed(dr) THEN "DebitAccountAlreadyClosed"
  ELSE IF Closed(cr) THEN "CreditAccountAlreadyClosed" ELSE "Created"

\* create_transfer, and what execute_create_transfers checks before it
TransferStatus(c, e, ts, kmax) ==
  LET dr == c.accounts[e.dr]
      cr == c.accounts[e.cr]
      old == c.transfers[e.id]
      amount == AmountActual(e, dr, cr)
  IN IF dr = None THEN "DebitAccountNotFound"
     ELSE IF cr = None THEN "CreditAccountNotFound"
     ELSE IF old # None THEN TransferExists(e, old)
     ELSE IF IsAhead(e, ts) THEN "imported_after_event"
     ELSE IF Regresses(e, kmax, c.accounts) THEN "ImportedEventTimestampMustNotRegress"
     ELSE IF e.dr = e.cr THEN "AccountsMustBeDifferent"
     ELSE IF ~IsPending(e) /\ (e.timeout # 0 \/ e.flags \cap {"closing_debit", "closing_credit"} # {})
          THEN "ReservedForPendingTransfer"
     ELSE IF Imported(e) /\ (\/ e.timestamp <= dr.timestamp \/ e.timestamp <= cr.timestamp
                             \/ e.timeout # 0)
          THEN "ImportedEventTimestampMustPostdateAccounts"
     ELSE IF ~Imported(e) /\ (ts <= dr.timestamp \/ ts <= cr.timestamp) THEN "account_after_transfer"
     ELSE IF ClosedStatus(dr, cr) # "Created" THEN ClosedStatus(dr, cr)
     ELSE IF Overflows(e, dr, cr, amount) THEN "Overflows"
     ELSE IF OverflowsTimeout(e, TimestampOf(e, ts)) THEN "OverflowsTimeout"
     ELSE IF DebitsExceedCredits(dr, amount) THEN "ExceedsCredits"
     ELSE IF CreditsExceedDebits(cr, amount) THEN "ExceedsDebits"
     ELSE "Created"

\* post_or_void_pending_transfer_exists
PostOrVoidExists(e, old, p) ==
  IF e.flags # old.flags \/ e.pending_id # old.pending_id \/ e.timeout # old.timeout
  THEN "ExistsWithDifferent"
  ELSE IF old.timestamp <= p.timestamp THEN "resolved_before_hold"
  ELSE IF /\ e.dr \in {None, old.dr} /\ e.cr \in {None, old.cr}
          /\ old.amount = AmountResolved(e, p)
  THEN "Exists" ELSE "ExistsWithDifferent"

\* post_or_void_pending_transfer, and what execute_create_transfers checks before it
PostOrVoidStatus(c, e, ts, kmax) ==
  LET p == c.transfers[e.pending_id]
      old == c.transfers[e.id]
      amount == AmountResolved(e, p)
  IN IF old # None
     THEN IF old.pending_id = None THEN "ExistsWithDifferentFlags" ELSE PostOrVoidExists(e, old, p)
     ELSE IF p = None THEN "PendingTransferNotFound"
     ELSE IF ~IsPending(p) THEN "PendingTransferNotPending"
     ELSE IF \/ IsPost(e) /\ IsVoid(e)
             \/ e.flags \cap {"pending", "balancing_debit", "balancing_credit",
                              "closing_debit", "closing_credit"} # {}
          THEN "FlagsAreMutuallyExclusive"
     ELSE IF e.timeout # 0 THEN "TimeoutReservedForPendingTransfer"
     ELSE IF e.dr \notin {None, p.dr} \/ e.cr \notin {None, p.cr}
          THEN "PendingTransferHasDifferentAccount"
     ELSE IF amount > p.amount THEN "ExceedsPendingTransferAmount"
     ELSE IF IsVoid(e) /\ amount < p.amount THEN "PendingTransferHasDifferentAmount"
     ELSE IF c.pending[e.pending_id] # "Pending" THEN "PendingTransferAlreadyResolved"
     ELSE IF p.timeout # 0 /\ ExpiresAt(p) <= ts THEN "PendingTransferExpired"
     ELSE IF IsAhead(e, ts) THEN "imported_after_event"
     ELSE IF Regresses(e, kmax, c.accounts) THEN "ImportedEventTimestampMustNotRegress"
     ELSE IF IsPost(e) THEN ClosedStatus(c.accounts[p.dr], c.accounts[p.cr])
     ELSE "Created"

\* (a mutation: an id that failed is tried again)
RetriesFailed(c, e, ts, kmax, failed) ==
  IF IsPost(e) \/ IsVoid(e) THEN PostOrVoidStatus(c, e, ts, kmax)
  ELSE TransferStatus(c, e, ts, kmax)

\* Ids that failed for a reason that may pass must keep failing.
StatusOf(c, e, ts, kmax, failed) ==
  IF e.id \in failed THEN "IdAlreadyFailed"
  ELSE IF IsPost(e) \/ IsVoid(e) THEN PostOrVoidStatus(c, e, ts, kmax)
  ELSE TransferStatus(c, e, ts, kmax)

\* The amount of a created transfer.
AmountOf(c, e) ==
  IF IsPost(e) \/ IsVoid(e) THEN AmountResolved(e, c.transfers[e.pending_id])
  ELSE AmountActual(e, c.accounts[e.dr], c.accounts[e.cr])

EventTimestamp(i) == timestamp - Len(events) + i

-----------------------------------------------------------------------------
(* execute_create_accounts and execute_create_transfers *)

Init ==
  /\ store = [accounts |-> [a \in Accounts |-> None],
              transfers |-> [i \in Ids |-> None], pending |-> [i \in Ids |-> None]]
  /\ cache = store
  /\ saved = [db |-> store, key_max |-> 0]
  /\ orphaned = {} /\ logged = {}
  /\ commit_timestamp = 0 /\ pulse_next_timestamp = 1
  /\ op = "idle" /\ timestamp = 0
  /\ events = <<>> /\ results = <<>> /\ chain = 0 /\ chain_broken = FALSE /\ key_max = 0
  /\ persisted = 0 /\ due = {}
  /\ panic = "none" /\ ops = 0

\* prefetch: what is committed is read into the caches.
Prefetched ==
  [f \in {"accounts", "transfers", "pending"} |->
     [i \in DOMAIN store[f] |-> IF store[f][i] # None THEN store[f][i] ELSE cache[f][i]]]

\* The timestamps the replica may give the next operation: its clock moves on by
\* one for every prepare, however many events that has, and by what time passes.
Timestamps ==
  (commit_timestamp + 1 .. commit_timestamp + 1 + MaxGap) \cap (1 .. TimestampMax - 1)

Begin(name, batch) ==
  /\ op = "idle" /\ panic = "none" /\ ops < MaxOps
  /\ timestamp' \in Timestamps
  /\ op' = name /\ events' = batch /\ results' = <<>>
  /\ chain' = 0 /\ chain_broken' = FALSE /\ persisted' = 0
  /\ cache' = Prefetched
  /\ ops' = ops + 1
  /\ UNCHANGED <<store, saved, orphaned, logged, clock, due, panic>>

CreateAccounts(batch) ==
  /\ Begin("create_accounts", batch)
  /\ key_max' = KeyMax(store.accounts)

CreateTransfers(batch) ==
  /\ Begin("create_transfers", batch)
  /\ key_max' = KeyMax(store.transfers)

\* The transient failures of this batch.
WorkingOrphaned == {events[i].id : i \in {j \in DOMAIN results : results[j].status \in Transient}}

\* (a mutation: the members that follow the failure are executed)
GoesOn(e, i, status) ==
  IF Linked(e) /\ i = Len(events) THEN "LinkedEventChainOpen"
  ELSE IF Imported(e) # Imported(events[1]) THEN "ImportedEventExpected"
  ELSE IF Imported(e) /\ e.timestamp >= timestamp THEN "ImportedEventTimestampMustNotAdvance"
  ELSE status

\* What the loop decides before it looks at the event itself.
Verdict(e, i, status) ==
  IF Linked(e) /\ i = Len(events) THEN "LinkedEventChainOpen"
  ELSE IF chain_broken THEN "LinkedEventFailed"
  ELSE IF Imported(e) # Imported(events[1]) THEN "ImportedEventExpected"
  ELSE IF Imported(e) /\ e.timestamp >= timestamp THEN "ImportedEventTimestampMustNotAdvance"
  ELSE status

\* (a mutation: the caches keep what a broken chain created)
KeepsScope(db, scope) == db

\* scope_close(Discard)
Discard(db, scope) == scope

\* One iteration: after is what the caches are when the event is created.
Execute(status, amount, old, after) ==
  LET i      == Len(results) + 1
      e      == events[i]
      opens  == Linked(e) /\ chain = 0
      start  == IF opens THEN i ELSE chain
      scope  == IF opens THEN [db |-> cache, key_max |-> key_max] ELSE saved
      final  == Verdict(e, i, status)
      created == final = "Created"
      breaks == ~created /\ start # 0 /\ ~chain_broken
      ends   == start # 0 /\ (~Linked(e) \/ final = "LinkedEventChainOpen")
      failed == [j \in DOMAIN results |->
                   IF breaks /\ j >= start THEN [results[j] EXCEPT !.status = "LinkedEventFailed"]
                   ELSE results[j]]
      stamp  == IF created THEN TimestampOf(e, EventTimestamp(i))
                ELSE IF final = "Exists" THEN old.timestamp ELSE EventTimestamp(i)
      higher == IF created /\ stamp > key_max THEN stamp ELSE key_max
  IN /\ results' = Append(failed, [status |-> final, timestamp |-> stamp,
                                   amount |-> IF created THEN amount ELSE 0])
     /\ cache' = IF breaks THEN Discard(cache, scope.db) ELSE IF created THEN after ELSE cache
     /\ key_max' = IF breaks /\ op = "create_transfers" THEN scope.key_max ELSE higher
     /\ saved' = scope
     /\ chain' = IF ends THEN 0 ELSE start
     /\ chain_broken' = (~ends /\ (chain_broken \/ breaks))

\* The assertions of commit_post_void_accounts.
AppliesCleanly(db, e, amount) ==
  IsPost(e) \/ IsVoid(e) =>
    LET p == db.transfers[e.pending_id] IN
    IF IsPost(e)
    THEN p.flags \cap {"closing_debit", "closing_credit"} = {} /\ amount <= p.amount
    ELSE /\ amount = p.amount
         /\ "closing_debit" \in p.flags => Closed(db.accounts[p.dr])
         /\ "closing_credit" \in p.flags => Closed(db.accounts[p.cr])

Looping(name) == op = name /\ Len(results) < Len(events) /\ panic = "none"

\* An assertion fails, and the replica stops where it is.
Stop(assertion) ==
  /\ panic' = assertion
  /\ UNCHANGED <<stores, clock, loop, op, timestamp, ops>>

\* What stops the loop at an event with this verdict.  The timestamps of a batch
\* are counted back from the operation's, which may not leave enough of them.
LoopPanic(final, clean) ==
  IF timestamp < Len(events) THEN "timestamp_underflow"
  ELSE IF final \in Assertions THEN final
  ELSE IF final = "Created" /\ ~clean THEN "post_or_void"
  ELSE "none"

ExecuteAccount ==
  /\ Looping("create_accounts")
  /\ LET i == Len(results) + 1
         e == events[i]
         ts == TimestampOf(e, EventTimestamp(i))
         status == AccountStatus(cache, e, EventTimestamp(i), key_max)
         failure == LoopPanic(Verdict(e, i, status), TRUE)
     IN \/ failure # "none" /\ Stop(failure)
        \/ /\ failure = "none"
           /\ Execute(status, 0, cache.accounts[e.id],
                      [cache EXCEPT !.accounts[e.id] = NewAccount(e, ts)])
           /\ UNCHANGED <<store, orphaned, logged, clock, events, persisted, due, op, timestamp,
                          panic, ops>>

ExecuteTransfer ==
  /\ Looping("create_transfers")
  /\ LET i == Len(results) + 1
         e == events[i]
         ts == TimestampOf(e, EventTimestamp(i))
         status == StatusOf(cache, e, EventTimestamp(i), key_max, orphaned \cup WorkingOrphaned)
         amount == AmountOf(cache, e)
         failure == LoopPanic(Verdict(e, i, status), AppliesCleanly(cache, e, amount))
     IN \/ failure # "none" /\ Stop(failure)
        \/ /\ failure = "none"
           /\ Execute(status, amount, cache.transfers[e.id], ApplyTransfer(cache, e, ts, amount))
           /\ UNCHANGED <<store, orphaned, logged, clock, events, persisted, due, op, timestamp,
                          panic, ops>>

\* The batch is executed; transient failures are recorded first.
Persist ==
  /\ op \in {"create_accounts", "create_transfers"} /\ Len(results) = Len(events) /\ panic = "none"
  /\ op' = IF op = "create_accounts" THEN "persist_accounts" ELSE "persist_transfers"
  /\ orphaned' = IF op = "create_accounts" THEN orphaned ELSE orphaned \cup WorkingOrphaned
  /\ UNCHANGED <<store, cache, saved, logged, clock, loop, timestamp, panic, ops>>

-----------------------------------------------------------------------------
(* persist_accounts and persist_transfers *)

\* The chain that event i belongs to, or the event alone.
ChainOf(i) ==
  LET first == Min({j \in 1 .. i : \A k \in j .. i - 1 : Linked(events[k])})
      rest  == {k \in i .. Len(events) : ~Linked(events[k])}
  IN first .. (IF rest = {} THEN Len(events) ELSE Min(rest))

Intact(i) ==
  /\ \E k \in ChainOf(i) : ~Linked(events[k])
  /\ \A k \in ChainOf(i) : results[k].status = "Created"

Persisting(name) == op = name /\ persisted < Len(events) /\ panic = "none"

Shares(objects, id, ts) == \E i \in Stored(objects) \ {id} : objects[i].timestamp = ts

\* What insert_account asserts.
AccountPanic(e, ts) == IF Shares(store.accounts, e.id, ts) THEN "two_accounts_share" ELSE "none"

\* One iteration of persist_accounts
PersistAccount ==
  /\ Persisting("persist_accounts")
  /\ LET i == persisted + 1
         e == events[i]
         ts == results[i].timestamp
         failure == IF Intact(i) THEN AccountPanic(e, ts) ELSE "none"
     IN \/ failure # "none" /\ Stop(failure)
        \/ /\ failure = "none"
           /\ store' = IF Intact(i) THEN [store EXCEPT !.accounts[e.id] = NewAccount(e, ts)] ELSE store
           /\ persisted' = persisted + 1
           /\ UNCHANGED <<cache, saved, orphaned, logged, clock, events, results, chain, chain_broken,
                          key_max, due, op, timestamp, panic, ops>>

\* (a mutation: the pulse is not moved forward for a new pending transfer)
KeepsPulse(db, e, ts) == pulse_next_timestamp

\* commit_transfer moves the pulse forward for a new pending transfer; after a
\* post or a void it is searched for again.
NextPulse(db, e, ts) ==
  IF IsPost(e) \/ IsVoid(e) THEN SoonestExpiry(db)
  ELSE IF e.timeout > 0 THEN Lesser(pulse_next_timestamp, ts + e.timeout * Second)
  ELSE pulse_next_timestamp

\* What insert_transfer, update_transfer_pending_status, commit_post_void_accounts
\* and account_event assert.
TransferPanic(e, ts, amount) ==
  IF Shares(store.transfers, e.id, ts) THEN "two_transfers_share"
  ELSE IF (IsPost(e) \/ IsVoid(e)) /\ store.pending[e.pending_id] # "Pending" THEN "status_advances_twice"
  ELSE IF ~AppliesCleanly(store, e, amount) THEN "post_or_void"
  ELSE IF ts \in logged THEN "two_account_events_share"
  ELSE "none"

\* One iteration of persist_transfers: persist_transfer and persist_post_void
PersistTransfer ==
  /\ Persisting("persist_transfers")
  /\ LET i == persisted + 1
         e == events[i]
         ts == results[i].timestamp
         amount == results[i].amount
         failure == IF Intact(i) THEN TransferPanic(e, ts, amount) ELSE "none"
     IN \/ failure # "none" /\ Stop(failure)
        \/ /\ failure = "none"
           /\ IF Intact(i)
              THEN /\ store' = ApplyTransfer(store, e, ts, amount)
                   /\ logged' = logged \cup {ts}
                   /\ pulse_next_timestamp' = NextPulse(store', e, ts)
              ELSE UNCHANGED <<store, logged, pulse_next_timestamp>>
           /\ persisted' = persisted + 1
           /\ UNCHANGED <<cache, saved, orphaned, commit_timestamp, events, results, chain,
                          chain_broken, key_max, due, op, timestamp, panic, ops>>

\* set_commit_timestamp
Finish ==
  /\ \/ op \in {"persist_accounts", "persist_transfers"} /\ persisted = Len(events)
     \/ op = "expire" /\ due = {}
  /\ panic = "none"
  /\ op' = "idle" /\ commit_timestamp' = timestamp
  /\ events' = <<>> /\ results' = <<>> /\ persisted' = 0 /\ key_max' = 0
  /\ pulse_next_timestamp' = IF op = "expire" THEN SoonestExpiry(store) ELSE pulse_next_timestamp
  /\ UNCHANGED <<stores, chain, chain_broken, due, timestamp, panic, ops>>

-----------------------------------------------------------------------------
(* expire_pending_transfers *)

\* pulse_needed, and the pending transfers that are due
Pulse ==
  /\ op = "idle" /\ panic = "none" /\ ops < MaxOps
  /\ timestamp' \in Timestamps
  /\ pulse_next_timestamp <= timestamp'
  /\ due' = {i \in Expiring(store) : ExpiresAt(store.transfers[i]) <= timestamp'}
  /\ op' = "expire"
  /\ ops' = ops + 1
  /\ UNCHANGED <<stores, clock, events, results, chain, chain_broken, key_max, persisted, panic>>

\* The next in the order of the expires_at index.
FirstDue(i) ==
  \A j \in due \ {i} :
    LET p == store.transfers[i]
        q == store.transfers[j]
    IN \/ ExpiresAt(p) < ExpiresAt(q)
       \/ ExpiresAt(p) = ExpiresAt(q) /\ p.timestamp < q.timestamp

ExpirePanic(p, ts) ==
  IF ~(commit_timestamp < ts) THEN "expiry_before_commit"
  ELSE IF ~(ExpiresAt(p) <= ts) THEN "expiry_too_early"
  ELSE IF \/ store.accounts[p.dr].debits_pending < p.amount
          \/ store.accounts[p.cr].credits_pending < p.amount THEN "expiry_without_hold"
  ELSE IF \/ "closing_debit" \in p.flags /\ ~Closed(store.accounts[p.dr])
          \/ "closing_credit" \in p.flags /\ ~Closed(store.accounts[p.cr]) THEN "expiry_of_open_account"
  ELSE IF ts \in logged THEN "two_account_events_share"
  ELSE "none"

Expire(i) ==
  /\ op = "expire" /\ panic = "none" /\ i \in due /\ FirstDue(i)
  /\ LET p  == store.transfers[i]
         ts == timestamp - Cardinality(due) + 1
         failure == ExpirePanic(p, ts)
     IN \/ failure # "none" /\ Stop(failure)
        \/ /\ failure = "none"
           /\ store' = Lapsed(store, i)
           /\ logged' = logged \cup {ts}
           /\ commit_timestamp' = ts
           /\ due' = due \ {i}
           /\ UNCHANGED <<cache, saved, orphaned, pulse_next_timestamp, events, results, chain,
                          chain_broken, key_max, persisted, op, timestamp, panic, ops>>

-----------------------------------------------------------------------------

Next ==
  \/ \E batch \in AccountBatches : CreateAccounts(batch)
  \/ \E batch \in TransferBatches : CreateTransfers(batch)
  \/ ExecuteAccount \/ ExecuteTransfer \/ Persist
  \/ PersistAccount \/ PersistTransfer \/ Finish
  \/ Pulse \/ \E i \in Ids : Expire(i)

Spec == Init /\ [][Next]_vars

-----------------------------------------------------------------------------
(* Properties *)

Databases ==
  [accounts : [Accounts -> AccountRows \cup {None}],
   transfers : [Ids -> TransferRows \cup {None}],
   pending : [Ids -> Status \cup {None}]]

DbOK(db) ==
  /\ db \in Databases
  /\ \A i \in Stored(db.transfers) :
       LET t == db.transfers[i] IN
       /\ {t.dr, t.cr} \subseteq Stored(db.accounts) /\ t.dr # t.cr
       /\ t.pending_id # None => t.pending_id \in Stored(db.transfers)
       /\ db.pending[i] \in (IF IsPending(t) THEN Status ELSE {None})
  /\ \A i \in Ids \ Stored(db.transfers) : db.pending[i] = None

\* TypeOK: the stores and the caches hold well-formed records that refer to each
\* other, and the locals of the loop keep their types.
TypeOK ==
  /\ DbOK(store) /\ DbOK(cache) /\ DbOK(saved.db)
  /\ orphaned \subseteq Ids /\ due \subseteq Ids
  /\ logged \subseteq 1 .. TimestampMax
  /\ op \in Ops /\ timestamp \in 0 .. TimestampMax
  /\ pulse_next_timestamp \in 1 .. TimestampMax
  /\ chain \in 0 .. Len(results) /\ persisted \in 0 .. Len(results)
  /\ ops \in 0 .. MaxOps

\* The amounts of the transfers S, the holds, and the transfers that were posted.
Total(t, S) == MapThenSumSet(LAMBDA i : t[i].amount, S)
Held(db)    == {i \in Stored(db.transfers) : db.pending[i] = "Pending"}
Posted(db)  == {i \in Stored(db.transfers) : ~IsPending(db.transfers[i]) /\ ~IsVoid(db.transfers[i])}

Debiting(db, S, a)  == {i \in S : db.transfers[i].dr = a}
Crediting(db, S, a) == {i \in S : db.transfers[i].cr = a}

BalancesAre(db) ==
  \A a \in Stored(db.accounts) :
    LET account == db.accounts[a] IN
    /\ account.debits_pending  = Total(db.transfers, Debiting(db, Held(db), a))
    /\ account.credits_pending = Total(db.transfers, Crediting(db, Held(db), a))
    /\ account.debits_posted   = Total(db.transfers, Debiting(db, Posted(db), a))
    /\ account.credits_posted  = Total(db.transfers, Crediting(db, Posted(db), a))

\* BalancesAreHistory: the four balances of an account are the sums of the
\* transfers stored for it: holds that are still pending, and what was posted.
BalancesAreHistory == BalancesAre(store)

Limited(account) ==
  LET debits  == account.debits_pending + account.debits_posted
      credits == account.credits_pending + account.credits_posted
  IN /\ "debits_must_not_exceed_credits" \in account.flags => debits <= account.credits_posted
     /\ "credits_must_not_exceed_debits" \in account.flags => credits <= account.debits_posted

\* LimitsHold: a limited account is never overdrawn, by any order of holds,
\* posts, voids, expiries and balancing transfers, or by wrapping.
LimitsHold == \A a \in Stored(store.accounts) : Limited(store.accounts[a])

Resolutions(db, i) == {j \in Stored(db.transfers) : db.transfers[j].pending_id = i}

ResolvedOnceIn(db) ==
  \A i \in Ids :
    /\ \A j, k \in Resolutions(db, i) : j = k
    /\ \A j \in Resolutions(db, i) :
         db.pending[i] = IF IsPost(db.transfers[j]) THEN "Posted" ELSE "Voided"
    /\ db.pending[i] \in {"Posted", "Voided"} => Resolutions(db, i) # {}

\* No two holds share a timestamp, and so a row.
SeparateHolds(db) ==
  \A i, j \in Stored(db.transfers) :
    /\ IsPending(db.transfers[i]) /\ IsPending(db.transfers[j])
    /\ db.transfers[i].timestamp = db.transfers[j].timestamp
    => i = j

\* ResolvedOnce: a pending transfer is posted, voided or expired at most once,
\* within a batch, within a chain that is rolled back, and across batches.  In
\* the caches that is so until a hold takes the timestamp, and with it the row,
\* of another, which persist then finds.
ResolvedOnce ==
  ResolvedOnceIn(store) /\ (SeparateHolds(cache) => ResolvedOnceIn(cache))

\* HistoryOnlyGrows: a stored transfer is never changed, and an id that failed
\* for a transient reason is not created by an operation after that.
HistoryOnlyGrows ==
  [][/\ \A i \in Stored(store.transfers) : store'.transfers[i] = store.transfers[i]
     /\ \A i \in orphaned \ Stored(cache.transfers) : cache'.transfers[i] = None]_vars

\* CachesAgree: what execution decided in the scopes of the caches is what the
\* persist walk, which only sees the results, wrote to the stores.
CachesAgree ==
  [][(op \in {"persist_accounts", "persist_transfers"} /\ op' = "idle") => cache = store]_vars

\* ChainsAreAtomic: when a batch has been executed, the members of a linked chain
\* are all answered as created and in the caches, or none of them is, and the
\* caches have gained nothing else.  CachesAgree says that this is stored.
ChainsAreAtomic ==
  [][(op = "create_transfers" /\ op' = "persist_transfers") =>
       LET created(k) == results[k].status = "Created"
           new(id) == cache.transfers[id] # None /\ store.transfers[id] = None
       IN /\ \A i \in DOMAIN events :
               \/ \A k \in ChainOf(i) : created(k) /\ new(events[k].id)
               \/ \A k \in ChainOf(i) : ~created(k)
          /\ \A id \in Ids : new(id) => \E k \in DOMAIN events : events[k].id = id /\ created(k)]_vars

\* NoExpiryIsMissed: between operations the pulse is never set past the expiry of
\* a transfer that is still pending.
NoExpiryIsMissed ==
  op = "idle" => \A i \in Expiring(store) : pulse_next_timestamp <= ExpiresAt(store.transfers[i])

\* The operation has a timestamp of its own for each of its events.
Spaced == commit_timestamp + (IF op = "expire" THEN Cardinality(due) ELSE Len(events)) <= timestamp

\* AssertionsHold: no assertion fails on what the transfers do to the accounts and
\* to each other (a status advances once, holds are there, closed accounts are
\* closed), but for a post or void that finds the row of another hold.  What may
\* fail are assertions on timestamps, most of them only in an operation that is
\* less than one timestamp per event after the one before.
AssertionsHold ==
  \/ panic \in {"none", "imported_after_event", "resolved_before_hold",
               "expiry_too_early", "two_account_events_share"}
  \/ /\ panic \in {"timestamp_underflow", "account_after_transfer", "two_accounts_share",
                   "two_transfers_share", "expiry_before_commit"}
     /\ ~Spaced
  \/ panic = "post_or_void" /\ ~SeparateHolds(cache)
=============================================================================
