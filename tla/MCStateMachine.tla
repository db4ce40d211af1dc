--------------------------- MODULE MCStateMachine ---------------------------
(* The requests of the instances: accounts a, which may not be overdrawn,  *)
(* and b, transfers between them, and an account c that nobody opens.      *)
EXTENDS StateMachine

CONSTANTS a, b, c

Opens(id, flags) == [id |-> id, flags |-> flags, timestamp |-> 0]

Moves(id, amount, timeout, flags) ==
  [id |-> id, dr |-> a, cr |-> b, amount |-> amount, flags |-> flags,
   pending_id |-> None, timeout |-> timeout, timestamp |-> 0]

Back(e) == [e EXCEPT !.dr = e.cr, !.cr = e.dr]

Resolves(id, pending, amount, flags) ==
  [id |-> id, dr |-> None, cr |-> None, amount |-> amount, flags |-> flags,
   pending_id |-> pending, timeout |-> 0, timestamp |-> 0]

Link(e)   == [e EXCEPT !.flags = @ \cup {"linked"}]
At(e, ts) == [e EXCEPT !.flags = @ \cup {"imported"}, !.timestamp = ts]

Capped == {"debits_must_not_exceed_credits"}

\* In the second the chain fails, and what it opened is taken back.
Openings == {<<Link(Opens(a, Capped)), Opens(b, {})>>,
             <<Link(Opens(b, {})), Opens(b, {"history"}), Opens(a, Capped)>>}

\* One account, and both without a chain.
OneByOne == {<<Opens(b, {})>>, <<Opens(a, Capped), Opens(b, {})>>}

\* Requests of one event: a deposit, a hold that expires, one that closes its
\* account, posts and voids, and a transfer of what is left.
SingleTransfers ==
  {<<e>> : e \in {
     Back(Moves(1, 2, 0, {})), [Moves(1, 2, 0, {}) EXCEPT !.dr = c],
     Moves(2, 1, 3, {"pending"}), Moves(3, 1, 2, {"pending", "closing_debit"}),
     Resolves(4, 2, 1, {"post_pending_transfer"}), Resolves(4, 3, 0, {"void_pending_transfer"}),
     Resolves(5, 2, 0, {"void_pending_transfer"}), Resolves(5, 2, 0, {"post_pending_transfer"}),
     Moves(5, 3, 0, {"balancing_debit"}), At(Back(Moves(5, 1, 0, {})), 7)}}

\* Requests of several events: a hold that closes its account and is voided in the
\* same batch, a deposit and a hold of it, a hold and a void of another one, and
\* imported transfers, of which some may be ahead of their place.
Batches ==
  SingleTransfers \cup
  {<<Moves(3, 1, 2, {"pending", "closing_debit"}), Resolves(4, 3, 0, {"void_pending_transfer"})>>,
   <<Back(Moves(1, 2, 0, {})), Moves(2, 1, 3, {"pending"})>>,
   <<Moves(2, 1, 0, {"pending"}), Resolves(5, 3, 0, {"void_pending_transfer"}), Back(Moves(1, 2, 0, {}))>>,
   <<At(Back(Moves(1, 1, 0, {})), 5), At(Moves(2, 1, 0, {"pending"}), 6), At(Back(Moves(5, 1, 0, {})), 7)>>}

\* Requests of several events, most of them linked.
ChainEvents ==
  {Back(Moves(1, 2, 0, {})), Moves(2, 1, 3, {"pending"}), Moves(3, 3, 0, {}),
   Resolves(3, 2, AmountMax, {"post_pending_transfer"}),
   Resolves(4, 2, 0, {"void_pending_transfer"})}

ChainedTransfers ==
  {<<x, y>> : x \in ChainEvents \cup {Link(e) : e \in ChainEvents}, y \in ChainEvents}
  \cup {<<Link(x), Link(y), z>> : x, y, z \in ChainEvents}
  \cup {<<At(Link(Moves(1, 1, 0, {"pending"})), 3), At(Resolves(4, 1, 0, {"void_pending_transfer"}), 4)>>}
=============================================================================
