-------------------------- MODULE DurableRegister --------------------------
(***************************************************************************)
(* What the superblock promises to the replica: a register that survives   *)
(* crashes.  A state that was acknowledged, or that an open returned, is   *)
(* never lost; the update a crash interrupted took place or did not, and   *)
(* the next open decides which.                                            *)
(***************************************************************************)
EXTENDS Sequences

CONSTANT States

VARIABLES stable,   \* every state the register held, up to the last one acknowledged
          pending,  \* stable and the state being written, or stable itself
          up        \* the register is open

Init == stable = <<>> /\ pending = <<>> /\ up = FALSE

Update(s) == /\ pending = stable
             /\ pending' = Append(stable, s)
             /\ UNCHANGED <<stable, up>>

Acknowledge == /\ pending # stable
               /\ stable' = pending
               /\ UNCHANGED <<pending, up>>

\* The operation that completes starts the one queued behind it.
AcknowledgeAndUpdate(s) == /\ pending # stable
                           /\ stable' = pending
                           /\ pending' = Append(pending, s)
                           /\ UNCHANGED up

Crash == up' = FALSE /\ UNCHANGED <<stable, pending>>

Recover == /\ ~up
           /\ stable' \in {stable, pending}
           /\ pending' = stable'
           /\ up' = TRUE

Next == \/ \E s \in States : Update(s) \/ AcknowledgeAndUpdate(s)
        \/ Acknowledge \/ Crash \/ Recover

Spec == Init /\ [][Next]_<<stable, pending, up>>
=============================================================================
