----------------------------- MODULE SuperBlock -----------------------------
(***************************************************************************)
(* The superblock (superblock.rs, superblock_quorums.rs) and the replica's *)
(* use of it (view_durable_update, drive_superblock, the checkpoint        *)
(* stage).  A header is stored in Copies slots, written one after another  *)
(* in place and read back; open() chooses the working header by quorum and *)
(* repairs the other slots.                                                *)
(*                                                                         *)
(* A header carries its sequence, its VSRState and the checksum of its     *)
(* parent, so that its own checksum identifies all its ancestors: here it  *)
(* is the sequence of their states.                                        *)
(***************************************************************************)
EXTENDS Integers, SequencesExt

CONSTANTS Copies,                  \* SUPERBLOCK_COPIES
          Faulty,                  \* a slot without a valid header
          Idle,                    \* no operation
          None,                    \* no copy of the working header in a slot
          MaxView, MaxCheckpoint,  \* bounds of the replica's views and checkpoints
          MaxCrashes,              \* bound of the crashes
          MaxFaults                \* bound of the lost and misdirected writes and decayed sectors

ASSUME CopiesAssumption == Copies \in {4, 6, 8}

ASSUME BoundsAssumption == {MaxView, MaxCheckpoint, MaxCrashes, MaxFaults} \subseteq Nat

Slots == 0 .. Copies - 1

\* The copy index is not protected by the checksum: Copies stands for any
\* index out of bounds.
CopyIndexes == 0 .. Copies

VARIABLES disk,      \* what each slot of the superblock zone holds
          bad,       \* the slots that do not hold what was last written to them
          sb,        \* the SuperBlock in memory
          view, log_view,  \* the replica's
          stable, pending, \* the promises made: see DurableRegister
          crashes, faults  \* how many there have been

vars == <<disk, bad, sb, view, log_view, stable, pending, crashes, faults>>

\* VSRState
States == [view : 0 .. MaxView, log_view : 0 .. MaxView, op : 0 .. MaxCheckpoint]

\* What a slot and the memory may hold: see SuperBlock below.
Headers    == [chain : Seq(States) \ {<<>>}, copy : CopyIndexes]
Disks      == [Slots -> Headers \cup {Faulty}]
Operations == {"format", "open", "checkpoint", "view_change"}
Requests   == [caller : Operations, state : States]
Steps      == [caller : Operations, state : States, phase : {"open", "verify", "write", "repair"},
               copy : Slots, slots : [Slots -> Slots \cup {None}]]
Memories   == [opened : BOOLEAN, panicked : BOOLEAN, working : Seq(States), staging : Seq(States),
               head : Steps \cup {Idle}, tail : Requests \cup {Idle}, reading : Disks]

ASSUME DistinctAssumption ==
  Faulty \notin Headers /\ Idle \notin Requests \cup Steps /\ None \notin Slots

-----------------------------------------------------------------------------
(* VSRState *)

Root == [view |-> 0, log_view |-> 0, op |-> 0]

Monotonic(old, new) ==
  old.op <= new.op /\ old.view <= new.view /\ old.log_view <= new.log_view

WouldBeUpdatedBy(old, new) == Monotonic(old, new) /\ old # new

-----------------------------------------------------------------------------
(* SuperBlockQuorums: r is what was read from the slots *)

\* (a mutation: open() asks for the quorum of verify)
OneThreshold(t) == Copies \div 2 + 1

Threshold(t) == IF t = "verify" THEN Copies \div 2 + 1 ELSE Copies \div 2

Holders(r, c) == {s \in Slots : r[s] # Faulty /\ r[s].chain = c}

\* An index out of bounds is taken for a corrupt index of a copy in its place.
CopyOf(r, s) == IF r[s].copy \in Slots THEN r[s].copy ELSE s

CopiesOf(r, c) == {CopyOf(r, s) : s \in Holders(r, c)}

\* count_copy: a copy that was counted in an earlier slot is ignored.
SlotsOf(r, c) ==
  [s \in Slots |->
     IF s \in Holders(r, c)
        /\ (r[s].copy \in Slots =>
              \A e \in Holders(r, c) : e < s => CopyOf(r, e) # CopyOf(r, s))
     THEN CopyOf(r, s) ELSE None]

Found(r)       == {r[s].chain : s \in {e \in Slots : r[e] # Faulty}}
Valid(r, t, c) == Cardinality(CopiesOf(r, c)) >= Threshold(t)

\* sort_priority_descending, up to the order of the checksums
Precedes(r, t, c, d) ==
  \/ Valid(r, t, c) /\ ~Valid(r, t, d)
  \/ /\ Valid(r, t, c) <=> Valid(r, t, d)
     /\ \/ Len(c) > Len(d)
        \/ Len(c) = Len(d) /\ Cardinality(CopiesOf(r, c)) >= Cardinality(CopiesOf(r, d))

First(r, t, C) == {c \in C : \A d \in C : Precedes(r, t, c, d)}

\* The other headers that decide whether b is safe to use.
Rivals(r, b) == {c \in Found(r) \ {b} : Len(c) >= Len(b) - 1 /\ Len(c) # Len(b) + 1}

\* Fork, ParentSkipped, ParentNotConnected or VSRStateNotMonotonic
Conflict(a, b) == Len(a) >= Len(b) \/ a # Front(b) \/ ~Monotonic(Last(a), Last(b))

NoQuorum == <<>>

\* working: the header to use, NoQuorum when working fails.  Only the first
\* rival is looked at.
Working(r, t) ==
  LET usable == {b \in First(r, t, Found(r)) :
                   /\ Valid(r, t, b)
                   /\ \A a \in First(r, t, Rivals(r, b)) : ~Conflict(a, b)}
  IN IF usable = {} THEN {NoQuorum} ELSE usable

\* (a mutation: open() does not repair)
RepairsNothing(slots) == None

\* RepairIterator.next_slot
NextRepair(slots) ==
  LET present == {slots[s] : s \in Slots}
      absent  == {s \in Slots : slots[s] = None /\ s \notin present}
      moved   == {s \in Slots : slots[s] = None /\ s \in present}
      double  == {s \in Slots : /\ slots[s] \notin {None, s}
                                /\ \E e \in Slots \ {s} : slots[e] = slots[s]}
  IN IF absent # {} THEN Max(absent)
     ELSE IF moved # {} THEN Max(moved)
     ELSE IF double # {} THEN Max(double)
     ELSE None

-----------------------------------------------------------------------------
(* SuperBlock: the memory of one process.  An operation of the queue is     *)
(* [caller, state]; the head also has the slot it is at, whether it writes  *)
(* or reads it, and the repairs that open() has planned.                    *)

Closed == [opened |-> FALSE, panicked |-> FALSE, working |-> <<>>, staging |-> <<>>,
           head |-> Idle, tail |-> Idle, reading |-> [s \in Slots |-> Faulty]]

Operation(caller, state) == [caller |-> caller, state |-> state]

Step(op, phase, copy, slots) ==
  [caller |-> op.caller, state |-> op.state, phase |-> phase, copy |-> copy, slots |-> slots]

NoSlots == [s \in Slots |-> None]

Panic(m, ok) == [m EXCEPT !.panicked = @ \/ ~ok]

\* read_working
Read(m, op, phase) ==
  [m EXCEPT !.head = Step(op, phase, 0, NoSlots), !.reading = [s \in Slots |-> Faulty]]

\* acquire and write_staging.  The state of a queued operation was computed
\* when it was queued.
Start(m, op) ==
  IF op.caller = "open" THEN Read(m, op, "open")
  ELSE [m EXCEPT !.staging = Append(m.working, op.state),
                 !.head = Step(op, "write", 0, NoSlots)]

Acquire(m, op) ==
  IF m.head = Idle THEN Start(m, op)
  ELSE [Panic(m, m.tail = Idle /\ {m.head.caller, op.caller} = {"checkpoint", "view_change"})
          EXCEPT !.tail = op]

Updating(m, caller) == \/ m.head # Idle /\ m.head.caller = caller
                       \/ m.tail # Idle /\ m.tail.caller = caller

\* (a mutation: the two views are swapped)
SwapsViews(m, v, l) ==
  IF Updating(m, "view_change") THEN m
  ELSE Acquire(m, Operation("view_change", [Last(m.staging) EXCEPT !.view = l, !.log_view = v]))

\* view_durable_update and view_change
ViewDurableUpdate(m, v, l) ==
  IF Updating(m, "view_change") THEN m
  ELSE LET state == [Last(m.staging) EXCEPT !.view = v, !.log_view = l]
       IN Acquire(Panic(m, WouldBeUpdatedBy(Last(m.staging), state)),
                  Operation("view_change", state))

\* (a mutation: the state of a checkpoint is computed from what is durable)
CheckpointsWorking(m, o) ==
  Acquire(m, Operation("checkpoint", [Last(m.working) EXCEPT !.op = o]))

\* commit_checkpoint_superblock and checkpoint
CheckpointUpdate(m, o) ==
  LET state == [Last(m.staging) EXCEPT !.op = o]
  IN Acquire(Panic(m, WouldBeUpdatedBy(Last(m.staging), state)),
             Operation("checkpoint", state))

\* (a mutation: drive_superblock does not look whether the replica moved on)
ReleasesOnly(m, v, l) ==
  LET free == [m EXCEPT !.head = Idle, !.tail = Idle, !.opened = @ \/ m.head.caller = "open"]
  IN IF m.tail = Idle THEN free ELSE Start(free, m.tail)

\* release, and drive_superblock on the event: a view change that the replica
\* has outrun meanwhile is followed by another one.
Release(m, v, l) ==
  LET caller == m.head.caller
      free   == [m EXCEPT !.head = Idle, !.tail = Idle, !.opened = @ \/ caller = "open"]
      next   == IF m.tail = Idle THEN free ELSE Start(free, m.tail)
      durable == Last(m.working)
  IN IF caller = "view_change" /\ (l > durable.log_view \/ v > durable.view)
     THEN ViewDurableUpdate(next, v, l) ELSE next

\* repair: next_slot also marks the slot it returns as repaired.
Repair(m, slots, v, l) ==
  LET s == NextRepair(slots) IN
  IF s = None THEN Release(m, v, l)
  ELSE [m EXCEPT !.staging = m.working,
                 !.head = Step(m.head, "repair", s, [slots EXCEPT ![s] = s])]

\* (a mutation: the staging header is not reset to the one that was found)
KeepsStaging(m, w, v, l) ==
  LET n == [m EXCEPT !.working = w]
  IN IF m.head.phase = "open" THEN Repair(n, SlotsOf(m.reading, w), v, l)
     ELSE Release(n, v, l)

\* read_working_done: w is the header of the quorum among what was read.
Decide(m, w, v, l) ==
  LET n == [m EXCEPT !.working = w, !.staging = w]
  IN IF w = NoQuorum \/ (m.head.phase = "verify" /\ w # m.staging) THEN Panic(m, FALSE)
     ELSE IF m.head.phase = "open" THEN Repair(n, SlotsOf(m.reading, w), v, l)
     ELSE Release(n, v, l)

\* poll_write
WriteDone(m, v, l) ==
  IF m.head.phase = "repair" THEN Repair(m, m.head.slots, v, l)
  ELSE IF m.head.copy + 1 = Copies THEN Read(m, m.head, "verify")
  ELSE [m EXCEPT !.head.copy = @ + 1]

-----------------------------------------------------------------------------
(* The data file *)

Writing == sb.head # Idle /\ sb.head.phase \in {"write", "repair"}

Written == [chain |-> sb.staging, copy |-> sb.head.copy]

\* The faults that the quorums are made for: one slot at a time.
MayFail(B) == bad \subseteq B

Init ==
  /\ disk = [s \in Slots |-> Faulty]
  /\ bad = {}
  /\ sb = Closed
  /\ view = 0 /\ log_view = 0
  /\ stable = <<>> /\ pending = <<>>
  /\ crashes = 0 /\ faults = 0

\* The caller may rely on what working says from here on.
Promise(m) == IF m.opened \/ (sb.head # Idle /\ sb.head.caller = "format")
              THEN stable' = m.working /\ pending' = m.staging
              ELSE UNCHANGED <<stable, pending>>

\* The replica that opens the superblock starts in the views it finds there.
Mount(m) == IF m.opened /\ ~sb.opened
            THEN view' = Last(m.working).view /\ log_view' = Last(m.working).log_view
            ELSE UNCHANGED <<view, log_view>>

\* format: in a data file of its own.
Format ==
  /\ stable = <<>> /\ sb = Closed
  /\ sb' = Start(Closed, Operation("format", Root))
  /\ disk' = [s \in Slots |-> Faulty]
  /\ bad' = {}
  /\ pending' = <<Root>>
  /\ UNCHANGED <<view, log_view, stable, crashes, faults>>

Open ==
  /\ stable # <<>> /\ ~sb.opened /\ sb.head = Idle
  /\ sb' = Acquire(sb, Operation("open", Root))
  /\ UNCHANGED <<disk, bad, view, log_view, stable, pending, crashes, faults>>

\* transition_to_view_change_status
EnterView ==
  /\ sb.opened /\ view < MaxView
  /\ view' = view + 1
  /\ sb' = ViewDurableUpdate(sb, view', log_view)
  /\ Promise(sb')
  /\ UNCHANGED <<disk, bad, log_view, crashes, faults>>

\* transition_to_normal_from_view_change_status
EstablishView ==
  /\ sb.opened /\ log_view < view
  /\ log_view' = view
  /\ sb' = ViewDurableUpdate(sb, view, log_view')
  /\ Promise(sb')
  /\ UNCHANGED <<disk, bad, view, crashes, faults>>

\* The commit pipeline waits for one checkpoint before it reaches the next.
Checkpoint ==
  /\ sb.opened /\ ~Updating(sb, "checkpoint") /\ Last(sb.staging).op < MaxCheckpoint
  /\ sb' = CheckpointUpdate(sb, Last(sb.staging).op + 1)
  /\ Promise(sb')
  /\ UNCHANGED <<disk, bad, view, log_view, crashes, faults>>

ReadCompletes ==
  /\ sb.head # Idle /\ ~Writing
  /\ \E m \in {[sb EXCEPT !.reading[sb.head.copy] = disk[sb.head.copy]]} :
       IF m.head.copy + 1 < Copies THEN sb' = [m EXCEPT !.head.copy = @ + 1]
       ELSE \E w \in Working(m.reading, m.head.phase) : sb' = Decide(m, w, view, log_view)
  /\ Promise(sb') /\ Mount(sb')
  /\ UNCHANGED <<disk, bad, crashes, faults>>

WriteCompletes ==
  /\ Writing
  /\ sb' = WriteDone(sb, view, log_view)
  /\ Promise(sb') /\ Mount(sb')
  /\ UNCHANGED crashes

WriteLands ==
  /\ WriteCompletes
  /\ disk' = [disk EXCEPT ![sb.head.copy] = Written]
  /\ bad' = bad \ {sb.head.copy}
  /\ UNCHANGED faults

\* The write is lost, or lands in slot s.
WriteGoesAstray(s) ==
  /\ WriteCompletes
  /\ faults < MaxFaults /\ MayFail({s, sb.head.copy})
  /\ disk' = IF s = sb.head.copy THEN disk ELSE [disk EXCEPT ![s] = Written]
  /\ bad' = {s, sb.head.copy}
  /\ faults' = faults + 1

\* A sector can no longer be read, or its copy index is corrupted.
Decay(s) ==
  /\ faults < MaxFaults /\ MayFail({s}) /\ disk[s] # Faulty
  /\ \/ disk' = [disk EXCEPT ![s] = Faulty]
     \/ \E i \in CopyIndexes : disk' = [disk EXCEPT ![s].copy = i]
  /\ bad' = {s}
  /\ faults' = faults + 1
  /\ UNCHANGED <<sb, view, log_view, stable, pending, crashes>>

\* The write in flight took place or did not, or it is torn.
Crash ==
  /\ sb # Closed /\ crashes < MaxCrashes
  /\ \/ UNCHANGED <<disk, bad>>
     \/ /\ Writing
        /\ disk' = [disk EXCEPT ![sb.head.copy] = Written]
        /\ bad' = bad \ {sb.head.copy}
     \/ /\ Writing /\ MayFail({sb.head.copy})
        /\ disk' = [disk EXCEPT ![sb.head.copy] = Faulty]
        /\ bad' = {sb.head.copy}
  /\ sb' = Closed
  /\ view' = 0 /\ log_view' = 0
  /\ crashes' = crashes + 1
  /\ UNCHANGED <<stable, pending, faults>>

Io == ReadCompletes \/ WriteLands

Next ==
  \/ Format \/ Open \/ EnterView \/ EstablishView \/ Checkpoint
  \/ ReadCompletes \/ WriteLands \/ Crash
  \/ \E s \in Slots : WriteGoesAstray(s) \/ Decay(s)

\* The storage completes every I/O, and a process that crashed is started again.
Spec == Init /\ [][Next]_vars /\ WF_vars(Io) /\ WF_vars(Open) /\ WF_vars(Format)

-----------------------------------------------------------------------------
(* Properties *)

\* TypeOK: the type invariant of the superblock, its data file and its caller.
TypeOK ==
  /\ disk \in Disks /\ bad \subseteq Slots
  /\ sb \in Memories
  /\ stable \in Seq(States) /\ pending \in Seq(States)
  /\ view \in 0 .. MaxView /\ log_view \in 0 .. view
  /\ crashes \in 0 .. MaxCrashes /\ faults \in 0 .. MaxFaults

\* NeverPanics: whatever one faulty slot and any crash leave behind, no read of
\* the slots ends in a quorum error or a failed verification, and no update is
\* refused by the asserts of view_change, checkpoint and acquire.
NeverPanics == ~sb.panicked

\* AlwaysRecoverable: at every instant, between any two writes, a crash would
\* find a superblock that opens to the last state promised or to the one
\* being written.
AlwaysRecoverable ==
  stable # <<>> => Working(disk, "open") \subseteq {stable, pending}

\* Durable: the superblock implements the durable register.
Register == INSTANCE DurableRegister WITH up <- sb.opened
Durable  == Register!Spec

\* NoUpdateIsUndone: what view changes and checkpoints made durable stays,
\* though the two queue behind each other and overlap with crashes.
NoUpdateIsUndone == [][stable # <<>> => Monotonic(Last(stable), Last(stable'))]_stable

\* ViewsBecomeDurable: a replica that does not crash makes the views it is in
\* durable, though it may move on while an update is in flight.
ViewsBecomeDurable ==
  \A v \in 1 .. MaxView, l \in 0 .. MaxView :
    (sb.opened /\ view = v /\ log_view = l)
      ~> (sb.opened => Last(sb.working).view >= v /\ Last(sb.working).log_view >= l)
=============================================================================
