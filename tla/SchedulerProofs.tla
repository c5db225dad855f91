--------------------------- MODULE SchedulerProofs ---------------------------
(***************************************************************************)
(* Proofs about module Scheduler, for every tick bound, sequence bound, S5 *)
(* limit and payload set.                                                  *)
(*                                                                         *)
(* None of the invariants is inductive alone: `restore` installs the saved *)
(* snapshot, so they must hold of that snapshot too, and S5 counts only    *)
(* the current (tick, phase), so the bound on every (tick, phase) needs    *)
(* the order in which phases were left.  Sound(s) collects what holds of a *)
(* scheduler state and its history, and IInv says it of the scheduler and  *)
(* of the snapshot kept outside it, which is moreover an ancestor of the   *)
(* current state: its history is part of the current one.                  *)
(***************************************************************************)
EXTENDS Scheduler, FiniteSetTheorems, TLAPS

Slotmates(s, e) == {f \in s.dispatched : SameSlot(e, f)}

\* Sequence numbers: assigned, unique over the whole history.
SoundSequences(s) ==
  /\ \A e \in s.dispatched \cup s.queue :
       e.sequence < s.next_sequence /\ e.phase # Observe
  /\ \A e, f \in s.dispatched \cup s.queue : e.sequence = f.sequence => e = f

\* The cursor is the last dispatched event, and pending events come after it.
SoundOrder(s) ==
  /\ s.last_dispatched = NoKey <=> s.dispatched = {}
  /\ s.last_dispatched # NoKey =>
       /\ \E e \in s.dispatched : KeyOf(e) = s.last_dispatched
       /\ \A f \in s.dispatched :
            KeyOf(f) = s.last_dispatched \/ KeyLess(f, s.last_dispatched)
  /\ \A e \in s.dispatched, f \in s.queue : KeyLess(e, f)

\* dispatched_in_phase counts the events of the cursor's (tick, phase).
SoundCount(s) ==
  /\ IsFiniteSet(s.dispatched)
  /\ CountOk(s)
  /\ s.last_dispatched # NoKey =>
       Cardinality(Slotmates(s, s.last_dispatched)) = s.dispatched_in_phase
  /\ \A e \in s.dispatched : Cardinality(Slotmates(s, e)) <= max_events_per_phase

Sound(s) ==
  s \in SnapshotType /\ SoundSequences(s) /\ SoundOrder(s) /\ SoundCount(s)

IInv ==
  /\ Sound(Snapshot)
  /\ saved = NoSnapshot \/ (Sound(saved) /\ saved.dispatched \subseteq dispatched)

-----------------------------------------------------------------------------
\* EventKey's order is transitive and irreflexive.
LEMMA KeyLessTransitive ==
  ASSUME NEW a, NEW b, NEW c,
         a.tick \in Nat, b.tick \in Nat, c.tick \in Nat,
         a.phase \in Phase, b.phase \in Phase, c.phase \in Phase,
         a.sequence \in Nat, b.sequence \in Nat, c.sequence \in Nat,
         KeyLess(a, b), KeyLess(b, c)
  PROVE  KeyLess(a, c)
  BY DEF KeyLess, Phase, Request, Observe

LEMMA KeyLessIrreflexive ==
  ASSUME NEW a, NEW b, a.tick \in Nat, b.tick \in Nat,
         a.phase \in Phase, b.phase \in Phase,
         a.sequence \in Nat, b.sequence \in Nat, KeyLess(a, b)
  PROVE  ~KeyLess(b, a) /\ KeyOf(a) # KeyOf(b)
  BY DEF KeyLess, KeyOf, Phase, Request, Observe

\* What KeyOf keeps: an event and its key occupy the same place in the order.
LEMMA KeyOfFields ==
  ASSUME NEW e \in Event
  PROVE  /\ KeyOf(e) \in EventKey
         /\ KeyOf(e) # NoKey
         /\ KeyOf(e).tick = e.tick
         /\ KeyOf(e).phase = e.phase
         /\ KeyOf(e).sequence = e.sequence
  BY NoKeyAssumption DEF KeyOf, Event, EventKey

-----------------------------------------------------------------------------
\* The empty scheduler of Scheduler::new is sound.
LEMMA InitSound == Init => IInv
<1> SUFFICES ASSUME Init PROVE IInv
  OBVIOUS
<1>1. Snapshot \in SnapshotType
  BY DEF Init, Snapshot, SnapshotType
<1>2. SoundSequences(Snapshot) /\ SoundOrder(Snapshot)
  BY DEF Init, Snapshot, SoundSequences, SoundOrder
<1>3. SoundCount(Snapshot)
  BY FS_EmptySet DEF Init, Snapshot, SoundCount, CountOk
<1> QED
  BY <1>1, <1>2, <1>3 DEF Init, IInv, Sound

\* `schedule` adds an event after the cursor under a fresh sequence number.
LEMMA ScheduleSound ==
  ASSUME Sound(Snapshot), NEW t \in Tick, NEW p \in Phase, NEW x \in Payload,
         Schedule(t, p, x)
  PROVE  Sound(Snapshot')
<1> DEFINE new == [tick |-> t, phase |-> p, sequence |-> next_sequence,
                   payload |-> x]
<1>0. /\ heap' = heap \cup {new} /\ next_sequence' = next_sequence + 1
      /\ last_dispatched' = last_dispatched
      /\ dispatched_in_phase' = dispatched_in_phase
      /\ dispatched' = dispatched
  BY DEF Schedule
<1>1. /\ last_dispatched \in EventKey \cup {NoKey} /\ next_sequence \in Nat
      /\ dispatched_in_phase \in Nat
      /\ heap \in SUBSET Event /\ dispatched \in SUBSET Event
  BY DEF Sound, Snapshot, SnapshotType
<1>2. new \in Event
  BY <1>1, BoundsAssumption DEF Tick, Event
<1>3. Snapshot' \in SnapshotType
  BY <1>0, <1>1, <1>2 DEF Snapshot, SnapshotType
<1>4. SoundSequences(Snapshot')
  <2>1. \A e \in dispatched \cup heap : e.sequence < next_sequence /\ e.phase # Observe
    BY DEF Sound, SoundSequences, Snapshot
  <2>2. \A e, f \in dispatched \cup heap : e.sequence = f.sequence => e = f
    BY DEF Sound, SoundSequences, Snapshot
  <2>3. p # Observe
    BY DEF Schedule, ScheduleOk, S3
  <2>4. \A e \in dispatched \cup heap : e.sequence \in Nat
    BY <1>1 DEF Event
  <2>5. new.sequence = next_sequence /\ new.phase = p
    OBVIOUS
  <2> HIDE DEF new
  <2>6. \A e \in dispatched' \cup heap' :
          e.sequence < next_sequence' /\ e.phase # Observe
    BY <1>0, <1>1, <2>1, <2>3, <2>4, <2>5
  <2>7. \A e, f \in dispatched' \cup heap' : e.sequence = f.sequence => e = f
    BY <1>0, <1>1, <2>1, <2>2, <2>4, <2>5
  <2> QED
    BY <2>6, <2>7 DEF SoundSequences, Snapshot
<1>5. SoundOrder(Snapshot')
  <2>1. SoundOrder(Snapshot)
    BY DEF Sound
  <2>2. ASSUME NEW e \in dispatched PROVE KeyLess(e, new)
    <3>1. last_dispatched # NoKey /\ last_dispatched \in EventKey
      BY <1>1, <2>1 DEF SoundOrder, Snapshot
    <3>2. e.sequence < next_sequence /\ e \in Event
      BY <1>1 DEF Sound, SoundSequences, Snapshot
    <3>3. PICK l \in dispatched : KeyOf(l) = last_dispatched
      BY <2>1, <3>1 DEF SoundOrder, Snapshot
    <3>4. last_dispatched.sequence < next_sequence
      BY <3>3, <1>1, KeyOfFields DEF Sound, SoundSequences, Snapshot
    <3>5. KeyOf(e) = last_dispatched \/ KeyLess(e, last_dispatched)
      BY <2>1, <3>1 DEF SoundOrder, Snapshot
    <3>6. t >= last_dispatched.tick
          /\ (t = last_dispatched.tick => p >= last_dispatched.phase)
      BY <3>1 DEF Schedule, ScheduleOk, S1, S2, now, phase
    <3>7. KeyLess(last_dispatched, new)
      BY <3>1, <3>4, <3>6, <1>1, BoundsAssumption
      DEF KeyLess, EventKey, Phase, Request, Observe, Tick
    <3>8. CASE KeyOf(e) = last_dispatched
      BY <3>2, <3>7, <3>8, KeyOfFields DEF KeyLess
    <3>9. CASE KeyLess(e, last_dispatched)
      BY <3>1, <3>2, <3>7, <3>9, <1>2, KeyLessTransitive DEF Event, EventKey
    <3> QED
      BY <3>5, <3>8, <3>9
  <2> QED
    BY <1>0, <2>1, <2>2 DEF SoundOrder, Snapshot
<1>6. SoundCount(Snapshot')
  BY <1>0 DEF Sound, SoundCount, Snapshot, CountOk, Slotmates
<1> QED
  BY <1>3, <1>4, <1>5, <1>6 DEF Sound

\* Dispatching the heap's minimum keeps the state sound: the cursor moves to it,
\* and the count of its (tick, phase) grows by one or restarts at one.
LEMMA PopSound ==
  ASSUME Sound(Snapshot), NEW e \in heap, Pop(e)
  PROVE  Sound(Snapshot')
<1>0. /\ heap' = heap \ {e} /\ next_sequence' = next_sequence
      /\ last_dispatched' = KeyOf(e)
      /\ dispatched_in_phase' = CountAfter(e)
      /\ dispatched' = dispatched \cup {e}
  BY DEF Pop
<1>1. /\ last_dispatched \in EventKey \cup {NoKey} /\ next_sequence \in Nat
      /\ dispatched_in_phase \in Nat
      /\ heap \in SUBSET Event /\ dispatched \in SUBSET Event
  BY DEF Sound, Snapshot, SnapshotType
<1>2. /\ e \in Event /\ KeyOf(e) \in EventKey /\ KeyOf(e) # NoKey
      /\ KeyOf(e).tick = e.tick /\ KeyOf(e).phase = e.phase
      /\ KeyOf(e).sequence = e.sequence
  BY <1>1, KeyOfFields
<1>3. Snapshot' \in SnapshotType
  BY <1>0, <1>1, <1>2 DEF Snapshot, SnapshotType, CountAfter
<1>4. SoundSequences(Snapshot')
  BY <1>0 DEF Sound, SoundSequences, Snapshot
<1>5. \A f \in dispatched : KeyLess(f, e)
  BY DEF Sound, SoundOrder, Snapshot
<1>6. SoundOrder(Snapshot')
  <2>1. \A f \in heap : f = e \/ KeyLess(e, f)
    BY DEF Pop, IsNext
  <2>2. \A d \in dispatched, f \in heap : KeyLess(d, f)
    BY DEF Sound, SoundOrder, Snapshot
  <2>3. \A f \in dispatched : KeyLess(f, KeyOf(e))
    BY <1>2, <1>5 DEF KeyLess
  <2> QED
    BY <1>0, <1>2, <2>1, <2>2, <2>3 DEF SoundOrder, Snapshot
<1>7. SoundCount(Snapshot')
  <2> DEFINE before == Slotmates(Snapshot, e)
             after == Slotmates(Snapshot', e)
  <2>1. IsFiniteSet(dispatched) /\ e \notin dispatched
    BY <1>5, <1>1, <1>2, KeyLessIrreflexive
    DEF Sound, SoundCount, Snapshot, Event
  <2>2. /\ IsFiniteSet(dispatched')
        /\ after = before \cup {e} /\ e \notin before /\ before \subseteq dispatched
    BY <1>0, <2>1, FS_AddElement DEF Slotmates, Snapshot, SameSlot
  <2>3. Cardinality(after) = Cardinality(before) + 1
        /\ Cardinality(before) \in Nat
    BY <2>1, <2>2, FS_AddElement, FS_Subset, FS_CardinalityType
  <2>4. Cardinality(before) + 1 = CountAfter(e)
    <3>1. CASE last_dispatched # NoKey /\ SameSlot(last_dispatched, e)
      <4>1. before = Slotmates(Snapshot, last_dispatched)
        BY <3>1 DEF Slotmates, SameSlot, Snapshot
      <4> QED
        BY <3>1, <4>1 DEF Sound, SoundCount, Snapshot, CountAfter
    <3>2. CASE last_dispatched = NoKey
      <4>1. before = {}
        BY <3>2 DEF Sound, SoundOrder, Snapshot, Slotmates
      <4> QED
        BY <3>2, <4>1, FS_EmptySet DEF CountAfter
    <3>3. CASE last_dispatched # NoKey /\ ~SameSlot(last_dispatched, e)
      <4>1. SUFFICES ASSUME NEW f \in before PROVE FALSE
        BY <3>3, FS_EmptySet DEF CountAfter
      <4>2. f \in dispatched /\ f \in Event /\ SameSlot(e, f)
        BY <1>1 DEF Slotmates, Snapshot
      <4>3. PICK l \in dispatched : KeyOf(l) = last_dispatched
        BY <3>3 DEF Sound, SoundOrder, Snapshot
      <4>4. l \in Event /\ KeyLess(l, e)
        BY <1>1, <1>5
      <4>5. last_dispatched.tick = l.tick /\ last_dispatched.phase = l.phase
        BY <4>3, <4>4, KeyOfFields
      <4>6. KeyOf(f) = last_dispatched \/ KeyLess(f, last_dispatched)
        BY <3>3, <4>2 DEF Sound, SoundOrder, Snapshot
      <4>7. ~SameSlot(l, e)
        BY <3>3, <4>5 DEF SameSlot
      <4>8. ~KeyLess(f, last_dispatched)
        BY <1>2, <4>2, <4>4, <4>5, <4>7
        DEF KeyLess, SameSlot, Event, Phase, Request, Observe
      <4>9. KeyOf(f) # last_dispatched
        BY <4>2, <4>5, <4>7, KeyOfFields DEF SameSlot
      <4> QED
        BY <4>6, <4>8, <4>9
    <3> QED
      BY <3>1, <3>2, <3>3
  <2>5. CountAfter(e) \in 1 .. max_events_per_phase
    BY <2>3, <2>4, LimitAssumption DEF Pop, S5
  <2>6. Slotmates(Snapshot', KeyOf(e)) = after
    BY <1>2 DEF Slotmates, SameSlot
  <2>7. ASSUME NEW f \in dispatched'
        PROVE  Cardinality(Slotmates(Snapshot', f)) <= max_events_per_phase
    <3>1. CASE SameSlot(f, e)
      <4>1. Slotmates(Snapshot', f) = after
        BY <3>1 DEF Slotmates, SameSlot
      <4> QED
        BY <2>3, <2>4, <2>5, <4>1
    <3>2. CASE ~SameSlot(f, e)
      <4>1. f \in dispatched
        BY <1>0, <3>2 DEF SameSlot
      <4>2. Slotmates(Snapshot', f) = Slotmates(Snapshot, f)
        BY <1>0, <3>2 DEF Slotmates, Snapshot
      <4> QED
        BY <4>1, <4>2 DEF Sound, SoundCount, Snapshot
    <3> QED
      BY <3>1, <3>2
  <2>8. /\ Snapshot'.last_dispatched = KeyOf(e)
        /\ Snapshot'.dispatched_in_phase = CountAfter(e)
        /\ Snapshot'.dispatched = dispatched'
    BY <1>0 DEF Snapshot
  <2>9. Cardinality(Slotmates(Snapshot', Snapshot'.last_dispatched))
          = Snapshot'.dispatched_in_phase
    BY <2>3, <2>4, <2>6, <2>8
  <2>10. CountOk(Snapshot')
    BY <1>2, <2>5, <2>8 DEF CountOk
  <2>11. \A f \in Snapshot'.dispatched :
            Cardinality(Slotmates(Snapshot', f)) <= max_events_per_phase
    BY <2>7, <2>8
  <2> QED
    BY <2>2, <2>8, <2>9, <2>10, <2>11 DEF SoundCount
<1> QED
  BY <1>3, <1>4, <1>6, <1>7 DEF Sound

-----------------------------------------------------------------------------
\* Every step of the scheduler keeps it, and the saved snapshot, sound.
LEMMA NextSound == IInv /\ [Next]_vars => IInv'
<1> SUFFICES ASSUME IInv, [Next]_vars PROVE IInv'
  OBVIOUS
<1>0. /\ Sound(Snapshot)
      /\ saved = NoSnapshot \/ (Sound(saved) /\ saved.dispatched \subseteq dispatched)
  BY DEF IInv
<1>1. CASE ScheduleAny
  <2>1. PICK t \in Tick, p \in Phase, x \in Payload : Schedule(t, p, x)
    BY <1>1 DEF ScheduleAny
  <2> QED
    BY <1>0, <2>1, ScheduleSound DEF IInv, Schedule
<1>2. CASE PopAny
  <2>1. PICK e \in heap : Pop(e)
    BY <1>2 DEF PopAny
  <2> QED
    BY <1>0, <2>1, PopSound DEF IInv, Pop
<1>3. CASE TakeSnapshot
  BY <1>0, <1>3 DEF IInv, TakeSnapshot, Snapshot
<1>4. CASE Restore
  <2>1. saved \in SnapshotType /\ Sound(saved)
    BY <1>0, <1>4 DEF Restore, Sound
  <2>2. Snapshot' = saved
    BY <1>4, <2>1 DEF Restore, Snapshot, SnapshotType
  <2> QED
    BY <1>4, <2>1, <2>2 DEF IInv, Restore
<1>5. CASE UNCHANGED vars
  BY <1>0, <1>5 DEF IInv, vars, Snapshot
<1> QED
  BY <1>1, <1>2, <1>3, <1>4, <1>5 DEF Next

\* The inductive invariant holds in every reachable state.
THEOREM Soundness == Spec => []IInv
  BY InitSound, NextSound, PTL DEF Spec

\* Types of the scheduler's fields and of the saved snapshot.
THEOREM TypeCorrect == Spec => []TypeOK
<1>1. IInv => TypeOK
  BY DEF IInv, Sound, TypeOK
<1> QED
  BY <1>1, Soundness, PTL

\* A snapshot taken at any moment of any session passes the validation that
\* Scheduler::restore makes of it.
THEOREM RestoreAcceptsAlways == Spec => []RestoreAccepts
<1>1. IInv => RestoreAccepts
  <2> SUFFICES ASSUME Sound(Snapshot) PROVE RestoreOk(Snapshot)
    BY DEF IInv, RestoreAccepts
  <2>1. CountOk(Snapshot)
    BY DEF Sound, SoundCount
  <2>2. SequencesUnique(Snapshot)
    BY DEF Sound, SoundSequences, SequencesUnique
  <2>3. EventsOk(Snapshot)
    <3> SUFFICES ASSUME NEW f \in heap, last_dispatched # NoKey
                 PROVE  KeyLess(last_dispatched, f)
      BY DEF Sound, SoundSequences, EventsOk, Snapshot
    <3>1. PICK e \in dispatched : KeyOf(e) = last_dispatched
      BY DEF Sound, SoundOrder, Snapshot
    <3>2. e \in Event /\ KeyLess(e, f)
      BY DEF Sound, SoundOrder, Snapshot, SnapshotType
    <3> QED
      BY <3>1, <3>2, KeyOfFields DEF KeyLess
  <2> QED
    BY <2>1, <2>2, <2>3 DEF RestoreOk
<1> QED
  BY <1>1, Soundness, PTL

\* Nothing pending is before anything that has run.
THEOREM PendingComesAfter == Spec => []PendingAfterDispatched
<1>1. IInv => PendingAfterDispatched
  BY DEF IInv, Sound, SoundOrder, Snapshot, PendingAfterDispatched
<1> QED
  BY <1>1, Soundness, PTL

\* Sequence numbers are never reused (rule S4), not even across a restore.
THEOREM SequencesIdentify == Spec => []SequenceIdentifies
<1>1. IInv => SequenceIdentifies
  BY DEF IInv, Sound, SoundSequences, Snapshot, SequenceIdentifies
<1> QED
  BY <1>1, Soundness, PTL

\* Rule S5 bounds the events of every (tick, phase) of the session.
THEOREM PhaseLimitHolds == Spec => []PhaseLimit
<1>1. IInv => PhaseLimit
  BY DEF IInv, Sound, SoundCount, Slotmates, Snapshot, PhaseLimit
<1> QED
  BY <1>1, Soundness, PTL

\* pop returns events in strictly increasing EventKey order; a restore goes back
\* to an earlier point of the same history and never invents one.
THEOREM DispatchesInOrder == Spec => DispatchInOrder
<1> DEFINE InOrder ==
      \A e \in dispatched' \ dispatched, f \in dispatched : KeyLess(f, e)
<1>1. IInv /\ [Next]_vars => [InOrder]_vars
  <2> SUFFICES ASSUME IInv, Next PROVE InOrder
    OBVIOUS
  <2>1. CASE ScheduleAny \/ TakeSnapshot
    BY <2>1 DEF ScheduleAny, Schedule, TakeSnapshot
  <2>2. CASE PopAny
    <3>1. PICK e \in heap : Pop(e)
      BY <2>2 DEF PopAny
    <3>2. dispatched' = dispatched \cup {e}
      BY <3>1 DEF Pop
    <3> QED
      BY <3>2 DEF IInv, Sound, SoundOrder, Snapshot
  <2>3. CASE Restore
    BY <2>3 DEF IInv, Restore
  <2> QED
    BY <2>1, <2>2, <2>3 DEF Next
<1> QED
  BY <1>1, Soundness, PTL DEF Spec, DispatchInOrder

=============================================================================
