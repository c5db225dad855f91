----------------------------- MODULE Scheduler -----------------------------
(***************************************************************************)
(* The event scheduler of runtime/src/scheduler.rs: a heap of events       *)
(* ordered by (tick, phase, sequence), the rules S1-S6 that `schedule` and *)
(* `pop` enforce, and the snapshot that `restore` validates.               *)
(*                                                                         *)
(* The heap is a set of events: sequence numbers make keys unique, so the  *)
(* order in which the BinaryHeap happens to hold them is never observable. *)
(* A refused call returns an error and changes nothing, so the calls that  *)
(* fail are not steps here; the session of module Runtime turns a refusal  *)
(* (ScheduleOk or S5 false) into a fault.                                  *)
(***************************************************************************)
EXTENDS Integers, FiniteSets

CONSTANTS
  MaxTick,               \* the largest tick offered to `schedule`
  MaxSequence,           \* u64::MAX: the sequence number never assigned
  max_events_per_phase,  \* SchedulerConfig: the S5 limit
  Payload,               \* what an event delivers
  NoKey,                 \* `None` where the code has an Option<EventKey>
  NoSnapshot             \* nothing has been saved yet

\* Phase, in dispatch order.
Request  == 0
Transfer == 1
Complete == 2
Commit   == 3
Observe  == 4

Tick     == 0 .. MaxTick
Phase    == Request .. Observe
EventKey == [tick : Nat, phase : Phase, sequence : Nat]
Event    == [tick : Nat, phase : Phase, sequence : Nat, payload : Payload]

ASSUME BoundsAssumption == MaxTick \in Nat /\ MaxSequence \in Nat
ASSUME LimitAssumption == max_events_per_phase \in Nat
ASSUME NoKeyAssumption == NoKey \notin EventKey

VARIABLES
  last_dispatched,      \* key of the most recently dispatched event, or NoKey
  dispatched_in_phase,  \* events dispatched in last_dispatched's (tick, phase)
  next_sequence,        \* the sequence number the next event will receive
  heap,                 \* pending events
  dispatched,           \* history: the events dispatched since the session began
  saved                 \* a SchedulerSnapshot kept outside the scheduler

vars == <<last_dispatched, dispatched_in_phase, next_sequence, heap,
          dispatched, saved>>

-----------------------------------------------------------------------------
\* EventKey's derived order, on keys and on events.
KeyLess(a, b) ==
  \/ a.tick < b.tick
  \/ a.tick = b.tick /\ a.phase < b.phase
  \/ a.tick = b.tick /\ a.phase = b.phase /\ a.sequence < b.sequence

SameSlot(a, b) == a.tick = b.tick /\ a.phase = b.phase

KeyOf(e) == [tick |-> e.tick, phase |-> e.phase, sequence |-> e.sequence]

now == IF last_dispatched = NoKey THEN 0 ELSE last_dispatched.tick

phase == IF last_dispatched = NoKey THEN Request ELSE last_dispatched.phase

\* Mutant: the heap orders events by tick alone.
IsNextByTick(e) == e \in heap /\ \A f \in heap : e.tick <= f.tick

\* Mutant: within a (tick, phase) the newest event comes first.
IsNextNewest(e) ==
  /\ e \in heap
  /\ \A f \in heap : IF SameSlot(e, f) THEN e.sequence >= f.sequence
                     ELSE KeyLess(e, f)

\* The heap's minimum: what peek_key and pop look at.
IsNext(e) == e \in heap /\ \A f \in heap : f = e \/ KeyLess(e, f)

-----------------------------------------------------------------------------
Init ==
  /\ last_dispatched = NoKey
  /\ dispatched_in_phase = 0
  /\ next_sequence = 0
  /\ heap = {}
  /\ dispatched = {}
  /\ saved = NoSnapshot

\* Mutant: OBSERVE is let through.
S3Dropped(p) == TRUE

\* What `schedule` checks before it assigns a sequence number.
S1(t)    == t >= now                       \* not in the past
S2(t, p) == t = now => p >= phase          \* no earlier phase in this tick
S3(p)    == p # Observe                    \* OBSERVE is never scheduled
S6       == next_sequence < MaxSequence    \* no wrap-around

ScheduleOk(t, p) == S3(p) /\ S1(t) /\ S2(t, p) /\ S6

Schedule(t, p, x) ==
  /\ ScheduleOk(t, p)
  /\ heap' = heap \cup {[tick |-> t, phase |-> p, sequence |-> next_sequence,
                         payload |-> x]}
  /\ next_sequence' = next_sequence + 1
  /\ UNCHANGED <<last_dispatched, dispatched_in_phase, dispatched, saved>>

\* The number of events in e's (tick, phase) once e is dispatched.
CountAfter(e) ==
  IF last_dispatched # NoKey /\ SameSlot(last_dispatched, e)
    THEN dispatched_in_phase + 1
    ELSE 1

\* S5: otherwise e stays queued and pop returns SameTickLivelock.
S5(e) == CountAfter(e) <= max_events_per_phase

Pop(e) ==
  /\ IsNext(e)
  /\ S5(e)
  /\ heap' = heap \ {e}
  /\ last_dispatched' = KeyOf(e)
  /\ dispatched_in_phase' = CountAfter(e)
  /\ dispatched' = dispatched \cup {e}
  /\ UNCHANGED <<next_sequence, saved>>

-----------------------------------------------------------------------------
\* The whole scheduler state, and the history that leads to it.
Snapshot ==
  [last_dispatched |-> last_dispatched,
   dispatched_in_phase |-> dispatched_in_phase,
   next_sequence |-> next_sequence,
   queue |-> heap,
   dispatched |-> dispatched]

TakeSnapshot ==
  /\ saved' = Snapshot
  /\ UNCHANGED <<last_dispatched, dispatched_in_phase, next_sequence, heap,
                 dispatched>>

\* The three validations `restore` makes of a snapshot.
CountOk(s) ==
  IF s.last_dispatched = NoKey
    THEN s.dispatched_in_phase = 0
    ELSE s.dispatched_in_phase \in 1 .. max_events_per_phase

SequencesUnique(s) ==
  \A e, f \in s.queue : e.sequence = f.sequence => e = f

EventsOk(s) ==
  \A e \in s.queue :
    /\ e.sequence < s.next_sequence
    /\ e.phase # Observe
    /\ s.last_dispatched # NoKey => KeyLess(s.last_dispatched, e)

RestoreOk(s) == CountOk(s) /\ SequencesUnique(s) /\ EventsOk(s)

\* Mutant: the phase count is not resumed.
RestoreCountForgotten ==
  /\ saved # NoSnapshot
  /\ RestoreOk(saved)
  /\ last_dispatched' = saved.last_dispatched
  /\ dispatched_in_phase' = 0
  /\ next_sequence' = saved.next_sequence
  /\ heap' = saved.queue
  /\ dispatched' = saved.dispatched
  /\ saved' = saved

\* A fresh scheduler takes over the saved state, as in a new session.
Restore ==
  /\ saved # NoSnapshot
  /\ RestoreOk(saved)
  /\ last_dispatched' = saved.last_dispatched
  /\ dispatched_in_phase' = saved.dispatched_in_phase
  /\ next_sequence' = saved.next_sequence
  /\ heap' = saved.queue
  /\ dispatched' = saved.dispatched
  /\ saved' = saved

-----------------------------------------------------------------------------
ScheduleAny == \E t \in Tick, p \in Phase, x \in Payload : Schedule(t, p, x)
PopAny == \E e \in heap : Pop(e)

Next == ScheduleAny \/ PopAny \/ TakeSnapshot \/ Restore

Spec == Init /\ [][Next]_vars

-----------------------------------------------------------------------------
SnapshotType ==
  [last_dispatched : EventKey \cup {NoKey},
   dispatched_in_phase : Nat,
   next_sequence : Nat,
   queue : SUBSET Event,
   dispatched : SUBSET Event]

\* Every field of Scheduler, and of the snapshot kept outside it, has its type.
TypeOK ==
  /\ Snapshot \in SnapshotType
  /\ saved = NoSnapshot \/ saved \in SnapshotType

\* Whatever calls of schedule, pop and restore were made, the snapshot of the
\* scheduler passes the validation `restore` makes: no session can be saved and
\* then refused.
RestoreAccepts == RestoreOk(Snapshot)

\* Events run in EventKey order, strictly: whatever is still pending comes after
\* everything `pop` has returned, so no later pop can go back.
PendingAfterDispatched ==
  \A e \in dispatched, f \in heap : KeyLess(e, f)

\* A sequence number identifies one event for the whole session, across
\* restores (rule S4): two events that ever shared a number are the same event.
SequenceIdentifies ==
  \A e, f \in dispatched \cup heap : e.sequence = f.sequence => e = f

\* Rule S5 for the whole session: `pop` never lets more than
\* max_events_per_phase events run in one (tick, phase), although the scheduler
\* counts only the current one and a restore resumes the count.
PhaseLimit ==
  \A e \in dispatched :
    Cardinality({f \in dispatched : SameSlot(e, f)}) <= max_events_per_phase

\* Each dispatch is later, in EventKey order, than every dispatch before it.
DispatchInOrder ==
  [][\A e \in dispatched' \ dispatched, f \in dispatched : KeyLess(f, e)]_vars

=============================================================================
