-------------------------- MODULE SchedulerForeign --------------------------
(***************************************************************************)
(* Scheduler::restore applied to a snapshot that did not come from this    *)
(* scheduler: any snapshot, over small sets, that its checks accept.  The  *)
(* history of such a snapshot is not known; only its cursor is.            *)
(***************************************************************************)
EXTENDS Scheduler

CONSTANT ForeignSequence   \* sequence numbers that occur in the snapshot

ForeignKey == [tick : Tick, phase : {Request, Complete}, sequence : ForeignSequence]

ForeignSnapshot ==
  [last_dispatched : ForeignKey \cup {NoKey},
   dispatched_in_phase : 0 .. max_events_per_phase,
   next_sequence : ForeignSequence,
   queue : {{}} \cup {{e} : e \in [tick : Tick, phase : {Request, Complete},
                                   sequence : ForeignSequence, payload : Payload]},
   dispatched : {{}}]

InitForeign ==
  /\ saved \in ForeignSnapshot
  /\ RestoreOk(saved)
  /\ last_dispatched = saved.last_dispatched
  /\ dispatched_in_phase = saved.dispatched_in_phase
  /\ next_sequence = saved.next_sequence
  /\ heap = saved.queue
  /\ dispatched = saved.dispatched

ForeignSpec == InitForeign /\ [][ScheduleAny \/ PopAny]_vars

\* The order promised by the scheduler's module documentation, "Events are
\* dispatched in EventKey order", for a session resumed by restore: whatever pop
\* will return comes after the last dispatched event.
ResumedInOrder ==
  \A e \in heap : last_dispatched # NoKey => KeyLess(last_dispatched, e)

=============================================================================
