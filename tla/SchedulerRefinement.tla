------------------------ MODULE SchedulerRefinement ------------------------
(***************************************************************************)
(* The scheduler, with its keys, sequence numbers and heap, implements the *)
(* calendar: the list of a slot is the slot's pending events in the order  *)
(* of their sequence numbers.                                              *)
(***************************************************************************)
EXTENDS Scheduler, Sequences

ListsOf(queue) ==
  [s \in Tick \X (Request .. Commit) |->
     LET here == {e \in queue : e.tick = s[1] /\ e.phase = s[2]}
         ahead(e) == {f \in here : f.sequence < e.sequence}
     IN  [i \in 1 .. Cardinality(here) |->
            (CHOOSE e \in here : Cardinality(ahead(e)) = i - 1).payload]]

CursorOf(last) == IF last = NoKey THEN <<0, Request>> ELSE <<last.tick, last.phase>>

Cal == INSTANCE Calendar WITH
         MaxPending <- MaxSequence,
         list   <- ListsOf(heap),
         cursor <- CursorOf(last_dispatched),
         served <- dispatched_in_phase,
         saved  <- IF saved = NoSnapshot THEN NoSnapshot
                   ELSE <<ListsOf(saved.queue), CursorOf(saved.last_dispatched),
                          saved.dispatched_in_phase>>

\* Every schedule, pop, snapshot and restore of the heap-based scheduler is the
\* corresponding step of the calendar: FIFO within a (tick, phase), earliest slot
\* first, nothing before the cursor, S5, and a restored calendar equal to the
\* saved one.
ImplementsCalendar == Cal!Spec

=============================================================================
