------------------------------ MODULE Calendar ------------------------------
(***************************************************************************)
(* What the scheduler promises the rest of the runtime, without keys,      *)
(* sequence numbers or a heap: a calendar with one FIFO list of payloads   *)
(* per (tick, phase).  Dispatch takes the head of the earliest non-empty   *)
(* list and moves the cursor there; nothing is ever added before the       *)
(* cursor; a list is served at most max_events_per_phase times.            *)
(*                                                                         *)
(* Module Scheduler implements it (SchedulerRefinement).  The component    *)
(* models use the same promise in the relative form of module EventQueue.  *)
(***************************************************************************)
EXTENDS Integers, Sequences

CONSTANTS
  MaxTick,               \* ticks are 0 .. MaxTick
  MaxPending,            \* bound on the length of one list
  max_events_per_phase,  \* the S5 limit
  Payload,
  NoSnapshot

\* A slot is a (tick, phase) an event may run in: Request .. Commit.
Slot == (0 .. MaxTick) \X (0 .. 3)

VARIABLES
  list,    \* list[s]: payloads waiting in slot s, in the order they were scheduled
  cursor,  \* the slot being served
  served,  \* how many events the slot at the cursor has had
  saved

vars == <<list, cursor, served, saved>>

Before(a, b) == a[1] < b[1] \/ (a[1] = b[1] /\ a[2] < b[2])

Init ==
  /\ list = [s \in Slot |-> <<>>]
  /\ cursor = <<0, 0>>
  /\ served = 0
  /\ saved = NoSnapshot

Add(s, x) ==
  /\ ~Before(s, cursor)
  /\ Len(list[s]) < MaxPending
  /\ list' = [list EXCEPT ![s] = Append(@, x)]
  /\ UNCHANGED <<cursor, served, saved>>

IsFirst(s) == list[s] # <<>> /\ \A t \in Slot : Before(t, s) => list[t] = <<>>

ServedAfter(s) == IF s = cursor THEN served + 1 ELSE 1

Serve(s) ==
  /\ IsFirst(s)
  /\ ServedAfter(s) <= max_events_per_phase
  /\ list' = [list EXCEPT ![s] = Tail(@)]
  /\ cursor' = s
  /\ served' = ServedAfter(s)
  /\ saved' = saved

Save ==
  /\ saved' = <<list, cursor, served>>
  /\ UNCHANGED <<list, cursor, served>>

Resume ==
  /\ saved # NoSnapshot
  /\ list' = saved[1]
  /\ cursor' = saved[2]
  /\ served' = saved[3]
  /\ saved' = saved

AddAny == \E s \in Slot, x \in Payload : Add(s, x)
ServeAny == \E s \in Slot : Serve(s)

Next == AddAny \/ ServeAny \/ Save \/ Resume

Spec == Init /\ [][Next]_vars

=============================================================================
