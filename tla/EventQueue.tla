---------------------------- MODULE EventQueue ----------------------------
(***************************************************************************)
(* The runtime as a component sees it: the promise of module Calendar in   *)
(* relative time.  A queue is a sequence of events in dispatch order, each *)
(* a record with its delay `at` from now and its `phase`; what else an     *)
(* event carries is up to the model that uses it.  Events of one slot keep *)
(* the order they were posted in.                                          *)
(*                                                                         *)
(* Delays are relative so that a component that runs for ever has finitely *)
(* many states.                                                            *)
(***************************************************************************)
EXTENDS Naturals, FiniteSets, SequencesExt

\* Phase, in dispatch order.
Request  == 0
Transfer == 1
Complete == 2
Commit   == 3
Observe  == 4

NotAfter(e, f) == e.at < f.at \/ (e.at = f.at /\ e.phase <= f.phase)

\* send and wake_self: after every event of an earlier or the same slot.
Post(queue, e) ==
  LET ahead == Cardinality({i \in DOMAIN queue : NotAfter(queue[i], e)})
  IN  InsertAt(queue, ahead + 1, e)

PostAll(queue, events) == FoldLeft(Post, queue, events)

\* The events left once the head is dispatched and the clock stands at it.
Advance(queue) ==
  [i \in 1 .. Len(queue) - 1 |->
     [queue[i + 1] EXCEPT !.at = @ - Head(queue).at]]

\* Rule S2: whether a component running in `phase` may post for (at, p).
MayPost(phase, at, p) == at = 0 => p >= phase

=============================================================================
