---------------------------- MODULE ProcessTable ----------------------------
(***************************************************************************)
(* The process table driven by a client that calls its operations in every *)
(* order their contracts allow: a creation may be in flight while others   *)
(* run, yield and end.  The kernel's own order is one of these.            *)
(***************************************************************************)
EXTENDS Processes

VARIABLES
  procs,     \* the table
  creating,  \* the creation in flight: its PID (0: none) and its frames
  violated   \* some call returned a Violation

vars == <<procs, creating, violated>>

NotCreating == [pid |-> 0, frames |-> {}]

Init ==
  /\ procs = EmptyTable
  /\ creating = NotCreating
  /\ violated = FALSE

\* A call whose internal checks are `can` and whose result is `P`.
Call(can, P) ==
  /\ violated' = ~can
  /\ procs' = IF can THEN P ELSE procs

\* Frames are reserved for the next PID; without enough the image is skipped.
Creation(pid, n) ==
  /\ ~violated
  /\ creating.pid = 0
  /\ \A q \in Pcbs(procs) : q < pid
  /\ CanReserve(procs, n)
  /\ procs' = Reserve(procs, pid, n)
  /\ creating' = [pid |-> pid, frames |-> LowestFree(procs, n)]
  /\ UNCHANGED violated

Admission(c) ==
  /\ ~violated
  /\ creating.pid # 0
  /\ Call(CanAdmit(procs, creating.pid, creating.frames),
          Admit(procs, creating.pid, creating.frames, c))
  /\ creating' = NotCreating

YieldCurrent(c) ==
  /\ ~violated
  /\ procs.current # 0
  /\ Call(CanYield(procs), Yield(procs, c))
  /\ UNCHANGED creating

EndCurrent(how) ==
  /\ ~violated
  /\ procs.current # 0
  /\ Call(CanEnd(procs), End(procs, how))
  /\ UNCHANGED creating

Schedule ==
  /\ ~violated
  /\ procs.current = 0
  /\ procs.queue # << >>
  /\ Call(CanSchedule(procs), ScheduleNext(procs))
  /\ UNCHANGED creating

Next ==
  \/ \E pid \in Pids, n \in 1 .. NFrames : Creation(pid, n)
  \/ \E c \in Contexts : Admission(c)
  \/ \E c \in Contexts : YieldCurrent(c)
  \/ \E how \in Terminal : EndCurrent(how)
  \/ Schedule

Spec == Init /\ [][Next]_vars

-----------------------------------------------------------------------------
(* Properties *)

\* The table is well-formed data.
TypeOK ==
  /\ procs \in Tables
  /\ creating \in [pid : 0 .. MaxPid, frames : SUBSET Frames]
  /\ violated \in BOOLEAN

\* Every reachable table satisfies the invariants Processes::check demands of
\* a restored one: a snapshot taken at any point is accepted.
Checked == Check(procs, MaxPid, creating.pid, creating.frames)

\* No call made under its contract returns a Violation: the errors of admit,
\* yield_current, end_current and schedule_next are unreachable.
NoViolation == ~violated

=============================================================================
