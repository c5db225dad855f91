----------------------------- MODULE Processes -----------------------------
(***************************************************************************)
(* The modeled kernel's process table (os/src/process.rs) and frame        *)
(* allocator (os/src/frames.rs).  A table is a value: its operations are   *)
(* operators from tables to tables, because one trap of the kernel applies *)
(* several of them in a single handler.                                    *)
(***************************************************************************)
EXTENDS Integers, Sequences, FiniteSets, Functions

CONSTANTS
  MaxPid,    \* the number of boot images: PIDs are 1..MaxPid
  NFrames,   \* the frames of the pool
  Contexts,  \* the user contexts told apart
  None       \* no context

ASSUME ProcessesAssumption ==
  /\ MaxPid \in Nat
  /\ NFrames \in Nat
  /\ None \notin Contexts

Pids == 1 .. MaxPid
Frames == 1 .. NFrames

\* The states of a PCB; "Absent" is a PID with no PCB.
Terminal == {"ExitedZero", "ExitedOther", "Faulted"}
States == {"Absent", "Ready", "Running"} \cup Terminal

\* current = 0: nothing runs.  owner[f] = 0: the frame is free.
Tables == [state : [Pids -> States],
           context : [Pids -> Contexts \cup {None}],
           frames : [Pids -> SUBSET Frames],
           queue : Seq(Pids),
           current : 0 .. MaxPid,
           owner : [Frames -> 0 .. MaxPid]]

EmptyTable == [state |-> [p \in Pids |-> "Absent"],
               context |-> [p \in Pids |-> None],
               frames |-> [p \in Pids |-> {}],
               queue |-> << >>,
               current |-> 0,
               owner |-> [f \in Frames |-> 0]]

Pcbs(P) == {p \in Pids : P.state[p] # "Absent"}

-----------------------------------------------------------------------------
(* Frames *)

Free(P) == {f \in Frames : P.owner[f] = 0}

OwnedBy(P, pid) == {f \in Frames : P.owner[f] = pid}

\* The n lowest free frames; the call fails, and changes nothing, without n.
CanReserve(P, n) == n <= Cardinality(Free(P))
LowestFree(P, n) == {f \in Free(P) : Cardinality({g \in Free(P) : g < f}) < n}

\* The table with other owners.
WithOwner(P, owner) ==
  [state |-> P.state, context |-> P.context, frames |-> P.frames,
   queue |-> P.queue, current |-> P.current, owner |-> owner]

Reserve(P, pid, n) ==
  WithOwner(P, [f \in Frames |-> IF f \in LowestFree(P, n) THEN pid ELSE P.owner[f]])

Release(owner, F) == [f \in Frames |-> IF f \in F THEN 0 ELSE owner[f]]

-----------------------------------------------------------------------------
(* The table's operations.  Can... holds when the code returns no Violation. *)

CanAdmit(P, pid, F) ==
  /\ \A q \in Pcbs(P) : q < pid
  /\ OwnedBy(P, pid) = F

\* A mutant: the new PCB has no context yet.
AdmitWithoutContext(P, pid, F, c) ==
  [state |-> [P.state EXCEPT ![pid] = "Ready"],
   context |-> P.context,
   frames |-> [P.frames EXCEPT ![pid] = F],
   queue |-> Append(P.queue, pid),
   current |-> P.current,
   owner |-> P.owner]

Admit(P, pid, F, c) ==
  [state |-> [P.state EXCEPT ![pid] = "Ready"],
   context |-> [P.context EXCEPT ![pid] = c],
   frames |-> [P.frames EXCEPT ![pid] = F],
   queue |-> Append(P.queue, pid),
   current |-> P.current,
   owner |-> P.owner]

CanYield(P) == P.current # 0 /\ P.current \in Pcbs(P)

\* A mutant: the yielding process stays the current one.
YieldKeepsCurrent(P, c) ==
  [state |-> [P.state EXCEPT ![P.current] = "Ready"],
   context |-> [P.context EXCEPT ![P.current] = c],
   frames |-> P.frames,
   queue |-> Append(P.queue, P.current),
   current |-> P.current,
   owner |-> P.owner]

\* A mutant: the yielding process is first in the queue again.
YieldAtHead(P, c) ==
  [state |-> [P.state EXCEPT ![P.current] = "Ready"],
   context |-> [P.context EXCEPT ![P.current] = c],
   frames |-> P.frames,
   queue |-> <<P.current>> \o P.queue,
   current |-> 0,
   owner |-> P.owner]

Yield(P, c) ==
  [state |-> [P.state EXCEPT ![P.current] = "Ready"],
   context |-> [P.context EXCEPT ![P.current] = c],
   frames |-> P.frames,
   queue |-> Append(P.queue, P.current),
   current |-> 0,
   owner |-> P.owner]

CanEnd(P) ==
  /\ CanYield(P)
  /\ P.frames[P.current] \subseteq OwnedBy(P, P.current)

End(P, how) ==
  [state |-> [P.state EXCEPT ![P.current] = how],
   context |-> [P.context EXCEPT ![P.current] = None],
   frames |-> [P.frames EXCEPT ![P.current] = {}],
   queue |-> P.queue,
   current |-> 0,
   owner |-> Release(P.owner, P.frames[P.current])]

CanSchedule(P) ==
  /\ P.current = 0
  /\ P.queue # << >> => /\ Head(P.queue) \in Pcbs(P)
                        /\ P.context[Head(P.queue)] # None
                        /\ P.state[Head(P.queue)] = "Ready"

\* The head of a nonempty queue runs; its context leaves the PCB.
ScheduleNext(P) ==
  [state |-> [P.state EXCEPT ![Head(P.queue)] = "Running"],
   context |-> [P.context EXCEPT ![Head(P.queue)] = None],
   frames |-> P.frames,
   queue |-> Tail(P.queue),
   current |-> Head(P.queue),
   owner |-> P.owner]

-----------------------------------------------------------------------------
(* Processes::check, part by part: images bounds the PIDs, pid and F are    *)
(* the creation in flight (pid = 0: none).                                  *)

PcbsCheck(P, images) ==
  \A p \in Pcbs(P) :
    /\ p <= images
    /\ P.state[p] = "Ready" <=> P.context[p] # None
    /\ P.state[p] \in Terminal <=> P.frames[p] = {}

RunningCheck(P) == \A p \in Pids : P.state[p] = "Running" <=> p = P.current

QueueCheck(P) ==
  /\ IsInjective(P.queue)
  /\ Range(P.queue) = {p \in Pids : P.state[p] = "Ready"}

CreatingCheck(P, images, pid) == pid # 0 => pid \notin Pcbs(P) /\ pid <= images

FramesCheck(P, pid, F) ==
  /\ \A p \in Pcbs(P) : P.frames[p] = OwnedBy(P, p)
  /\ pid # 0 => F = OwnedBy(P, pid)
  /\ \A f \in Frames : P.owner[f] # 0 => P.owner[f] \in Pcbs(P) \/ P.owner[f] = pid

Check(P, images, pid, F) ==
  /\ PcbsCheck(P, images)
  /\ RunningCheck(P)
  /\ QueueCheck(P)
  /\ CreatingCheck(P, images, pid)
  /\ FramesCheck(P, pid, F)

=============================================================================
