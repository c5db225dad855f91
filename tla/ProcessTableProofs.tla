------------------------- MODULE ProcessTableProofs -------------------------
(***************************************************************************)
(* Under every legal order of calls the process table passes               *)
(* Processes::check and no call returns a Violation.                       *)
(***************************************************************************)
EXTENDS ProcessTable, ProcessesProofs

\* The inductive invariant.  A creation's PID is above every PCB's and it has
\* frames: without these two facts its admission could not be shown legal.
IInv ==
  /\ TypeOK
  /\ Checked
  /\ NoViolation
  /\ creating.pid # 0 => /\ \A q \in Pcbs(procs) : q < creating.pid
                         /\ creating.frames # {}

-----------------------------------------------------------------------------

\* The types, Processes::check, the absence of Violations and the creation's
\* two facts hold in every reachable state.
THEOREM Invariance == Spec => []IInv
<1>1. Init => IInv
  <2> SUFFICES ASSUME Init PROVE IInv
    OBVIOUS
  <2>1. Good(procs, MaxPid, 0, {})
    BY EmptyGood DEF Init
  <2>2. /\ creating = NotCreating /\ violated = FALSE
        /\ creating.pid = 0 /\ creating.frames = {}
        /\ creating \in [pid : 0 .. MaxPid, frames : SUBSET Frames]
    BY ProcessesAssumption DEF Init, NotCreating
  <2>3. TypeOK /\ NoViolation
    BY <2>1, <2>2 DEF TypeOK, NoViolation, Good
  <2>4. Checked
    BY <2>1, <2>2 DEF Checked, Good
  <2> QED  BY <2>2, <2>3, <2>4 DEF IInv
<1>2. IInv /\ [Next]_vars => IInv'
  <2> SUFFICES ASSUME IInv, [Next]_vars PROVE IInv'
    OBVIOUS
  <2>1. Good(procs, MaxPid, creating.pid, creating.frames) /\ violated = FALSE /\ MaxPid \in Nat
    BY ProcessesAssumption DEF IInv, TypeOK, Checked, NoViolation, Good
  <2>2. creating \in [pid : 0 .. MaxPid, frames : SUBSET Frames]
    BY DEF IInv, TypeOK
  <2>3. SUFFICES /\ Good(procs', MaxPid, creating'.pid, creating'.frames)
                 /\ violated' = FALSE
                 /\ creating' \in [pid : 0 .. MaxPid, frames : SUBSET Frames]
                 /\ creating'.pid # 0 => /\ \A q \in Pcbs(procs') : q < creating'.pid
                                         /\ creating'.frames # {}
    <3>1. TypeOK' /\ NoViolation'  BY <2>3 DEF TypeOK, NoViolation, Good
    <3>2. Checked'  BY <2>3 DEF Checked, Good
    <3> QED  BY <2>3, <3>1, <3>2 DEF IInv
  <2>4. ASSUME NEW pid \in Pids, NEW n \in 1 .. NFrames, Creation(pid, n)
        PROVE  /\ Good(procs', MaxPid, creating'.pid, creating'.frames)
               /\ violated' = FALSE
               /\ creating' \in [pid : 0 .. MaxPid, frames : SUBSET Frames]
               /\ creating'.pid # 0 => /\ \A q \in Pcbs(procs') : q < creating'.pid
                                       /\ creating'.frames # {}
    <3>1. n \in Nat \ {0} /\ pid <= MaxPid /\ pid \notin Pcbs(procs)
      BY <2>4, ProcessesAssumption DEF Creation, Pids
    <3>2. Good(procs, MaxPid, 0, {})
      BY <2>1, <2>4 DEF Creation, Good, Check, CreatingCheck, FramesCheck
    <3>3. /\ procs' = Reserve(procs, pid, n) /\ CanReserve(procs, n) /\ violated' = violated
          /\ creating' = [pid |-> pid, frames |-> LowestFree(procs, n)]
          /\ \A q \in Pcbs(procs) : q < pid
      BY <2>4 DEF Creation
    <3>4. /\ Good(procs', MaxPid, pid, LowestFree(procs, n))
          /\ LowestFree(procs, n) # {} /\ LowestFree(procs, n) \subseteq Frames
          /\ Pcbs(procs') = Pcbs(procs)
      BY <2>1, <3>1, <3>2, <3>3, ReserveGood
    <3> QED  BY <2>1, <3>3, <3>4 DEF Pids
  <2>5. ASSUME NEW c \in Contexts, Admission(c)
        PROVE  /\ Good(procs', MaxPid, creating'.pid, creating'.frames)
               /\ violated' = FALSE
               /\ creating' = NotCreating
    <3>1. /\ creating.pid \in Pids /\ creating.frames # {}
          /\ \A q \in Pcbs(procs) : q < creating.pid
      BY <2>2, <2>5, ProcessesAssumption DEF Admission, IInv, Pids
    <3>2. /\ CanAdmit(procs, creating.pid, creating.frames)
          /\ Good(Admit(procs, creating.pid, creating.frames, c), MaxPid, 0, {})
      BY <2>1, <3>1, AdmitGood
    <3> QED  BY <2>5, <3>2 DEF Admission, Call, NotCreating
  <2>6. ASSUME NEW c \in Contexts, YieldCurrent(c)
        PROVE  /\ Good(procs', MaxPid, creating.pid, creating.frames)
               /\ violated' = FALSE /\ creating' = creating /\ Pcbs(procs') = Pcbs(procs)
    <3>1. CanYield(procs) /\ Good(Yield(procs, c), MaxPid, creating.pid, creating.frames)
      BY <2>1, <2>6, YieldGood DEF YieldCurrent
    <3>2. procs' = Yield(procs, c) /\ violated' = FALSE /\ creating' = creating
      BY <2>6, <3>1 DEF YieldCurrent, Call
    <3>3. procs.current \in Pcbs(procs) /\ procs.state \in [Pids -> States]
      BY <2>1, <3>1, GoodFacts DEF CanYield
    <3>4. Pcbs(procs') = Pcbs(procs)
      BY <3>2, <3>3 DEF Yield, Pcbs
    <3> QED  BY <3>1, <3>2, <3>4
  <2>7. ASSUME NEW how \in Terminal, EndCurrent(how)
        PROVE  /\ Good(procs', MaxPid, creating.pid, creating.frames)
               /\ violated' = FALSE /\ creating' = creating /\ Pcbs(procs') = Pcbs(procs)
    <3>1. CanEnd(procs) /\ Good(End(procs, how), MaxPid, creating.pid, creating.frames)
      BY <2>1, <2>2, <2>7, EndGood DEF EndCurrent
    <3>2. procs' = End(procs, how) /\ violated' = FALSE /\ creating' = creating
      BY <2>7, <3>1 DEF EndCurrent, Call
    <3>3. procs.current \in Pcbs(procs) /\ procs.state \in [Pids -> States]
      BY <2>1, <3>1, GoodFacts DEF CanEnd, CanYield
    <3>4. Pcbs(procs') = Pcbs(procs)
      BY <3>2, <3>3 DEF End, Pcbs, Terminal
    <3> QED  BY <3>1, <3>2, <3>4
  <2>8. ASSUME Schedule
        PROVE  /\ Good(procs', MaxPid, creating.pid, creating.frames)
               /\ violated' = FALSE /\ creating' = creating /\ Pcbs(procs') = Pcbs(procs)
    <3>1. CanSchedule(procs) /\ Good(ScheduleNext(procs), MaxPid, creating.pid, creating.frames)
      BY <2>1, <2>8, ScheduleGood DEF Schedule
    <3>2. procs' = ScheduleNext(procs) /\ violated' = FALSE /\ creating' = creating
      BY <2>8, <3>1 DEF Schedule, Call
    <3>3. Head(procs.queue) \in Pcbs(procs) /\ procs.state \in [Pids -> States]
      BY <2>1, <2>8, <3>1, GoodFacts DEF CanSchedule, Schedule
    <3>4. Pcbs(procs') = Pcbs(procs)
      BY <3>2, <3>3 DEF ScheduleNext, Pcbs
    <3> QED  BY <3>1, <3>2, <3>4
  <2>9. CASE UNCHANGED vars
    BY <2>1, <2>2, <2>9 DEF vars, IInv, Pcbs
  <2>10. creating' = creating /\ Pcbs(procs') = Pcbs(procs) =>
           /\ creating' \in [pid : 0 .. MaxPid, frames : SUBSET Frames]
           /\ creating'.pid # 0 => /\ \A q \in Pcbs(procs') : q < creating'.pid
                                   /\ creating'.frames # {}
    BY <2>2 DEF IInv
  <2>11. NotCreating.pid = 0 /\ NotCreating \in [pid : 0 .. MaxPid, frames : SUBSET Frames]
    BY ProcessesAssumption DEF NotCreating
  <2> QED  BY <2>4, <2>5, <2>6, <2>7, <2>8, <2>9, <2>10, <2>11 DEF Next
<1> QED  BY <1>1, <1>2, PTL DEF Spec

\* Every reachable process table passes Processes::check with the creation in
\* flight, so no snapshot of it is refused.
THEOREM CheckedHolds == Spec => []Checked
<1>1. IInv => Checked  BY DEF IInv
<1> QED  BY <1>1, Invariance, PTL

\* The Violation errors of the table's operations are unreachable.
THEOREM NoViolationHolds == Spec => []NoViolation
<1>1. IInv => NoViolation  BY DEF IInv
<1> QED  BY <1>1, Invariance, PTL

=============================================================================
