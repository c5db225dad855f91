-------------------------- MODULE ProcessesProofs --------------------------
(***************************************************************************)
(* Processes::check is preserved by every operation of the process table,  *)
(* for any number of PIDs, frames and contexts: one lemma per operation.   *)
(* ProcessTableProofs and ModeledKernelProofs rest on them.                *)
(***************************************************************************)
EXTENDS Processes, SequenceTheorems, FiniteSetTheorems, WellFoundedInduction, TLAPS

\* What restore accepts of a table, a PID bound and a creation, with the types.
Good(P, images, pid, F) ==
  /\ P \in Tables
  /\ Check(P, images, pid, F)

\* Every nonempty set of naturals has a least element.
LEMMA LeastNatural ==
  ASSUME NEW S \in SUBSET Nat, S # {}
  PROVE  \E x \in S : \A y \in S : ~(y < x)
<1> DEFINE R == {ss \in Nat \X Nat : ss[1] < ss[2]}
<1>1. IsWellFoundedOn(R, Nat)
  BY NatLessThanWellFounded DEF OpToRel
<1> HIDE DEF R
<1>2. \E x \in S : \A y \in S : ~(<<y, x>> \in R)
  BY <1>1, WFMin
<1>3. PICK x \in S : \A y \in S : ~(<<y, x>> \in R)
  BY <1>2
<1>4. \A y \in S : ~(y < x)
  BY <1>3 DEF R
<1> QED  BY <1>4

\* Frames::reserve of at least one frame returns at least one.
LEMMA LowestFreeNonempty ==
  ASSUME NEW P \in Tables, NEW n \in Nat \ {0}, CanReserve(P, n)
  PROVE  LowestFree(P, n) # {}
<1>1. Free(P) \subseteq Nat /\ Free(P) \subseteq Frames
  BY ProcessesAssumption DEF Free, Frames
<1>2. IsFiniteSet(Free(P))
  <2>1. 1 \in Int /\ NFrames \in Int  BY ProcessesAssumption
  <2>2. IsFiniteSet(Frames)  BY <2>1, FS_Interval, Zenon DEF Frames
  <2> QED  BY <1>1, <2>2, FS_Subset, Zenon
<1>3. Free(P) # {}
  BY <1>2, FS_EmptySet DEF CanReserve
<1>4. PICK x \in Free(P) : \A y \in Free(P) : ~(y < x)
  BY <1>1, <1>3, LeastNatural
<1>5. {g \in Free(P) : g < x} = {}
  BY <1>4
<1>6. Cardinality({g \in Free(P) : g < x}) = 0
  BY <1>5, FS_EmptySet
<1>7. x \in LowestFree(P, n)
  BY <1>6 DEF LowestFree
<1> QED  BY <1>7

\* A PID appended to a queue that does not hold it: still no duplicates.
LEMMA AppendFresh ==
  ASSUME NEW q \in Seq(Pids), NEW p \in Pids, IsInjective(q), p \notin Range(q)
  PROVE  /\ Append(q, p) \in Seq(Pids)
         /\ IsInjective(Append(q, p))
         /\ Range(Append(q, p)) = Range(q) \cup {p}
<1> DEFINE r == Append(q, p)
<1>1. /\ r \in Seq(Pids) /\ Len(r) = Len(q) + 1
      /\ \A i \in 1 .. Len(q) : r[i] = q[i]
      /\ r[Len(q) + 1] = p
  BY AppendProperties
<1>2. /\ Len(q) \in Nat /\ DOMAIN q = 1 .. Len(q) /\ DOMAIN r = 1 .. Len(r)
  BY <1>1, LenProperties
<1> HIDE DEF r
<1>3. \A i \in 1 .. Len(r) : i \in 1 .. Len(q) \/ i = Len(q) + 1
  BY <1>1, <1>2
<1>4. IsInjective(r)
  BY <1>1, <1>2, <1>3 DEF IsInjective, Range
<1>5. Range(r) = Range(q) \cup {p}
  BY <1>1, <1>2, <1>3 DEF Range
<1> QED  BY <1>1, <1>4, <1>5 DEF r

\* A queue without duplicates loses exactly its head.
LEMMA TailLosesHead ==
  ASSUME NEW q \in Seq(Pids), q # << >>, IsInjective(q)
  PROVE  /\ Head(q) \in Range(q) /\ Head(q) \in Pids
         /\ Tail(q) \in Seq(Pids)
         /\ IsInjective(Tail(q))
         /\ Range(Tail(q)) = Range(q) \ {Head(q)}
<1> DEFINE r == Tail(q)  h == Head(q)
<1>1. /\ h \in Pids /\ r \in Seq(Pids) /\ Len(r) = Len(q) - 1
      /\ \A i \in 1 .. Len(r) : r[i] = q[i + 1]
  BY HeadTailProperties
<1>2. /\ Len(q) \in Nat \ {0} /\ DOMAIN q = 1 .. Len(q) /\ DOMAIN r = 1 .. Len(r)
  BY <1>1, EmptySeq, LenProperties
<1>3. h = q[1]
  BY <1>2
<1> HIDE DEF r, h
<1>4. 1 \in 1 .. Len(q)
  BY <1>2
<1>5. \A i \in 1 .. Len(r) : i + 1 \in 1 .. Len(q) /\ i + 1 # 1
  BY <1>1, <1>2
<1>6. \A k \in 1 .. Len(q) : k # 1 => k - 1 \in 1 .. Len(r) /\ r[k - 1] = q[k]
  BY <1>1, <1>2
<1>7. IsInjective(r)
  <2> SUFFICES ASSUME NEW a \in 1 .. Len(r), NEW b \in 1 .. Len(r), r[a] = r[b]
               PROVE  a = b
    BY <1>2 DEF IsInjective
  <2>1. a + 1 \in 1 .. Len(q) /\ b + 1 \in 1 .. Len(q) /\ q[a + 1] = q[b + 1]
    BY <1>1, <1>5
  <2>2. a + 1 = b + 1
    BY <1>2, <2>1 DEF IsInjective
  <2> QED  BY <2>2
<1>8. Range(r) = Range(q) \ {h}
  <2>1. \A i \in 1 .. Len(r) : r[i] \in Range(q) /\ r[i] # h
    BY <1>1, <1>2, <1>3, <1>4, <1>5 DEF IsInjective, Range
  <2>2. \A k \in 1 .. Len(q) : q[k] # h => q[k] \in Range(r)
    BY <1>2, <1>3, <1>6 DEF Range
  <2> QED  BY <1>2, <2>1, <2>2 DEF Range
<1>9. h \in Range(q)
  BY <1>2, <1>3, <1>4 DEF Range
<1> QED  BY <1>1, <1>7, <1>8, <1>9 DEF r, h

\* What a good table says, with the definitions opened that every proof needs.
LEMMA GoodFacts ==
  ASSUME NEW P, NEW images, NEW pid, NEW F, Good(P, images, pid, F)
  PROVE  /\ P.state \in [Pids -> States]
         /\ P.context \in [Pids -> Contexts \cup {None}]
         /\ P.frames \in [Pids -> SUBSET Frames]
         /\ P.queue \in Seq(Pids) /\ P.current \in 0 .. MaxPid
         /\ P.owner \in [Frames -> 0 .. MaxPid]
         /\ PcbsCheck(P, images) /\ RunningCheck(P) /\ QueueCheck(P)
         /\ CreatingCheck(P, images, pid) /\ FramesCheck(P, pid, F)
  BY DEF Good, Tables, Check

\* The empty table is checked, for any bound on the PIDs.
LEMMA EmptyGood ==
  ASSUME NEW images
  PROVE  /\ Good(EmptyTable, images, 0, {})
         /\ Pcbs(EmptyTable) = {} /\ EmptyTable.current = 0
<1> DEFINE P == EmptyTable
<1>1. P \in Tables
  <2>1. << >> \in Seq(Pids)  BY EmptySeq
  <2>2. 0 \in 0 .. MaxPid  BY ProcessesAssumption
  <2> QED  BY <2>1, <2>2 DEF EmptyTable, Tables, States
<1>2. Pcbs(P) = {} /\ \A x \in Pids : OwnedBy(P, x) = {} /\ P.state[x] = "Absent"
  BY DEF EmptyTable, Pcbs, OwnedBy, Pids
<1>3. P.current = 0 /\ \A f \in Frames : P.owner[f] = 0
  BY DEF EmptyTable
<1>4. RunningCheck(P)
  <2>1. \A x \in Pids : x # 0  BY DEF Pids
  <2> QED  BY <1>2, <1>3, <2>1 DEF RunningCheck
<1>5. PcbsCheck(P, images) /\ CreatingCheck(P, images, 0) /\ FramesCheck(P, 0, {})
  BY <1>2, <1>3 DEF PcbsCheck, CreatingCheck, FramesCheck
<1>6. QueueCheck(P)
  <2>1. P.queue = << >> /\ DOMAIN << >> = {}
    BY DEF EmptyTable
  <2> QED  BY <1>2, <2>1 DEF QueueCheck, IsInjective, Range
<1> QED  BY <1>1, <1>2, <1>3, <1>4, <1>5, <1>6 DEF Good, Check

\* In a good table the current process, if any, has a Running PCB.
LEMMA CurrentRuns ==
  ASSUME NEW P, NEW images, NEW pid, NEW F, Good(P, images, pid, F), P.current # 0
  PROVE  /\ P.current \in Pids /\ P.state[P.current] = "Running"
         /\ P.current \in Pcbs(P) /\ CanYield(P)
         /\ P.current \notin Range(P.queue)
<1>1. P.current \in Pids
  BY GoodFacts, ProcessesAssumption DEF Pids
<1>2. P.state[P.current] = "Running"
  BY <1>1, GoodFacts DEF RunningCheck
<1> QED  BY <1>1, <1>2, GoodFacts DEF Pcbs, CanYield, QueueCheck

\* yield_current keeps a checked table checked.
LEMMA YieldGood ==
  ASSUME NEW P, NEW images, NEW pid, NEW F, NEW c \in Contexts,
         Good(P, images, pid, F), P.current # 0
  PROVE  CanYield(P) /\ Good(Yield(P, c), images, pid, F)
<1> DEFINE p == P.current  Q == Yield(P, c)
<1>1. /\ p \in Pids /\ P.state[p] = "Running" /\ p \in Pcbs(P) /\ CanYield(P)
      /\ p \notin Range(P.queue)
  BY CurrentRuns
<1>2. /\ Q.state = [P.state EXCEPT ![p] = "Ready"]
      /\ Q.context = [P.context EXCEPT ![p] = c]
      /\ Q.frames = P.frames /\ Q.owner = P.owner
      /\ Q.queue = Append(P.queue, p) /\ Q.current = 0
  BY DEF Yield
<1>3. /\ Q.queue \in Seq(Pids) /\ IsInjective(Q.queue)
      /\ Range(Q.queue) = Range(P.queue) \cup {p}
  <2>1. P.queue \in Seq(Pids) /\ IsInjective(P.queue)  BY GoodFacts DEF QueueCheck
  <2> HIDE DEF Q, p
  <2> QED  BY <1>1, <1>2, <2>1, AppendFresh
<1>4. /\ Q.state \in [Pids -> States] /\ Q.context \in [Pids -> Contexts \cup {None}]
      /\ Q.frames \in [Pids -> SUBSET Frames] /\ Q.owner \in [Frames -> 0 .. MaxPid]
      /\ Q.current \in 0 .. MaxPid
  BY <1>1, <1>2, GoodFacts, ProcessesAssumption DEF States
<1>5. Q \in Tables
  BY <1>3, <1>4 DEF Tables, Yield
<1> HIDE DEF Q, p
<1>6. Pcbs(Q) = Pcbs(P)
  BY <1>1, <1>2, GoodFacts DEF Pcbs
<1>7. PcbsCheck(Q, images)
  BY <1>1, <1>2, <1>6, GoodFacts, ProcessesAssumption DEF PcbsCheck, Terminal, Pcbs
<1>8. RunningCheck(Q)
  <2>1. \A x \in Pids : x # 0 /\ (P.state[x] = "Running" <=> x = p)
    BY GoodFacts DEF RunningCheck, Pids, p
  <2>2. P.state \in [Pids -> States]
    BY GoodFacts
  <2>3. \A x \in Pids : Q.state[x] # "Running"
    BY <1>1, <1>2, <2>1, <2>2
  <2> QED  BY <1>2, <2>1, <2>3 DEF RunningCheck
<1>9. QueueCheck(Q)
  BY <1>1, <1>2, <1>3, GoodFacts DEF QueueCheck
<1>10. CreatingCheck(Q, images, pid) /\ FramesCheck(Q, pid, F)
  BY <1>2, <1>6, GoodFacts DEF CreatingCheck, FramesCheck, OwnedBy
<1> QED  BY <1>1, <1>5, <1>7, <1>8, <1>9, <1>10 DEF Good, Check, Q

\* end_current keeps a checked table checked and finds its frames owned.
LEMMA EndGood ==
  ASSUME NEW P, NEW images, NEW pid \in 0 .. MaxPid, NEW F, NEW how \in Terminal,
         Good(P, images, pid, F), P.current # 0
  PROVE  CanEnd(P) /\ Good(End(P, how), images, pid, F)
<1> DEFINE p == P.current  Q == End(P, how)
<1>1. /\ p \in Pids /\ P.state[p] = "Running" /\ p \in Pcbs(P) /\ CanYield(P)
      /\ p \notin Range(P.queue)
  BY CurrentRuns
<1>2. P.frames[p] = OwnedBy(P, p)
  BY <1>1, GoodFacts DEF FramesCheck
<1>3. CanEnd(P)
  BY <1>1, <1>2 DEF CanEnd
<1>4. /\ Q.state = [P.state EXCEPT ![p] = how]
      /\ Q.context = [P.context EXCEPT ![p] = None]
      /\ Q.frames = [P.frames EXCEPT ![p] = {}]
      /\ Q.owner = [f \in Frames |-> IF f \in P.frames[p] THEN 0 ELSE P.owner[f]]
      /\ Q.queue = P.queue /\ Q.current = 0
  BY DEF End, Release
<1>5. /\ Q.state \in [Pids -> States] /\ Q.context \in [Pids -> Contexts \cup {None}]
      /\ Q.frames \in [Pids -> SUBSET Frames] /\ Q.owner \in [Frames -> 0 .. MaxPid]
      /\ Q.current \in 0 .. MaxPid /\ Q.queue \in Seq(Pids)
  BY <1>1, <1>4, GoodFacts, ProcessesAssumption DEF States
<1>6. Q \in Tables
  BY <1>5 DEF Tables, End
<1> HIDE DEF Q, p
<1>7. Pcbs(Q) = Pcbs(P)
  BY <1>1, <1>4, GoodFacts DEF Pcbs, Terminal
<1>8. PcbsCheck(Q, images)
  BY <1>1, <1>4, <1>7, GoodFacts DEF PcbsCheck, Terminal, Pcbs
<1>9. RunningCheck(Q)
  <2>1. \A x \in Pids : x # 0 /\ (P.state[x] = "Running" <=> x = p)
    BY GoodFacts DEF RunningCheck, Pids, p
  <2>2. P.state \in [Pids -> States]
    BY GoodFacts
  <2>3. \A x \in Pids : Q.state[x] # "Running"
    BY <1>1, <1>4, <2>1, <2>2 DEF Terminal
  <2> QED  BY <1>4, <2>1, <2>3 DEF RunningCheck
<1>10. QueueCheck(Q)
  BY <1>1, <1>4, GoodFacts DEF QueueCheck, Terminal
<1>11. CreatingCheck(Q, images, pid)
  BY <1>7, GoodFacts DEF CreatingCheck
<1>12. FramesCheck(Q, pid, F)
  <2>1. \A x \in Pids : x # p => OwnedBy(Q, x) = OwnedBy(P, x)
    BY <1>2, <1>4 DEF OwnedBy, Pids
  <2>2. OwnedBy(Q, p) = {}
    BY <1>1, <1>2, <1>4 DEF OwnedBy, Pids
  <2>3. \A x \in Pcbs(Q) : Q.frames[x] = OwnedBy(Q, x)
    BY <1>1, <1>4, <1>7, <2>1, <2>2, GoodFacts DEF FramesCheck, Pcbs
  <2>4. pid # 0 => F = OwnedBy(Q, pid)
    BY <1>1, <2>1, GoodFacts, ProcessesAssumption DEF CreatingCheck, FramesCheck, Pids
  <2>5. \A f \in Frames : Q.owner[f] # 0 => Q.owner[f] \in Pcbs(Q) \/ Q.owner[f] = pid
    BY <1>4, <1>7, GoodFacts DEF FramesCheck
  <2> QED  BY <2>3, <2>4, <2>5 DEF FramesCheck
<1> QED  BY <1>3, <1>6, <1>8, <1>9, <1>10, <1>11, <1>12 DEF Good, Check, Q

\* schedule_next of a nonempty queue keeps a checked table checked.
LEMMA ScheduleGood ==
  ASSUME NEW P, NEW images, NEW pid, NEW F,
         Good(P, images, pid, F), P.current = 0, P.queue # << >>
  PROVE  CanSchedule(P) /\ Good(ScheduleNext(P), images, pid, F)
<1> DEFINE p == Head(P.queue)  Q == ScheduleNext(P)
<1>1. /\ p \in Range(P.queue) /\ p \in Pids
      /\ Tail(P.queue) \in Seq(Pids) /\ IsInjective(Tail(P.queue))
      /\ Range(Tail(P.queue)) = Range(P.queue) \ {p}
  <2>1. P.queue \in Seq(Pids) /\ IsInjective(P.queue)  BY GoodFacts DEF QueueCheck
  <2> QED  BY <2>1, TailLosesHead
<1>2. P.state[p] = "Ready" /\ p \in Pcbs(P) /\ P.context[p] # None
  <2>1. P.state[p] = "Ready"  BY <1>1, GoodFacts DEF QueueCheck
  <2>2. p \in Pcbs(P)  BY <1>1, <2>1 DEF Pcbs
  <2> QED  BY <2>1, <2>2, GoodFacts DEF PcbsCheck
<1>3. CanSchedule(P)
  BY <1>2 DEF CanSchedule
<1>4. /\ Q.state = [P.state EXCEPT ![p] = "Running"]
      /\ Q.context = [P.context EXCEPT ![p] = None]
      /\ Q.frames = P.frames /\ Q.owner = P.owner
      /\ Q.queue = Tail(P.queue) /\ Q.current = p
  BY DEF ScheduleNext
<1>5. /\ Q.state \in [Pids -> States] /\ Q.context \in [Pids -> Contexts \cup {None}]
      /\ Q.frames \in [Pids -> SUBSET Frames] /\ Q.owner \in [Frames -> 0 .. MaxPid]
      /\ Q.current \in 0 .. MaxPid /\ Q.queue \in Seq(Pids)
  BY <1>1, <1>4, GoodFacts, ProcessesAssumption DEF States, Pids
<1>6. Q \in Tables
  BY <1>5 DEF Tables, ScheduleNext
<1> HIDE DEF Q, p
<1>7. Pcbs(Q) = Pcbs(P)
  BY <1>1, <1>2, <1>4, GoodFacts DEF Pcbs
<1>8. PcbsCheck(Q, images)
  BY <1>1, <1>2, <1>4, <1>7, GoodFacts DEF PcbsCheck, Terminal, Pcbs
<1>9. RunningCheck(Q)
  <2>1. \A x \in Pids : x # 0 /\ (P.state[x] = "Running" <=> x = 0)
    BY GoodFacts DEF RunningCheck, Pids
  <2>2. P.state \in [Pids -> States]
    BY GoodFacts
  <2> QED  BY <1>1, <1>4, <2>1, <2>2 DEF RunningCheck
<1>10. QueueCheck(Q)
  BY <1>1, <1>2, <1>4, GoodFacts DEF QueueCheck
<1>11. CreatingCheck(Q, images, pid) /\ FramesCheck(Q, pid, F)
  BY <1>4, <1>7, GoodFacts DEF CreatingCheck, FramesCheck, OwnedBy
<1> QED  BY <1>3, <1>6, <1>8, <1>9, <1>10, <1>11 DEF Good, Check, Q

\* reserve for a new PID starts a creation a checked table accepts.
LEMMA ReserveGood ==
  ASSUME NEW P, NEW images \in Nat, NEW pid \in Pids, NEW n \in Nat \ {0},
         Good(P, images, 0, {}), pid <= images, pid \notin Pcbs(P), CanReserve(P, n)
  PROVE  /\ Good(Reserve(P, pid, n), images, pid, LowestFree(P, n))
         /\ LowestFree(P, n) # {}
         /\ LowestFree(P, n) \subseteq Frames
         /\ Pcbs(Reserve(P, pid, n)) = Pcbs(P)
<1> DEFINE F == LowestFree(P, n)  Q == Reserve(P, pid, n)
<1>1. P \in Tables  BY DEF Good
<1>2. F # {}  BY <1>1, LowestFreeNonempty
<1>3. F \subseteq Frames /\ \A f \in F : P.owner[f] = 0
  BY DEF LowestFree, Free
<1> HIDE DEF F
<1>4. /\ Q.state = P.state /\ Q.context = P.context /\ Q.frames = P.frames
      /\ Q.queue = P.queue /\ Q.current = P.current
      /\ Q.owner = [f \in Frames |-> IF f \in F THEN pid ELSE P.owner[f]]
  BY DEF Reserve, WithOwner, F
<1>5. Q.owner \in [Frames -> 0 .. MaxPid]
  BY <1>4, GoodFacts, ProcessesAssumption DEF Pids
<1>6. Q \in Tables
  BY <1>4, <1>5, GoodFacts DEF Tables, Reserve, WithOwner
<1> HIDE DEF Q
<1>7. Pcbs(Q) = Pcbs(P)
  BY <1>4 DEF Pcbs
<1>8. PcbsCheck(Q, images) /\ RunningCheck(Q) /\ QueueCheck(Q)
  BY <1>4, <1>7, GoodFacts DEF PcbsCheck, RunningCheck, QueueCheck
<1>9. CreatingCheck(Q, images, pid)
  BY <1>7 DEF CreatingCheck
<1>10. FramesCheck(Q, pid, F)
  <2>1. \A f \in Frames : P.owner[f] # pid
    BY GoodFacts, ProcessesAssumption DEF FramesCheck, Pids
  <2>2. OwnedBy(Q, pid) = F
    BY <1>3, <1>4, <2>1 DEF OwnedBy
  <2>3. \A x \in Pcbs(P) : OwnedBy(Q, x) = OwnedBy(P, x)
    BY <1>3, <1>4 DEF OwnedBy, Pcbs, Pids
  <2>4. \A x \in Pcbs(Q) : Q.frames[x] = OwnedBy(Q, x)
    BY <1>4, <1>7, <2>3, GoodFacts DEF FramesCheck
  <2>5. \A f \in Frames : Q.owner[f] # 0 => Q.owner[f] \in Pcbs(Q) \/ Q.owner[f] = pid
    BY <1>4, <1>7, GoodFacts DEF FramesCheck
  <2> QED  BY <2>2, <2>4, <2>5 DEF FramesCheck
<1> QED  BY <1>2, <1>3, <1>6, <1>7, <1>8, <1>9, <1>10 DEF Good, Check, Q, F

\* admit of the creation in flight ends it and keeps the table checked.
LEMMA AdmitGood ==
  ASSUME NEW P, NEW images \in Nat, NEW pid \in Pids, NEW F, NEW c \in Contexts,
         Good(P, images, pid, F), F # {}, \A q \in Pcbs(P) : q < pid
  PROVE  /\ CanAdmit(P, pid, F)
         /\ Good(Admit(P, pid, F, c), images, 0, {})
         /\ Pcbs(Admit(P, pid, F, c)) = Pcbs(P) \cup {pid}
<1> DEFINE Q == Admit(P, pid, F, c)
<1>1. /\ pid # 0 /\ pid \notin Pcbs(P) /\ pid <= images /\ F = OwnedBy(P, pid)
      /\ P.state[pid] = "Absent"
  <2>1. pid # 0  BY DEF Pids
  <2> QED  BY <2>1, GoodFacts DEF CreatingCheck, FramesCheck, Pcbs
<1>2. CanAdmit(P, pid, F)
  BY <1>1 DEF CanAdmit
<1>3. pid \notin Range(P.queue)
  BY <1>1, GoodFacts DEF QueueCheck
<1>4. /\ Q.state = [P.state EXCEPT ![pid] = "Ready"]
      /\ Q.context = [P.context EXCEPT ![pid] = c]
      /\ Q.frames = [P.frames EXCEPT ![pid] = F]
      /\ Q.owner = P.owner /\ Q.queue = Append(P.queue, pid) /\ Q.current = P.current
  BY DEF Admit
<1>5. /\ Q.queue \in Seq(Pids) /\ IsInjective(Q.queue)
      /\ Range(Q.queue) = Range(P.queue) \cup {pid}
  <2>1. P.queue \in Seq(Pids) /\ IsInjective(P.queue)  BY GoodFacts DEF QueueCheck
  <2> HIDE DEF Q
  <2> QED  BY <1>3, <1>4, <2>1, AppendFresh
<1>6. /\ Q.state \in [Pids -> States] /\ Q.context \in [Pids -> Contexts \cup {None}]
      /\ Q.frames \in [Pids -> SUBSET Frames] /\ Q.owner \in [Frames -> 0 .. MaxPid]
      /\ Q.current \in 0 .. MaxPid
  <2>1. F \in SUBSET Frames  BY <1>1 DEF OwnedBy
  <2>2. Q.frames \in [Pids -> SUBSET Frames]  BY <1>4, <2>1, GoodFacts
  <2>3. Q.state \in [Pids -> States]  BY <1>4, GoodFacts DEF States
  <2>4. /\ P.context \in [Pids -> Contexts \cup {None}]
        /\ P.owner \in [Frames -> 0 .. MaxPid] /\ P.current \in 0 .. MaxPid
    BY GoodFacts
  <2> HIDE DEF Q
  <2>5. Q.context \in [Pids -> Contexts \cup {None}]  BY <1>4, <2>4
  <2> QED  BY <1>4, <2>2, <2>3, <2>4, <2>5
<1>7. Q \in Tables
  BY <1>5, <1>6 DEF Tables, Admit
<1> HIDE DEF Q
<1>8. Pcbs(Q) = Pcbs(P) \cup {pid}
  BY <1>4, GoodFacts DEF Pcbs
<1>9. PcbsCheck(Q, images)
  BY <1>1, <1>4, <1>8, GoodFacts, ProcessesAssumption DEF PcbsCheck, Terminal, Pcbs
<1>10. RunningCheck(Q)
  <2>1. \A x \in Pids : P.state[x] = "Running" <=> x = P.current
    BY GoodFacts DEF RunningCheck
  <2>2. P.state \in [Pids -> States]
    BY GoodFacts
  <2> QED  BY <1>1, <1>4, <2>1, <2>2 DEF RunningCheck
<1>11. QueueCheck(Q)
  BY <1>4, <1>5, GoodFacts DEF QueueCheck
<1>12. CreatingCheck(Q, images, 0) /\ FramesCheck(Q, 0, {})
  <2>1. \A x \in Pids : OwnedBy(Q, x) = OwnedBy(P, x)
    BY <1>4 DEF OwnedBy
  <2> QED  BY <1>1, <1>4, <1>8, <2>1, GoodFacts DEF CreatingCheck, FramesCheck, Pcbs
<1> QED  BY <1>2, <1>7, <1>8, <1>9, <1>10, <1>11, <1>12 DEF Good, Check, Q

=============================================================================
