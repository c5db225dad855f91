------------------------ MODULE ModeledKernelProofs ------------------------
(***************************************************************************)
(* The kernel uses its process table legally: for any images, any number   *)
(* of processes and frames, and whoever writes to the gate and to the trap *)
(* frame, the table passes Processes::check and no Violation is returned   *)
(* before the shutdown.                                                    *)
(***************************************************************************)
EXTENDS ModeledKernel, ProcessesProofs

RunKinds == {"ReadFrame", "Dispatch", "Return", "Walk", "Output"}
Kinds == {"none", "Create", "Shutdown"} \cup BootKinds \cup RunKinds

\* What a stage needs of the model so that its end makes only legal calls: a
\* creation is above every PCB and has frames, a boot stage is within the
\* table of entries, a trap's stage has a running process.  An idle kernel
\* is before its boot with an empty table, runs a process, or is down.
KernelOk(l, n, P, s) ==
  /\ n \in {0, MaxPid} /\ (~Disk => n = MaxPid)
  /\ Good(P, n, CreationOf(s).pid, CreationOf(s).frames)
  /\ s.kind \in Kinds
  /\ s.kind \in CreationKinds => s.pid \in Pids /\ s.frames # {}
  /\ s.kind = "Create" => ~Disk
  /\ s.kind \in BootKinds => Disk /\ s.pid \in 0 .. n
  /\ s.kind \in BootKinds \cup {"Create"} => P.current = 0 /\ \A q \in Pcbs(P) : q < s.pid
  /\ s.kind = "Staged" => s.len \in Nat
  /\ s.kind \in RunKinds => l = "Up" /\ P.current # 0
  /\ s.kind \in {"Dispatch", "Return"} => s.pc \in Contexts
  /\ s.kind \in {"Walk", "Output"} => s.buf.pc \in Contexts
  /\ s.kind = "Shutdown" => l = "Down"
  /\ s.kind # "none" => l # "AwaitBoot"
  /\ s.kind = "none" =>
       \/ l = "AwaitBoot" /\ Pcbs(P) = {} /\ P.current = 0
       \/ l = "Up" /\ P.current # 0
       \/ l = "Down"

FrameOk(f) ==
  /\ DOMAIN f = {"pc", "root", "cause", "va", "n", "action"}
  /\ f.pc \in Contexts
  /\ f.cause \in Causes \cup {"simple"}

\* The inductive invariant.
KInv ==
  /\ KernelOk(life, entries, procs, stage)
  /\ held \in BOOLEAN /\ (held <=> stage.kind # "none")
  /\ engine # "Idle" <=> stage.kind # "none"
  /\ FrameOk(frame)

\* A decision that leaves the kernel with a stage it can be in.
DecisionOk(d) == KernelOk(d.life, d.entries, d.procs, d.stage) /\ d.stage.kind # "none"

\* The number of images known: all of them, or none before a disk's table is parsed.
EntriesOk(n) == n \in {0, MaxPid} /\ (~Disk => n = MaxPid)

-----------------------------------------------------------------------------

\* An image needs at least the frame of its root table.
LEMMA FramesNeededPositive ==
  ASSUME NEW p \in Pids
  PROVE  FramesNeeded(Images[p]) \in Nat \ {0}
<1> DEFINE img == Images[p]  n == Len(img.pages)  S == {j \in 1 .. n : NewSlot(img, j)}
<1>1. n \in Nat
  BY KernelAssumption, LenProperties DEF ImageType
<1>2. IsFiniteSet(S)
  <2>1. IsFiniteSet(1 .. n)  BY <1>1, FS_Interval
  <2> QED  BY <2>1, FS_Subset
<1>3. Cardinality(S) \in Nat
  BY <1>2, FS_CardinalityType
<1> HIDE DEF S
<1>4. FramesNeeded(img) = 1 + Cardinality(S) + n
  BY DEF FramesNeeded, TablesUpTo, S
<1> QED  BY <1>1, <1>3, <1>4

\* The pc after a system call is a context again.
LEMMA AfterContext ==
  ASSUME NEW pc \in Contexts
  PROVE  After(pc) \in Contexts
BY KernelAssumption DEF After

\* An empty creation is that of any stage that creates nothing.
LEMMA NoCreation ==
  ASSUME NEW s, s.kind \notin CreationKinds
  PROVE  CreationOf(s).pid = 0 /\ CreationOf(s).frames = {}
BY DEF CreationOf

\* A table without PCBs stays checked when the entries become known.
LEMMA MoreEntries ==
  ASSUME NEW P, NEW n, Good(P, n, 0, {}), Pcbs(P) = {}
  PROVE  Good(P, MaxPid, 0, {})
BY DEF Good, Check, PcbsCheck, CreatingCheck

\* dispatch_next on a checked table with nothing running makes no Violation:
\* it runs the head of the queue or shuts down.
LEMMA DispatchOk ==
  ASSUME NEW n, NEW P, EntriesOk(n), Good(P, n, 0, {}), P.current = 0
  PROVE  DecisionOk(DispatchNext(n, P))
<1> DEFINE d == DispatchNext(n, P)
<1>1. CASE P.queue = << >>
  <2>1. CanSchedule(P)  BY <1>1 DEF CanSchedule
  <2>2. d = Decision("Down", n, P, Shutdown(EmptyQueueReason(P, n)))
    BY <1>1, <2>1 DEF DispatchNext
  <2> QED
    BY <2>2 DEF DecisionOk, KernelOk, EntriesOk, Decision, Shutdown, CreationOf,
                CreationKinds, Kinds, BootKinds, RunKinds
<1>2. CASE P.queue # << >>
  <2> DEFINE h == Head(P.queue)  Q == ScheduleNext(P)
  <2>1. CanSchedule(P) /\ Good(Q, n, 0, {})  BY <1>2, ScheduleGood
  <2>2. d = Decision("Up", n, Q, Dispatch(h, P.context[h]))
    BY <1>2, <2>1 DEF DispatchNext
  <2>3. h \in Pids /\ P.context[h] \in Contexts
    BY <1>2, <2>1, GoodFacts DEF CanSchedule, Pcbs
  <2>4. Q.current # 0
    BY <2>3 DEF ScheduleNext, Pids
  <2> HIDE DEF Q, h
  <2> QED
    BY <2>1, <2>2, <2>3, <2>4 DEF DecisionOk, KernelOk, EntriesOk, Decision, Dispatch,
       CreationOf, CreationKinds, Kinds, BootKinds, RunKinds
<1> QED  BY <1>1, <1>2

\* next_creation after the PID from, with every PCB at most from: the image it
\* chooses is above every PCB, and its frames are reserved.
LEMMA NextCreationOk ==
  ASSUME NEW n, NEW P, NEW from \in Nat, EntriesOk(n), ~Disk, Good(P, n, 0, {}),
         P.current = 0, \A q \in Pcbs(P) : q <= from
  PROVE  DecisionOk(NextCreation(n, P, from))
<1> DEFINE next == {p \in Pids : p > from /\ Creatable(P, p)}
           pid == CHOOSE p \in next : \A q \in next : p <= q
           k == FramesNeeded(Images[pid])
           Q == Reserve(P, pid, k)
           F == LowestFree(P, k)
<1>1. CASE next = {}
  <2>1. NextCreation(n, P, from) = DispatchNext(n, P)
    BY <1>1 DEF NextCreation
  <2> QED  BY <2>1, DispatchOk
<1>2. CASE next # {}
  <2>1. next \subseteq Nat
    BY ProcessesAssumption DEF Pids
  <2>2. PICK x \in next : \A y \in next : ~(y < x)
    BY <1>2, <2>1, LeastNatural
  <2>3. \A y \in next : x <= y
    BY <2>1, <2>2
  <2>4. pid \in next
    BY <2>2, <2>3
  <2>5. pid \in Pids /\ pid > from /\ Creatable(P, pid)
    BY <2>4
  <2>6. NextCreation(n, P, from) = Decision("Up", n, Q, Create(pid, F))
    BY <1>2 DEF NextCreation
  <2> HIDE DEF next, pid
  <2>7. k \in Nat \ {0} /\ CanReserve(P, k)
    BY <2>5, FramesNeededPositive DEF Creatable
  <2>8. /\ pid \notin Pcbs(P) /\ pid <= n /\ n \in Nat
        /\ \A q \in Pcbs(P) : q < pid
    BY <2>5, ProcessesAssumption DEF EntriesOk, Pids, Pcbs
  <2> HIDE DEF k
  <2>9. /\ Good(Q, n, pid, F) /\ F # {}
        /\ Pcbs(Q) = Pcbs(P)
    BY <2>5, <2>7, <2>8, ReserveGood
  <2>10. Q.current = 0
    BY DEF Reserve, WithOwner
  <2> HIDE DEF Q, F
  <2> QED
    BY <2>5, <2>6, <2>8, <2>9, <2>10 DEF DecisionOk, KernelOk, EntriesOk, Decision, Create,
       CreationOf, CreationKinds, Kinds, BootKinds, RunKinds
<1> QED  BY <1>1, <1>2

\* next_load at a PID above every PCB: the entry's command, or the first dispatch.
LEMMA NextLoadOk ==
  ASSUME NEW n, NEW P, NEW pid \in Nat, EntriesOk(n), Disk, Good(P, n, 0, {}),
         P.current = 0, \A q \in Pcbs(P) : q < pid
  PROVE  DecisionOk(NextLoad(n, P, pid))
<1>1. CASE pid <= n
  <2>1. NextLoad(n, P, pid) = Decision("Up", n, P, Command(pid))
    BY <1>1 DEF NextLoad
  <2>2. pid \in 0 .. n
    BY <1>1, ProcessesAssumption DEF EntriesOk
  <2> QED
    BY <2>1, <2>2 DEF DecisionOk, KernelOk, EntriesOk, Decision, Command, CreationOf,
       CreationKinds, Kinds, BootKinds, RunKinds
<1>2. CASE ~(pid <= n)
  <2>1. NextLoad(n, P, pid) = DispatchNext(n, P)
    BY <1>2 DEF NextLoad
  <2> QED  BY <2>1, DispatchOk
<1> QED  BY <1>1, <1>2

\* A decision to fail leads to the shutdown.
LEMMA FailOk ==
  ASSUME NEW n, NEW P, EntriesOk(n), Good(P, n, 0, {})
  PROVE  DecisionOk(Fail(n, P))
BY DEF Fail, DecisionOk, KernelOk, EntriesOk, Decision, Shutdown, CreationOf, CreationKinds,
       Kinds, BootKinds, RunKinds

-----------------------------------------------------------------------------

\* Model::start on an idle kernel before the shutdown makes no Violation.
LEMMA StartOk ==
  ASSUME KInv, ~held, life # "Down", NEW value \in {"enter", "wrong"}
  PROVE  DecisionOk(Start(value))
<1>1. /\ stage.kind = "none" /\ EntriesOk(entries)
      /\ \/ life = "AwaitBoot" /\ Pcbs(procs) = {} /\ procs.current = 0
         \/ life = "Up" /\ procs.current # 0
  BY DEF KInv, KernelOk, EntriesOk
<1>2. Good(procs, entries, 0, {})
  BY <1>1, NoCreation DEF KInv, KernelOk, CreationKinds
<1>3. CASE value = "wrong"
  <2>1. Start(value) = Fail(entries, procs)
    BY <1>3 DEF Start
  <2> QED  BY <1>1, <1>2, <2>1, FailOk
<1>4. CASE value = "enter" /\ life = "AwaitBoot" /\ Disk
  <2>1. Start(value) = Decision("Up", entries, procs, Command(0))
    BY <1>4 DEF Start
  <2>2. 0 \in 0 .. entries
    BY <1>1, ProcessesAssumption DEF EntriesOk
  <2> QED
    BY <1>1, <1>2, <1>4, <2>1, <2>2 DEF DecisionOk, KernelOk, EntriesOk, Decision, Command,
       CreationOf, CreationKinds, Kinds, BootKinds, RunKinds
<1>5. CASE value = "enter" /\ life = "AwaitBoot" /\ ~Disk
  <2>1. Start(value) = NextCreation(entries, procs, 0)
    BY <1>5 DEF Start
  <2> QED  BY <1>1, <1>2, <1>5, <2>1, NextCreationOk
<1>6. CASE value = "enter" /\ life = "Up"
  <2>1. Start(value) = Decision(life, entries, procs, ReadFrame)
    BY <1>1, <1>6 DEF Start
  <2> QED
    BY <1>1, <1>2, <1>6, <2>1 DEF DecisionOk, KernelOk, EntriesOk, Decision, ReadFrame,
       CreationOf, CreationKinds, Kinds, BootKinds, RunKinds
<1> QED  BY <1>1, <1>3, <1>4, <1>5, <1>6

\* The facts every stage but a creation gives.
LEMMA StageFacts ==
  ASSUME KInv, stage.kind \notin CreationKinds
  PROVE  EntriesOk(entries) /\ Good(procs, entries, 0, {}) /\ procs \in Tables
BY NoCreation DEF KInv, KernelOk, EntriesOk, Good

\* A created process is admitted: its frames are its own and its PID is new.
LEMMA AfterAdmitOk ==
  ASSUME KInv, stage.kind \in CreationKinds
  PROVE  DecisionOk(AfterAdmit(stage))
<1> DEFINE pid == stage.pid  F == stage.frames  P == Admit(procs, pid, F, 0)
<1>1. /\ EntriesOk(entries) /\ Good(procs, entries, pid, F) /\ pid \in Pids /\ F # {}
      /\ procs.current = 0 /\ \A q \in Pcbs(procs) : q < pid
      /\ stage.kind = "Create" => ~Disk
      /\ stage.kind = "Load" => Disk
  BY DEF KInv, KernelOk, EntriesOk, CreationOf, CreationKinds, BootKinds
<1>2. entries \in Nat /\ 0 \in Contexts /\ pid \in Nat
  BY <1>1, ProcessesAssumption, KernelAssumption DEF EntriesOk, Pids
<1>3. /\ CanAdmit(procs, pid, F)
      /\ Good(P, entries, 0, {})
      /\ Pcbs(P) = Pcbs(procs) \cup {pid}
  BY <1>1, <1>2, AdmitGood
<1>4. P.current = 0
  BY <1>1 DEF Admit
<1>5. \A q \in Pcbs(P) : q <= pid /\ q < pid + 1
  BY <1>1, <1>2, <1>3 DEF Pcbs, Pids
<1>6. CASE stage.kind = "Create"
  <2>1. AfterAdmit(stage) = NextCreation(entries, P, pid)
    BY <1>3, <1>6 DEF AfterAdmit
  <2> HIDE DEF P
  <2> QED  BY <1>1, <1>2, <1>3, <1>4, <1>5, <1>6, <2>1, NextCreationOk
<1>7. CASE stage.kind = "Load"
  <2>1. AfterAdmit(stage) = NextLoad(entries, P, pid + 1)
    BY <1>3, <1>7 DEF AfterAdmit
  <2>2. pid + 1 \in Nat
    BY <1>2
  <2> HIDE DEF P
  <2> QED  BY <1>1, <1>3, <1>4, <1>5, <1>7, <2>1, <2>2, NextLoadOk
<1> QED  BY <1>6, <1>7 DEF CreationKinds

\* The stages of a disk boot that create nothing.
LEMMA BootOk ==
  ASSUME KInv, stage.kind \in BootKinds \ CreationKinds
  PROVE  /\ EntriesOk(entries) /\ Good(procs, entries, 0, {}) /\ Disk
         /\ stage.pid \in 0 .. entries /\ stage.pid \in Nat /\ entries \in Nat
         /\ procs.current = 0 /\ \A q \in Pcbs(procs) : q < stage.pid
         /\ life # "AwaitBoot"
         /\ \A t : t.kind \in BootKinds \ CreationKinds /\ t.pid = stage.pid
                     /\ (t.kind = "Staged" => t.len \in Nat)
                  => DecisionOk(Decision(life, entries, procs, t))
         /\ DecisionOk(NextLoad(entries, procs, stage.pid + 1))
<1>1. /\ EntriesOk(entries) /\ Good(procs, entries, 0, {})
  BY StageFacts
<1>2. /\ Disk /\ stage.pid \in 0 .. entries
      /\ procs.current = 0 /\ \A q \in Pcbs(procs) : q < stage.pid
      /\ life # "AwaitBoot"
  BY DEF KInv, KernelOk, BootKinds
<1>3. entries \in Nat /\ stage.pid \in Nat
  BY <1>1, <1>2, ProcessesAssumption DEF EntriesOk
<1>4. ASSUME NEW t, t.kind \in BootKinds \ CreationKinds, t.pid = stage.pid,
             t.kind = "Staged" => t.len \in Nat
      PROVE  DecisionOk(Decision(life, entries, procs, t))
  BY <1>1, <1>2, <1>4 DEF DecisionOk, KernelOk, EntriesOk, Decision, CreationOf,
     CreationKinds, Kinds, BootKinds, RunKinds
<1>5. \A q \in Pcbs(procs) : q < stage.pid + 1
  BY <1>2, <1>3 DEF Pcbs, Pids
<1>6. DecisionOk(NextLoad(entries, procs, stage.pid + 1))
  BY <1>1, <1>2, <1>3, <1>5, NextLoadOk
<1> QED  BY <1>1, <1>2, <1>3, <1>4, <1>6

\* The acknowledged read: a table that cannot be read fails the boot, an entry
\* that cannot is skipped.
LEMMA AckedOk ==
  ASSUME KInv, stage.kind = "Ack"
  PROVE  DecisionOk(Acked(stage))
<1>0. stage.kind \in BootKinds \ CreationKinds
  BY DEF BootKinds, CreationKinds
<1>1. CASE ~stage.error
  <2>1. Acked(stage) = Decision(life, entries, procs, Staged(stage.pid, 1))
    BY <1>1 DEF Acked
  <2>2. /\ Staged(stage.pid, 1).kind \in BootKinds \ CreationKinds
        /\ Staged(stage.pid, 1).pid = stage.pid /\ Staged(stage.pid, 1).len \in Nat
    BY DEF Staged, BootKinds, CreationKinds
  <2> QED  BY <1>0, <2>1, <2>2, BootOk
<1>2. CASE stage.error /\ stage.pid = 0
  <2>1. Acked(stage) = Fail(entries, procs)
    BY <1>2 DEF Acked
  <2> QED  BY <1>0, <2>1, BootOk, FailOk
<1>3. CASE stage.error /\ stage.pid # 0
  <2>1. Acked(stage) = NextLoad(entries, procs, stage.pid + 1)
    BY <1>3 DEF Acked
  <2> QED  BY <1>0, <2>1, BootOk
<1> QED  BY <1>1, <1>2, <1>3

\* Block 0 is staged: all the entries become known while there are no PCBs.
LEMMA StagedTableOk ==
  ASSUME KInv, stage.kind = "Staged", stage.pid = 0, NEW a
  PROVE  DecisionOk(StagedTable(a))
<1>0. stage.kind \in BootKinds \ CreationKinds
  BY DEF BootKinds, CreationKinds
<1>1. CASE a = "badtable"
  BY <1>0, <1>1, BootOk, FailOk DEF StagedTable
<1>2. CASE a # "badtable"
  <2>1. Pcbs(procs) = {}
    BY <1>0, BootOk DEF Pcbs, Pids
  <2>2. Good(procs, MaxPid, 0, {})
    BY <1>0, <2>1, BootOk, MoreEntries
  <2>3. EntriesOk(MaxPid) /\ 1 \in Nat
    BY DEF EntriesOk
  <2>4. StagedTable(a) = NextLoad(MaxPid, procs, 1)
    BY <1>2 DEF StagedTable
  <2> QED  BY <1>0, <2>1, <2>2, <2>3, <2>4, BootOk, NextLoadOk
<1> QED  BY <1>1, <1>2

\* An image's headers are read on, its creation starts, or it is skipped.
LEMMA StagedImageOk ==
  ASSUME KInv, stage.kind = "Staged", stage.pid # 0
  PROVE  DecisionOk(StagedImage(stage))
<1> DEFINE pid == stage.pid  img == Images[pid]  k == FramesNeeded(img)
           Q == Reserve(procs, pid, k)  F == LowestFree(procs, k)
           More == stage.len < img.reads
           Fits == img.elf /\ Creatable(procs, pid)
<1>0. stage.kind \in BootKinds \ CreationKinds
  BY DEF BootKinds, CreationKinds
<1>1. stage.len \in Nat
  BY DEF KInv, KernelOk
<1>2. pid \in Pids /\ pid <= entries
  BY <1>0, BootOk, ProcessesAssumption DEF EntriesOk, Pids
<1>3. ~More <=> stage.len >= img.reads
  <2>1. img \in ImageType
    BY <1>2, KernelAssumption
  <2>2. img.reads \in {1, 2}
    BY <2>1 DEF ImageType
  <2> QED  BY <1>1, <2>2
<1>4. CASE More
  <2>1. StagedImage(stage) = Decision(life, entries, procs, Staged(pid, stage.len + 1))
    BY <1>3, <1>4 DEF StagedImage
  <2>2. /\ Staged(pid, stage.len + 1).kind \in BootKinds \ CreationKinds
        /\ Staged(pid, stage.len + 1).pid = pid /\ Staged(pid, stage.len + 1).len \in Nat
    BY <1>1 DEF Staged, BootKinds, CreationKinds
  <2> QED  BY <1>0, <2>1, <2>2, BootOk
<1>5. CASE ~More /\ Fits
  <2>1. StagedImage(stage) = Decision(life, entries, Q, Load(pid, F))
    BY <1>3, <1>5 DEF StagedImage
  <2>2. k \in Nat \ {0} /\ CanReserve(procs, k)
    BY <1>2, <1>5, FramesNeededPositive DEF Creatable
  <2>3. pid \notin Pcbs(procs)
    BY <1>0, <1>2, BootOk
  <2> HIDE DEF k
  <2>4. Good(Q, entries, pid, F) /\ F # {} /\ Pcbs(Q) = Pcbs(procs)
    BY <1>0, <1>2, <2>2, <2>3, BootOk, ReserveGood
  <2>5. Q.current = 0
    BY <1>0, BootOk DEF Reserve, WithOwner
  <2>6. /\ EntriesOk(entries) /\ Disk /\ pid \in 0 .. entries /\ life # "AwaitBoot"
        /\ \A q \in Pcbs(Q) : q < pid
    BY <1>0, <2>4, BootOk
  <2> DEFINE t == Load(pid, F)
  <2>7. /\ t.kind = "Load" /\ t.pid = pid /\ t.frames = F
        /\ CreationOf(t).pid = pid /\ CreationOf(t).frames = F
    BY DEF Load, CreationOf, CreationKinds
  <2> HIDE DEF Q, F, pid, More, Fits, t
  <2>8. KernelOk(life, entries, Q, t) /\ t.kind # "none"
    BY <1>2, <2>4, <2>5, <2>6, <2>7 DEF KernelOk, EntriesOk, CreationKinds, Kinds, BootKinds,
       RunKinds
  <2>9. StagedImage(stage) = Decision(life, entries, Q, t)
    BY <2>1 DEF t
  <2> QED  BY <2>8, <2>9 DEF DecisionOk, Decision
<1>6. CASE ~More /\ ~Fits
  <2>1. StagedImage(stage) = NextLoad(entries, procs, pid + 1)
    BY <1>3, <1>6 DEF StagedImage
  <2> QED  BY <1>0, <2>1, BootOk
<1> QED  BY <1>4, <1>5, <1>6

\* The trap of a running process: whatever the frame says, the call it makes of
\* the table is legal.
LEMMA DecideOk ==
  ASSUME KInv, stage.kind = "ReadFrame"
  PROVE  DecisionOk(Decide(frame))
<1> DEFINE buf == [pc |-> frame.pc, va |-> frame.va, n |-> frame.n]
           root == Root(procs.frames[procs.current])
<1>1. /\ EntriesOk(entries) /\ Good(procs, entries, 0, {})
  BY StageFacts DEF CreationKinds
<1>2. /\ life = "Up" /\ procs.current # 0 /\ frame.pc \in Contexts
      /\ frame.cause \in {"simple", "write", "yield", "exit0", "exit1", "fault", "smode"}
  BY KernelAssumption DEF KInv, KernelOk, FrameOk, RunKinds
<1>3. ASSUME NEW how \in Terminal  PROVE DecisionOk(AfterEnd(how))
  <2> DEFINE P == End(procs, how)
  <2>1. 0 \in 0 .. MaxPid
    BY ProcessesAssumption
  <2>2. CanEnd(procs) /\ Good(P, entries, 0, {})
    BY <1>1, <1>2, <2>1, EndGood
  <2>3. P.current = 0
    BY DEF End
  <2>4. AfterEnd(how) = DispatchNext(entries, P)
    BY <2>2 DEF AfterEnd
  <2> HIDE DEF P
  <2> QED  BY <1>1, <2>2, <2>3, <2>4, DispatchOk
<1>4. ASSUME NEW t, t.kind \in {"Return", "Walk"}, t.kind = "Return" => t.pc \in Contexts,
             t.kind = "Walk" => t.buf.pc \in Contexts
      PROVE  DecisionOk(Decision(life, entries, procs, t))
  BY <1>1, <1>2, <1>4 DEF DecisionOk, KernelOk, EntriesOk, Decision, CreationOf,
     CreationKinds, Kinds, BootKinds, RunKinds
<1>5. CASE frame.cause = "smode"
  <2>1. Decide(frame) = Fail(entries, procs)
    BY <1>5 DEF Decide
  <2> QED  BY <1>1, <2>1, FailOk
<1>6. CASE frame.cause = "fault"
  <2>1. Decide(frame) = AfterEnd("Faulted")
    BY <1>6 DEF Decide
  <2> QED  BY <1>3, <2>1 DEF Terminal
<1>7. frame.cause \notin {"smode", "fault"} => Decide(frame) = Syscall(frame)
  BY <1>2 DEF Decide
<1>8. CASE frame.cause = "exit0"
  <2>1. Syscall(frame) = AfterEnd("ExitedZero")
    BY <1>8 DEF Syscall
  <2> QED  BY <1>3, <1>7, <1>8, <2>1 DEF Terminal
<1>9. CASE frame.cause = "exit1"
  <2>1. Syscall(frame) = AfterEnd("ExitedOther")
    BY <1>9 DEF Syscall
  <2> QED  BY <1>3, <1>7, <1>9, <2>1 DEF Terminal
<1>10. CASE frame.cause = "yield"
  <2> DEFINE P == Yield(procs, After(frame.pc))
  <2>1. CanYield(procs) /\ Good(P, entries, 0, {})
    BY <1>1, <1>2, AfterContext, YieldGood
  <2>2. P.current = 0
    BY DEF Yield
  <2>3. Syscall(frame) = DispatchNext(entries, P)
    BY <1>10, <2>1 DEF Syscall
  <2> HIDE DEF P
  <2> QED  BY <1>1, <1>7, <1>10, <2>1, <2>2, <2>3, DispatchOk
<1>11. CASE frame.cause = "simple"
  <2>1. Syscall(frame) = Decision(life, entries, procs, Return(frame.pc))
    BY <1>11 DEF Syscall
  <2>2. Return(frame.pc).kind = "Return" /\ Return(frame.pc).pc = frame.pc
    BY DEF Return
  <2> QED  BY <1>2, <1>4, <1>7, <1>11, <2>1, <2>2
<1>12. CASE frame.cause = "write"
  <2> DEFINE w == Walk(buf, << >>, root, 1)
  <2>1. Syscall(frame) = Decision(life, entries, procs, w)
    BY <1>12 DEF Syscall
  <2>2. w.kind = "Walk" /\ w.buf.pc = frame.pc
    BY DEF Walk
  <2> HIDE DEF w
  <2> QED  BY <1>2, <1>4, <1>7, <1>12, <2>1, <2>2
<1> QED  BY <1>2, <1>5, <1>6, <1>8, <1>9, <1>10, <1>11, <1>12

\* A step of the user copy keeps the process that makes the call running.
LEMMA CopyOk ==
  ASSUME KInv, stage.kind \in {"Walk", "Output"},
         NEW t \in {Walked(stage), OutputDone(stage)}
  PROVE  DecisionOk(Decision(life, entries, procs, t))
<1>1. /\ EntriesOk(entries) /\ Good(procs, entries, 0, {})
  BY StageFacts DEF CreationKinds
<1>2. life = "Up" /\ procs.current # 0 /\ stage.buf.pc \in Contexts
  BY DEF KInv, KernelOk, RunKinds
<1>3. /\ t.kind \in {"Walk", "Output", "Return"}
      /\ t.kind = "Return" => t.pc = stage.buf.pc
      /\ t.kind \in {"Walk", "Output"} => t.buf.pc = stage.buf.pc
  <2> DEFINE pte == PteRead(stage)  pages == Append(stage.pages, pte.ppn)
             root == Root(procs.frames[procs.current])
  <2>1. Walked(stage) \in {Walk(stage.buf, stage.pages, pte.ppn, 0), Return(stage.buf.pc),
                           Output(stage.buf, pages, 0), Walk(stage.buf, pages, root, 1)}
    BY DEF Walked
  <2>2. OutputDone(stage) \in {Return(stage.buf.pc),
                               Output(stage.buf, stage.pages, stage.done + 1)}
    BY DEF OutputDone
  <2> HIDE DEF pte, pages, root
  <2>3. CASE t = Return(stage.buf.pc)
    BY <2>3 DEF Return
  <2>4. ASSUME NEW ps, NEW table, NEW level, t = Walk(stage.buf, ps, table, level)
        PROVE  t.kind = "Walk" /\ t.buf.pc = stage.buf.pc
    BY <2>4 DEF Walk
  <2>5. ASSUME NEW ps, NEW done, t = Output(stage.buf, ps, done)
        PROVE  t.kind = "Output" /\ t.buf.pc = stage.buf.pc
    BY <2>5 DEF Output
  <2> QED  BY <2>1, <2>2, <2>3, <2>4, <2>5
<1> QED
  BY <1>1, <1>2, <1>3 DEF DecisionOk, KernelOk, EntriesOk, Decision, CreationOf,
     CreationKinds, Kinds, BootKinds, RunKinds

\* Model::advance past any stage makes no Violation: it adopts a stage the kernel
\* can be in, or the operation is over.
LEMMA AdvanceOk ==
  ASSUME KInv, stage.kind # "none", NEW a
  PROVE  \/ DecisionOk(Advance(stage, a))
         \/ /\ stage.kind \in {"Dispatch", "Shutdown", "Return"}
            /\ Advance(stage, a) = Decision(life, entries, procs, NoStage)
<1>0. stage.kind \in Kinds
  BY DEF KInv, KernelOk
<1>1. CASE stage.kind \in CreationKinds
  <2>1. Advance(stage, a) = AfterAdmit(stage)
    BY <1>1 DEF Advance, CreationKinds
  <2> QED  BY <1>1, <2>1, AfterAdmitOk
<1>2. CASE stage.kind = "Command"
  <2>1. Advance(stage, a) = Decision(life, entries, procs, Poll(stage.pid))
    BY <1>2 DEF Advance, CreationKinds
  <2>2. stage.kind \in BootKinds \ CreationKinds
    BY <1>2 DEF BootKinds, CreationKinds
  <2>3. Poll(stage.pid).kind = "Poll" /\ Poll(stage.pid).pid = stage.pid
    BY DEF Poll
  <2>4. Poll(stage.pid).kind \in BootKinds \ CreationKinds /\ Poll(stage.pid).kind # "Staged"
    BY <2>3 DEF BootKinds, CreationKinds
  <2> QED  BY <2>1, <2>2, <2>3, <2>4, BootOk
<1>3. CASE stage.kind = "Poll"
  <2>1. PICK t \in {Poll(stage.pid), Ack(stage.pid, a = "error")} :
          Advance(stage, a) = Decision(life, entries, procs, t)
    BY <1>3 DEF Advance, CreationKinds
  <2>2. stage.kind \in BootKinds \ CreationKinds
    BY <1>3 DEF BootKinds, CreationKinds
  <2>3. t.kind \in {"Poll", "Ack"} /\ t.pid = stage.pid
    BY <2>1 DEF Poll, Ack
  <2>4. t.kind \in BootKinds \ CreationKinds /\ t.kind # "Staged"
    BY <2>3 DEF BootKinds, CreationKinds
  <2> QED  BY <2>1, <2>2, <2>3, <2>4, BootOk
<1>4. CASE stage.kind = "Ack"
  <2>1. Advance(stage, a) = Acked(stage)
    BY <1>4 DEF Advance, CreationKinds
  <2> QED  BY <1>4, <2>1, AckedOk
<1>5. CASE stage.kind = "Staged"
  <2>1. Advance(stage, a) = IF stage.pid = 0 THEN StagedTable(a) ELSE StagedImage(stage)
    BY <1>5 DEF Advance, CreationKinds
  <2> QED  BY <1>5, <2>1, StagedTableOk, StagedImageOk
<1>6. CASE stage.kind = "ReadFrame"
  <2>1. Advance(stage, a) = Decide(frame)
    BY <1>6 DEF Advance, CreationKinds
  <2> QED  BY <1>6, <2>1, DecideOk
<1>7. CASE stage.kind = "Walk"
  <2>1. Advance(stage, a) = Decision(life, entries, procs, Walked(stage))
    BY <1>7 DEF Advance, CreationKinds
  <2> QED  BY <1>7, <2>1, CopyOk
<1>8. CASE stage.kind = "Output"
  <2>1. Advance(stage, a) = Decision(life, entries, procs, OutputDone(stage))
    BY <1>8 DEF Advance, CreationKinds
  <2> QED  BY <1>8, <2>1, CopyOk
<1>9. CASE stage.kind \in {"Dispatch", "Shutdown", "Return"}
  <2>1. Advance(stage, a) = Decision(life, entries, procs, NoStage)
    BY <1>9 DEF Advance, CreationKinds
  <2> QED  BY <1>9, <2>1
<1> QED
  BY <1>0, <1>1, <1>2, <1>3, <1>4, <1>5, <1>6, <1>7, <1>8, <1>9
  DEF Kinds, BootKinds, RunKinds, CreationKinds

\* The writes of a stage leave a well-formed trap frame.
LEMMA FrameAfterOk ==
  ASSUME KInv
  PROVE  FrameOk(FrameAfter(stage))
<1> DEFINE f == FrameAfter(stage)
<1>1. FrameOk(frame)
  BY DEF KInv
<1>2. CASE stage.kind = "Dispatch"
  <2>1. f = [frame EXCEPT !.pc = stage.pc, !.root = Root(procs.frames[stage.pid]),
                          !.action = "resume"]
    BY <1>2 DEF FrameAfter
  <2>2. stage.pc \in Contexts
    BY <1>2 DEF KInv, KernelOk
  <2> QED  BY <1>1, <2>1, <2>2 DEF FrameOk
<1>3. CASE stage.kind = "Return"
  <2>1. f = [frame EXCEPT !.pc = After(stage.pc)]
    BY <1>3 DEF FrameAfter
  <2>2. After(stage.pc) \in Contexts
    BY <1>3, AfterContext DEF KInv, KernelOk
  <2> QED  BY <1>1, <2>1, <2>2 DEF FrameOk
<1>4. CASE stage.kind = "Shutdown"
  <2>1. f = [frame EXCEPT !.action = IF stage.reason = 0 THEN "clean" ELSE "failed"]
    BY <1>4 DEF FrameAfter
  <2> QED  BY <1>1, <2>1 DEF FrameOk
<1>5. CASE stage.kind \notin {"Dispatch", "Return", "Shutdown"}
  <2>1. f = frame
    BY <1>5 DEF FrameAfter
  <2> QED  BY <2>1 DEF KInv
<1> QED  BY <1>2, <1>3, <1>4, <1>5

-----------------------------------------------------------------------------

\* A handler that adopts a decision keeps the invariant.
LEMMA AdoptKeeps ==
  ASSUME KInv, NEW d, DecisionOk(d), Adopt(d), held' = TRUE, FrameOk(frame')
  PROVE  KInv'
<1>1. KernelOk(life', entries', procs', stage') /\ stage'.kind # "none" /\ engine' # "Idle"
  BY DEF Adopt, DecisionOk
<1> QED  BY <1>1 DEF KInv

\* A handler that changes neither the model nor its stage keeps the invariant.
LEMMA SameKeeps ==
  ASSUME KInv, UNCHANGED <<life, entries, procs, stage, held>>,
         engine' = "Idle" <=> engine = "Idle", FrameOk(frame')
  PROVE  KInv'
<1>1. KernelOk(life', entries', procs', stage')
  BY DEF KInv
<1> QED  BY <1>1 DEF KInv

\* A trap or a stray write leaves a well-formed trap frame.
LEMMA SavedFrameOk ==
  ASSUME FrameOk(frame), NEW cause \in Causes, NEW va, NEW n
  PROVE  /\ FrameOk([frame EXCEPT !.cause = cause, !.va = va, !.n = n])
         /\ \A pc \in Contexts :
              FrameOk([frame EXCEPT !.cause = cause, !.pc = pc, !.va = va, !.n = n])
BY DEF FrameOk

\* The end of a stage adopts what advance decides, or answers the held ENTER.
LEMMA StageDoneKeeps ==
  ASSUME KInv, StageDone, engine = "Wait"
  PROVE  KInv'
<1> DEFINE d == Advance(stage, link)
<1>1. CASE d.stage = Broken
  <2>1. Fault
    BY <1>1 DEF StageDone
  <2> QED  BY <2>1, SameKeeps DEF Fault, kernel, KInv
<1>2. CASE d.stage # Broken
  <2>0. stage.kind # "none" /\ held = TRUE
    BY DEF KInv
  <2>1. frame' = FrameAfter(stage)
    BY <1>2 DEF StageDone, Written
  <2>2. FrameOk(frame')
    BY <2>1, FrameAfterOk
  <2>3. CASE DecisionOk(d)
    <3>1. d.stage # NoStage
      BY <2>3 DEF DecisionOk, NoStage
    <3>2. Adopt(d) /\ UNCHANGED held
      BY <1>2, <3>1 DEF StageDone
    <3>3. held' = TRUE
      BY <2>0, <3>2
    <3> HIDE DEF d
    <3> QED  BY <2>2, <2>3, <3>2, <3>3, AdoptKeeps
  <2>4. CASE /\ stage.kind \in {"Dispatch", "Shutdown", "Return"}
             /\ d = Decision(life, entries, procs, NoStage)
    <3>1. d.stage = NoStage
      BY <2>4 DEF Decision
    <3>2. ReleaseEnter
      BY <1>2, <3>1 DEF StageDone
    <3>3. /\ held' = FALSE /\ stage' = NoStage /\ engine' = "Idle"
          /\ UNCHANGED <<life, entries, procs>>
      BY <3>2 DEF ReleaseEnter
    <3>4. stage'.kind = "none"
      BY <3>3 DEF NoStage
    <3>5. Good(procs, entries, 0, {}) /\ EntriesOk(entries)
      BY <2>4, StageFacts DEF CreationKinds
    <3>6. (life = "Up" /\ procs.current # 0) \/ life = "Down"
      BY <2>4 DEF KInv, KernelOk, RunKinds
    <3>7. KernelOk(life, entries, procs, stage')
      BY <3>4, <3>5, <3>6 DEF KernelOk, EntriesOk, CreationOf, CreationKinds, Kinds, BootKinds,
         RunKinds
    <3> QED  BY <2>2, <3>3, <3>4, <3>7 DEF KInv
  <2> QED  BY <2>0, <2>3, <2>4, AdvanceOk
<1> QED  BY <1>1, <1>2

\* The kernel's stage always fits its process table.
THEOREM KernelInvariance == Spec => []KInv
<1>1. Init => KInv
  <2> SUFFICES ASSUME Init PROVE KInv
    OBVIOUS
  <2>1. procs = EmptyTable /\ stage.kind = "none" /\ EntriesOk(entries)
    BY DEF Init, NoStage, EntriesOk
  <2>2. Good(procs, entries, 0, {}) /\ Pcbs(procs) = {} /\ procs.current = 0
    BY <2>1, EmptyGood
  <2>3. KernelOk(life, entries, procs, stage)
    BY <2>1, <2>2 DEF Init, KernelOk, EntriesOk, CreationOf, CreationKinds, Kinds, BootKinds,
       RunKinds
  <2>4. FrameOk(frame)
    <3>1. 0 \in Contexts
      BY KernelAssumption
    <3>2. frame.pc = 0 /\ frame.cause = "simple"
          /\ DOMAIN frame = {"pc", "root", "cause", "va", "n", "action"}
      BY DEF Init
    <3> QED  BY <3>1, <3>2 DEF FrameOk
  <2> QED  BY <2>1, <2>3, <2>4 DEF Init, KInv
<1>2. KInv /\ [Next]_vars => KInv'
  <2> SUFFICES ASSUME KInv, [Next]_vars PROVE KInv'
    OBVIOUS
  <2>0. FrameOk(frame)
    BY DEF KInv
  <2>1. CASE GateRefuse
    BY <2>0, <2>1, SameKeeps DEF GateRefuse, kernel, environment
  <2>2. ASSUME NEW value \in {"enter", "wrong"}, GateEnter(value)
        PROVE  KInv'
    <3>1. CASE held \/ Start(value).stage = Broken
      <4>1. Fault
        BY <2>2, <3>1 DEF GateEnter
      <4> QED  BY <2>0, <4>1, SameKeeps DEF Fault, kernel
    <3>2. CASE ~held /\ Start(value).stage # Broken
      <4>1. held' = TRUE /\ Adopt(Start(value)) /\ UNCHANGED frame
        BY <2>2, <3>2 DEF GateEnter, environment
      <4>2. life # "Down"
        BY <3>2 DEF Start, Violation, Decision
      <4>3. DecisionOk(Start(value))
        BY <3>2, <4>2, StartOk
      <4> QED  BY <2>0, <4>1, <4>3, AdoptKeeps
    <3> QED  BY <3>1, <3>2
  <2>3. CASE Issue
    BY <2>0, <2>3, SameKeeps DEF Issue, environment
  <2>4. CASE MemResponse
    <3>1. CASE engine # "Wait" \/ link = "bad"
      <4>1. Fault
        BY <2>4, <3>1 DEF MemResponse
      <4> QED  BY <2>0, <4>1, SameKeeps DEF Fault, kernel
    <3>2. CASE engine = "Wait" /\ NextAccess
      BY <2>0, <3>2, SameKeeps DEF NextAccess, environment
    <3>3. CASE engine = "Wait" /\ StageDone
      BY <3>3, StageDoneKeeps
    <3> QED  BY <2>4, <3>1, <3>2, <3>3 DEF MemResponse
  <2>5. CASE MemAnswer
    BY <2>0, <2>5, SameKeeps DEF MemAnswer, kernel, environment
  <2>6. CASE BlkFinish
    BY <2>0, <2>6, SameKeeps DEF BlkFinish, kernel
  <2>7. CASE BootEnter
    BY <2>0, <2>7, SameKeeps DEF BootEnter, kernel
  <2>8. CASE Trap
    <3>1. PICK cause \in Causes, pc \in Contexts : \E b \in Buffers(cause) :
                 UserTrap(cause, pc, b[1], b[2])
      BY <2>8 DEF Trap
    <3>2. PICK b \in Buffers(cause) : UserTrap(cause, pc, b[1], b[2])
      BY <3>1
    <3>3. FrameOk(frame') /\ UNCHANGED kernel
      BY <2>0, <3>2, SavedFrameOk DEF UserTrap
    <3> QED  BY <3>3, SameKeeps DEF kernel
  <2>9. CASE HartResume
    BY <2>0, <2>9, SameKeeps DEF HartResume, kernel
  <2>10. CASE Stray
    <3>1. CASE StrayAnswer
      BY <2>0, <3>1, SameKeeps DEF StrayAnswer, kernel, environment
    <3>2. ASSUME NEW value, NEW cause \in Causes, NEW va, NEW n,
                 StrayRequest(value, cause, va, n)
          PROVE  KInv'
      <4>1. FrameOk(frame') /\ UNCHANGED kernel
        BY <2>0, <3>2, SavedFrameOk DEF StrayRequest
      <4> QED  BY <4>1, SameKeeps DEF kernel
    <3> QED  BY <2>10, <3>1, <3>2 DEF Stray
  <2>11. CASE UNCHANGED vars
    BY <2>0, <2>11, SameKeeps DEF vars, kernel
  <2> QED
    BY <2>1, <2>2, <2>3, <2>4, <2>5, <2>6, <2>7, <2>8, <2>9, <2>10, <2>11 DEF Next
<1> QED  BY <1>1, <1>2, PTL DEF Spec

\* In every reachable state Processes::check accepts the kernel's table with the
\* creation in flight.
THEOREM TableAlwaysChecked == Spec => []TableChecked
<1>1. KInv => TableChecked
  BY DEF KInv, KernelOk, Good, TableChecked, Creating
<1> QED  BY <1>1, KernelInvariance, PTL

\* Model::advance never returns a Violation, nor does Model::start before the
\* shutdown.
THEOREM ViolationFree == Spec => []NeverViolates
<1>1. KInv => NeverViolates
  <2> SUFFICES ASSUME KInv PROVE NeverViolates
    OBVIOUS
  <2>1. ASSUME NEW d, DecisionOk(d)  PROVE d.stage # Broken
    <3>1. d.stage.kind \in Kinds
      BY <2>1 DEF DecisionOk, KernelOk
    <3>2. Broken.kind = "violation"
      BY DEF Broken
    <3> QED  BY <3>1, <3>2 DEF Kinds, BootKinds, RunKinds
  <2>2. ASSUME held  PROVE Advance(stage, link).stage # Broken
    <3>1. stage.kind # "none"
      BY <2>2 DEF KInv
    <3>2. Decision(life, entries, procs, NoStage).stage # Broken
      BY DEF Decision, NoStage, Broken
    <3> QED  BY <2>1, <3>1, <3>2, AdvanceOk
  <2>3. ASSUME ~held, life # "Down", NEW value \in {"enter", "wrong"}
        PROVE  Start(value).stage # Broken
    BY <2>1, <2>3, StartOk
  <2> QED  BY <2>2, <2>3 DEF NeverViolates
<1> QED  BY <1>1, KernelInvariance, PTL

=============================================================================
