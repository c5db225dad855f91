--------------------------- MODULE ModeledKernel ---------------------------
(***************************************************************************)
(* The modeled kernel in process mode (os/src/kernel.rs, procop.rs,        *)
(* syscall.rs, space.rs): the gate that holds the hart's ENTER, the engine *)
(* that makes one memory access at a time, and the stages of boot, trap,   *)
(* system call, dispatch and shutdown, over the process table of           *)
(* Processes.  The hart with its trap stub, the memory and the block       *)
(* controller are the environment.                                         *)
(*                                                                         *)
(* Abstractions: a context is its pc (counted in instructions, modulo      *)
(* PcMod as sepc.wrapping_add wraps); a stage of several accesses makes    *)
(* two, and its effect on memory is applied when it finishes, while the    *)
(* hart is blocked; a user page is output as one chunk; transactions are   *)
(* told apart only as the outstanding one or another; KernelSlot stands    *)
(* for both megapages every address space maps, the kernel's and MMIO's.   *)
(***************************************************************************)
EXTENDS Processes

CONSTANTS
  Images,      \* the boot images, in PID order (see ImageType)
  Disk,        \* TRUE: Source::Disk, FALSE: Source::Plan
  BadTables,   \* block 0 may hold no valid executable table
  DiskErrors,  \* the block controller may report errors
  PcMod,       \* the number of pcs
  PerSlot,     \* pages in a level-0 table
  Slots,       \* entries of a root table
  KernelSlot,  \* the root entry of the kernel's megapage
  Causes,      \* the traps the processes take
  Conformant   \* FALSE: anybody may write to the gate and to the trap frame

VAs == 0 .. Slots * PerSlot - 1

\* pages: in image order, the stack last.  elf: the file parses.  reads: the
\* staging reads until its headers are complete.
ImageType == [pages : Seq([va : VAs, read : BOOLEAN]), elf : BOOLEAN, reads : {1, 2}]

ASSUME KernelAssumption ==
  /\ Len(Images) = MaxPid
  /\ \A p \in Pids : Images[p] \in ImageType /\ Images[p].pages # << >>
  /\ PcMod \in Nat \ {0} /\ Contexts = 0 .. PcMod - 1
  /\ KernelSlot \in 0 .. Slots - 1
  /\ Causes \subseteq {"simple", "write", "yield", "exit0", "exit1", "fault", "smode"}

VARIABLES
  life,      \* "AwaitBoot", "Up" or "Down"
  entries,   \* the images of the plan, or of the executable table once parsed
  procs,     \* the process table
  engine,    \* "Idle", "Issue" or "Wait"
  stage,     \* the operation's stage, NoStage when Idle
  step,      \* its accesses completed
  held,      \* an ENTER is held
  wakes,     \* ISSUE wakes under way
  link,      \* the memory access: NoAccess, Asked, or its answer
  gate,      \* requests under way to the gate
  fault,     \* a handler failed: the session has stopped
  ptes,      \* the page-table entries in memory
  blk,       \* the block controller: "idle", "busy", "done" or "error"
  frame,     \* the trap frame
  hart,      \* the hart: its mode, pc and root table
  resume     \* history: the pc each process has to continue at

kernel == <<life, entries, procs, engine, stage, step, held>>
vars == <<kernel, wakes, link, gate, fault, ptes, blk, frame, hart, resume>>

-----------------------------------------------------------------------------
(* Address spaces *)

Slot(va) == va \div PerSlot
NewSlot(img, i) == \A j \in 1 .. i - 1 : Slot(img.pages[j].va) # Slot(img.pages[i].va)
TablesUpTo(img, i) == Cardinality({j \in 1 .. i : NewSlot(img, j)})

FramesNeeded(img) == 1 + TablesUpTo(img, Len(img.pages)) + Len(img.pages)
MegapageConflict(img) == \E i \in DOMAIN img.pages : Slot(img.pages[i].va) = KernelSlot

\* Space::build takes the frames in ascending order: the root, then for every
\* page a level-0 table if its slot is new, and the page's own frame.
Assigned(F, k) == CHOOSE f \in F : Cardinality({g \in F : g < f}) = k - 1
Root(F) == Assigned(F, 1)
PageFrame(img, F, i) == Assigned(F, 1 + i + TablesUpTo(img, i))
TableFor(img, F, slot) ==
  {Assigned(F, i + TablesUpTo(img, i)) :
     i \in {j \in DOMAIN img.pages : NewSlot(img, j) /\ Slot(img.pages[j].va) = slot}}

Invalid == [kind |-> "invalid", ppn |-> 0, read |-> FALSE]
Pointer(t) == [kind |-> "pointer", ppn |-> t, read |-> FALSE]
UserLeaf(f, read) == [kind |-> "leaf", ppn |-> f, read |-> read]
Megapage == [kind |-> "kernel", ppn |-> 0, read |-> TRUE]
Ptes == [kind : {"invalid", "pointer", "leaf", "kernel"}, ppn : 0 .. NFrames, read : BOOLEAN]

PteIndexes == 0 .. (IF Slots > PerSlot THEN Slots ELSE PerSlot) - 1

\* The entry i of frame f after the creation of img in F has zeroed F and
\* written its leaves and its root table.
BuiltPte(img, F, f, i) ==
  LET leaf == {k \in DOMAIN img.pages : /\ f \in TableFor(img, F, Slot(img.pages[k].va))
                                        /\ img.pages[k].va % PerSlot = i}
  IN  CASE f = Root(F) /\ i = KernelSlot -> Megapage
        [] f = Root(F) /\ TableFor(img, F, i) # {} ->
             Pointer(CHOOSE t \in TableFor(img, F, i) : TRUE)
        [] leaf # {} -> LET k == CHOOSE k \in leaf : TRUE
                        IN  UserLeaf(PageFrame(img, F, k), img.pages[k].read)
        [] OTHER -> Invalid

Created(img, F) ==
  [f \in Frames |-> IF f \in F THEN [i \in PteIndexes |-> BuiltPte(img, F, f, i)]
                               ELSE ptes[f]]

-----------------------------------------------------------------------------
(* Stages.  A disk boot's cursor is the PID of the entry being loaded, 0    *)
(* while block 0 is read.                                                   *)

NoStage == [kind |-> "none"]
Broken == [kind |-> "violation"]
ReadFrame == [kind |-> "ReadFrame"]
Create(pid, F) == [kind |-> "Create", pid |-> pid, frames |-> F]
Load(pid, F) == [kind |-> "Load", pid |-> pid, frames |-> F]
Command(pid) == [kind |-> "Command", pid |-> pid]
Poll(pid) == [kind |-> "Poll", pid |-> pid]
Ack(pid, error) == [kind |-> "Ack", pid |-> pid, error |-> error]
Staged(pid, len) == [kind |-> "Staged", pid |-> pid, len |-> len]
Dispatch(pid, pc) == [kind |-> "Dispatch", pid |-> pid, pc |-> pc]
Shutdown(reason) == [kind |-> "Shutdown", reason |-> reason]
Return(pc) == [kind |-> "Return", pc |-> pc]
Walk(buf, pages, table, level) ==
  [kind |-> "Walk", buf |-> buf, pages |-> pages, table |-> table, level |-> level]
Output(buf, pages, done) ==
  [kind |-> "Output", buf |-> buf, pages |-> pages, done |-> done]

BootKinds == {"Command", "Poll", "Ack", "Staged", "Load"}
CreationKinds == {"Create", "Load"}

Steps(s) == IF s.kind \in {"Walk", "Poll", "Ack"} THEN 1 ELSE 2

\* KernelConfig::permits: the frames a user copy reads are in the pool.
Permits(s) ==
  /\ s.kind = "Walk" => s.table \in Frames
  /\ s.kind = "Output" => s.pages[s.done + 1] \in Frames

-----------------------------------------------------------------------------
(* The model: what start and advance decide is a new model and a stage.     *)

Decision(l, n, P, s) == [life |-> l, entries |-> n, procs |-> P, stage |-> s]
Violation == Decision(life, entries, procs, Broken)

Fail(n, P) == Decision("Down", n, P, Shutdown(1))

EmptyQueueReason(P, n) ==
  IF Cardinality(Pcbs(P)) = n /\ \A p \in Pcbs(P) : P.state[p] = "ExitedZero"
  THEN 0 ELSE 1

DispatchNext(n, P) ==
  CASE ~CanSchedule(P) -> Violation
    [] CanSchedule(P) /\ P.queue = << >> ->
         Decision("Down", n, P, Shutdown(EmptyQueueReason(P, n)))
    [] OTHER ->
         Decision("Up", n, ScheduleNext(P), Dispatch(Head(P.queue), P.context[Head(P.queue)]))

Creatable(P, p) == ~MegapageConflict(Images[p]) /\ CanReserve(P, FramesNeeded(Images[p]))

\* Images that conflict with the kernel or do not fit are skipped.
NextCreation(n, P, from) ==
  LET next == {p \in Pids : p > from /\ Creatable(P, p)}
      pid == CHOOSE p \in next : \A q \in next : p <= q
      k == FramesNeeded(Images[pid])
  IN  IF next = {} THEN DispatchNext(n, P)
      ELSE Decision("Up", n, Reserve(P, pid, k), Create(pid, LowestFree(P, k)))

NextLoad(n, P, pid) ==
  IF pid <= n THEN Decision("Up", n, P, Command(pid)) ELSE DispatchNext(n, P)

\* Model::start, for an ENTER of the trap frame's address or of another value.
Start(value) ==
  CASE life = "Down" -> Violation
    [] life # "Down" /\ value = "wrong" -> Fail(entries, procs)
    [] life = "AwaitBoot" /\ value = "enter" ->
         IF Disk THEN Decision("Up", entries, procs, Command(0))
                 ELSE NextCreation(entries, procs, 0)
    [] life = "Up" /\ value = "enter" ->
         IF procs.current # 0 THEN Decision(life, entries, procs, ReadFrame)
                              ELSE Violation

\* A mutant: a table that cannot be read counts as an entry that cannot.
AckedSkipsTable(s) ==
  IF s.error THEN NextLoad(entries, procs, s.pid + 1)
             ELSE Decision(life, entries, procs, Staged(s.pid, 1))

Acked(s) ==
  CASE ~s.error -> Decision(life, entries, procs, Staged(s.pid, 1))
    [] s.error /\ s.pid = 0 -> Fail(entries, procs)
    [] OTHER -> NextLoad(entries, procs, s.pid + 1)

StagedTable(a) ==
  IF a = "badtable" THEN Fail(entries, procs) ELSE NextLoad(MaxPid, procs, 1)

\* A mutant: the frames are chosen and not reserved.
StagedImageUnreserved(s) ==
  LET img == Images[s.pid]
  IN  CASE s.len < img.reads -> Decision(life, entries, procs, Staged(s.pid, s.len + 1))
        [] s.len >= img.reads /\ img.elf /\ Creatable(procs, s.pid) ->
             Decision(life, entries, procs, Load(s.pid, LowestFree(procs, FramesNeeded(img))))
        [] OTHER -> NextLoad(entries, procs, s.pid + 1)

StagedImage(s) ==
  LET img == Images[s.pid]
      k == FramesNeeded(img)
  IN  CASE s.len < img.reads -> Decision(life, entries, procs, Staged(s.pid, s.len + 1))
        [] s.len >= img.reads /\ img.elf /\ Creatable(procs, s.pid) ->
             Decision(life, entries, Reserve(procs, s.pid, k),
                      Load(s.pid, LowestFree(procs, k)))
        [] OTHER -> NextLoad(entries, procs, s.pid + 1)

AfterAdmit(s) ==
  LET P == Admit(procs, s.pid, s.frames, 0)
  IN  CASE ~CanAdmit(procs, s.pid, s.frames) -> Violation
        [] CanAdmit(procs, s.pid, s.frames) /\ s.kind = "Create" ->
             NextCreation(entries, P, s.pid)
        [] OTHER -> NextLoad(entries, P, s.pid + 1)

After(pc) == (pc + 1) % PcMod

AfterEnd(how) ==
  IF CanEnd(procs) THEN DispatchNext(entries, End(procs, how)) ELSE Violation

\* Model::syscall.  "simple" is every call that only returns a value: getpid, an
\* unsupported number, a write whose arguments are refused.
Syscall(f) ==
  CASE f.cause = "exit0" -> AfterEnd("ExitedZero")
    [] f.cause = "exit1" -> AfterEnd("ExitedOther")
    [] f.cause = "yield" ->
         IF CanYield(procs) THEN DispatchNext(entries, Yield(procs, After(f.pc)))
                            ELSE Violation
    [] f.cause = "simple" -> Decision(life, entries, procs, Return(f.pc))
    [] f.cause = "write" ->
         Decision(life, entries, procs,
                  Walk([pc |-> f.pc, va |-> f.va, n |-> f.n], << >>,
                       Root(procs.frames[procs.current]), 1))

\* Model::decide, once the frame has been read.
Decide(f) ==
  CASE f.cause = "smode" -> Fail(entries, procs)
    [] f.cause = "fault" -> AfterEnd("Faulted")
    [] OTHER -> IF procs.current = 0 THEN Violation ELSE Syscall(f)

\* The level-0 or level-1 entry of the next buffer page.
WalkVa(s) == s.buf.va + Len(s.pages)
PteRead(s) == ptes[s.table][IF s.level = 1 THEN Slot(WalkVa(s)) ELSE WalkVa(s) % PerSlot]

\* A mutant: the permission to read is not checked.
WalkStepUnchecked(pte, level) ==
  CASE pte.kind = "pointer" /\ level = 1 -> "Next"
    [] pte.kind = "leaf" -> "Page"
    [] OTHER -> "Fault"

\* walk_step on the entries creations write: the kernel's megapage is not U.
WalkStep(pte, level) ==
  CASE pte.kind = "pointer" /\ level = 1 -> "Next"
    [] pte.kind = "leaf" /\ pte.read -> "Page"
    [] OTHER -> "Fault"

Walked(s) ==
  LET pte == PteRead(s)
      pages == Append(s.pages, pte.ppn)
  IN  CASE WalkStep(pte, s.level) = "Next" -> Walk(s.buf, s.pages, pte.ppn, 0)
        [] WalkStep(pte, s.level) = "Fault" -> Return(s.buf.pc)
        [] OTHER -> IF Len(pages) = s.buf.n THEN Output(s.buf, pages, 0)
                    ELSE Walk(s.buf, pages, Root(procs.frames[procs.current]), 1)

OutputDone(s) ==
  IF s.done + 1 = s.buf.n THEN Return(s.buf.pc) ELSE Output(s.buf, s.pages, s.done + 1)

\* Model::advance past the finished stage s, whose last answer is a.
Advance(s, a) ==
  LET next(t) == Decision(life, entries, procs, t)
  IN  CASE s.kind \in CreationKinds -> AfterAdmit(s)
        [] s.kind = "Command" -> next(Poll(s.pid))
        [] s.kind = "Poll" ->
             next(IF a \in {"done", "error"} THEN Ack(s.pid, a = "error") ELSE Poll(s.pid))
        [] s.kind = "Ack" -> Acked(s)
        [] s.kind = "Staged" -> IF s.pid = 0 THEN StagedTable(a) ELSE StagedImage(s)
        [] s.kind = "ReadFrame" -> Decide(frame)
        [] s.kind = "Walk" -> next(Walked(s))
        [] s.kind = "Output" -> next(OutputDone(s))
        [] s.kind \in {"Dispatch", "Shutdown", "Return"} -> next(NoStage)

\* A mutant: the return address is the system call itself.
FrameAfterRepeats(s) ==
  CASE s.kind = "Dispatch" ->
         [frame EXCEPT !.pc = s.pc, !.root = Root(procs.frames[s.pid]), !.action = "resume"]
    [] s.kind = "Return" -> frame
    [] s.kind = "Shutdown" ->
         [frame EXCEPT !.action = IF s.reason = 0 THEN "clean" ELSE "failed"]
    [] OTHER -> frame

\* The trap frame after the writes of stage s.
FrameAfter(s) ==
  CASE s.kind = "Dispatch" ->
         [frame EXCEPT !.pc = s.pc, !.root = Root(procs.frames[s.pid]), !.action = "resume"]
    [] s.kind = "Return" -> [frame EXCEPT !.pc = After(s.pc)]
    [] s.kind = "Shutdown" ->
         [frame EXCEPT !.action = IF s.reason = 0 THEN "clean" ELSE "failed"]
    [] OTHER -> frame

\* What the finished stage s has written to memory and to the block controller.
Written(s) ==
  /\ ptes' = IF s.kind \in CreationKinds THEN Created(Images[s.pid], s.frames) ELSE ptes
  /\ blk' = CASE s.kind = "Command" -> "busy" [] s.kind = "Ack" -> "idle" [] OTHER -> blk
  /\ frame' = FrameAfter(s)

-----------------------------------------------------------------------------
(* The component's handlers *)

environment == <<ptes, blk, frame, hart, resume>>

Fault ==
  /\ fault' = TRUE
  /\ UNCHANGED <<kernel, wakes, ptes, blk, frame, hart, resume>>

\* The decision d becomes the model, with its stage due.
Adopt(d) ==
  /\ life' = d.life /\ entries' = d.entries /\ procs' = d.procs
  /\ stage' = d.stage /\ step' = 0
  /\ engine' = "Issue"
  /\ wakes' = wakes + 1

\* A request on the gate that is no ENTER is answered with AccessFault.
GateRefuse ==
  /\ ~fault /\ "other" \in gate
  /\ gate' = gate \ {"other"}
  /\ UNCHANGED <<kernel, wakes, link, fault, environment>>

GateEnter(value) ==
  /\ ~fault /\ value \in gate
  /\ gate' = gate \ {value}
  /\ UNCHANGED link
  /\ IF held \/ Start(value).stage = Broken
     THEN Fault
     ELSE /\ held' = TRUE
          /\ Adopt(Start(value))
          /\ UNCHANGED <<fault, environment>>

Issue ==
  /\ ~fault /\ wakes > 0
  /\ wakes' = wakes - 1
  /\ UNCHANGED <<gate, life, entries, procs, stage, step, held, environment>>
  /\ IF engine # "Issue" \/ ~Permits(stage)
     THEN fault' = TRUE /\ UNCHANGED <<engine, link>>
     ELSE engine' = "Wait" /\ link' = "asked" /\ UNCHANGED fault

\* The last access of an operation: the held ENTER is answered.
ReleaseEnter ==
  /\ held' = FALSE /\ engine' = "Idle" /\ stage' = NoStage /\ step' = 0
  /\ hart' = [hart EXCEPT !.mode = IF hart.mode = "blocked" THEN "released" ELSE hart.mode]
  /\ UNCHANGED <<life, entries, procs, wakes>>

\* An access of the stage is answered, and it is not the last one.
NextAccess ==
  /\ step + 1 < Steps(stage)
  /\ step' = step + 1 /\ engine' = "Issue" /\ wakes' = wakes + 1
  /\ UNCHANGED <<life, entries, procs, stage, held, fault, environment>>

StageDone ==
  LET d == Advance(stage, link)
  IN  /\ step + 1 = Steps(stage)
      /\ IF d.stage = Broken
         THEN Fault
         ELSE /\ Written(stage)
              /\ UNCHANGED <<fault, resume>>
              /\ IF d.stage = NoStage THEN ReleaseEnter
                                      ELSE Adopt(d) /\ UNCHANGED <<held, hart>>

MemResponse ==
  /\ ~fault /\ link \notin {"none", "asked"}
  /\ link' = "none"
  /\ UNCHANGED gate
  /\ IF engine # "Wait" \/ link = "bad" THEN Fault ELSE NextAccess \/ StageDone

-----------------------------------------------------------------------------
(* The environment *)

\* The memory answers; a poll reads the block controller's status, and the
\* staged block 0 is or is not an executable table.
MemAnswer ==
  /\ ~fault /\ link = "asked"
  /\ link' \in CASE stage.kind = "Poll" -> {blk}
               [] stage.kind = "Staged" /\ stage.pid = 0 /\ BadTables -> {"ok", "badtable"}
               [] OTHER -> {"ok"}
  /\ UNCHANGED <<kernel, wakes, gate, fault, environment>>

BlkFinish ==
  /\ ~fault /\ blk = "busy"
  /\ blk' \in {"done"} \cup (IF DiskErrors THEN {"error"} ELSE {})
  /\ UNCHANGED <<kernel, wakes, link, gate, fault, ptes, frame, hart, resume>>

\* The boot stub enters the kernel with no process running.
BootEnter ==
  /\ ~fault /\ hart.mode = "boot"
  /\ hart' = [hart EXCEPT !.mode = "blocked"]
  /\ gate' = gate \cup {"enter"}
  /\ UNCHANGED <<kernel, wakes, link, fault, ptes, blk, frame, resume>>

\* The running process gets to pc and traps; the stub saves it in the frame.
UserTrap(cause, pc, va, n) ==
  /\ ~fault /\ hart.mode = "user"
  /\ frame' = [frame EXCEPT !.cause = cause, !.pc = pc, !.va = va, !.n = n]
  /\ hart' = [hart EXCEPT !.mode = "blocked"]
  /\ gate' = gate \cup {"enter"}
  /\ resume' = [p \in Pids |-> IF p = procs.current THEN After(pc) ELSE resume[p]]
  /\ UNCHANGED <<kernel, wakes, link, fault, ptes, blk>>

\* The stub's ENTER is answered: it shuts down or returns to what the frame says.
HartResume ==
  /\ ~fault /\ hart.mode = "released"
  /\ hart' = IF frame.action = "resume"
             THEN [mode |-> "user", pc |-> frame.pc, root |-> frame.root]
             ELSE [hart EXCEPT !.mode = "halted"]
  /\ UNCHANGED <<kernel, wakes, link, gate, fault, ptes, blk, frame, resume>>

\* Without conformance anybody may write the frame and the gate, at any time...
StrayRequest(value, cause, va, n) ==
  /\ ~Conformant /\ ~fault
  /\ Cardinality(gate) < 2 /\ value \notin gate
  /\ gate' = gate \cup {value}
  /\ frame' = [frame EXCEPT !.cause = cause, !.va = va, !.n = n]
  /\ UNCHANGED <<kernel, wakes, link, fault, ptes, blk, hart, resume>>

\* ... and the memory may answer when it was not asked, or with a fault.
StrayAnswer ==
  /\ ~Conformant /\ ~fault
  /\ link \in {"none", "asked"}
  /\ link' = "bad"
  /\ UNCHANGED <<kernel, wakes, gate, fault, environment>>

\* A write's buffer: its first page and its number of pages.  Other traps have none.
Buffers(cause) ==
  IF cause = "write" THEN {b \in VAs \X {1, 2} : b[1] + b[2] - 1 \in VAs} ELSE {<<0, 1>>}

Init ==
  /\ life = "AwaitBoot"
  /\ entries = IF Disk THEN 0 ELSE MaxPid
  /\ procs = EmptyTable
  /\ engine = "Idle" /\ stage = NoStage /\ step = 0 /\ held = FALSE
  /\ wakes = 0 /\ link = "none" /\ gate = {} /\ fault = FALSE
  /\ ptes = [f \in Frames |-> [i \in PteIndexes |-> Invalid]]
  /\ blk = "idle"
  /\ frame = [pc |-> 0, root |-> 0, cause |-> "simple", va |-> 0, n |-> 1, action |-> "resume"]
  /\ hart = [mode |-> "boot", pc |-> 0, root |-> 0]
  /\ resume = [p \in Pids |-> 0]

Trap == \E cause \in Causes, pc \in Contexts :
          \E b \in Buffers(cause) : UserTrap(cause, pc, b[1], b[2])

Stray ==
  \/ \E value \in {"enter", "wrong", "other"}, cause \in Causes :
       \E b \in Buffers(cause) : StrayRequest(value, cause, b[1], b[2])
  \/ StrayAnswer

Next ==
  \/ GateRefuse
  \/ \E value \in {"enter", "wrong"} : GateEnter(value)
  \/ Issue
  \/ MemResponse
  \/ MemAnswer
  \/ BlkFinish
  \/ BootEnter
  \/ Trap
  \/ HartResume
  \/ Stray

\* Every event of the session is dispatched; the memory, the block controller
\* and the stub answer.  A process need not trap.
Progress ==
  \/ \E value \in {"enter", "wrong"} : GateEnter(value)
  \/ Issue \/ MemResponse \/ MemAnswer \/ BootEnter \/ HartResume

Fairness == WF_vars(Progress) /\ WF_vars(BlkFinish)

Spec == Init /\ [][Next]_vars /\ Fairness

-----------------------------------------------------------------------------
(* What restore accepts *)

CreationOf(s) ==
  IF s.kind \in CreationKinds THEN [pid |-> s.pid, frames |-> s.frames]
                              ELSE [pid |-> 0, frames |-> {}]
Creating == CreationOf(stage)

\* Processes::check accepts the table with the creation in flight, whatever is
\* written to the gate and to the trap frame.
TableChecked == Check(procs, entries, Creating.pid, Creating.frames)

\* A live process, or a creation, has the frames its image is built in.
FitsImage(p, F) ==
  /\ Cardinality(F) = FramesNeeded(Images[p])
  /\ ~MegapageConflict(Images[p])

\* check_life: the table with the creation, whose frames are the lowest free ones.
CheckLife ==
  /\ TableChecked
  /\ \A f \in Creating.frames, g \in Free(procs) : f < g
  /\ \A p \in Pids : procs.state[p] \in {"Ready", "Running"} => FitsImage(p, procs.frames[p])
  /\ life = "AwaitBoot" => stage = NoStage /\ Pcbs(procs) = {} /\ (Disk => entries = 0)
  /\ life = "Up" /\ stage = NoStage => procs.current # 0

\* boot_cursor.
BootCursor(s) ==
  /\ Disk /\ life = "Up" /\ procs.current = 0
  /\ IF s.pid = 0 THEN entries = 0
     ELSE /\ s.pid <= entries /\ entries = MaxPid
          /\ \A p \in Pcbs(procs) : p < s.pid

\* The physical page of each buffer page, as far as it is readable.
Mapped(va) ==
  LET img == Images[procs.current]
  IN  {PageFrame(img, procs.frames[procs.current], i) :
         i \in {k \in DOMAIN img.pages : img.pages[k].va = va /\ img.pages[k].read}}

\* syscall_space: the pages found are the running process's mapping.
SyscallSpace(s) ==
  /\ life = "Up" /\ procs.current # 0
  /\ s.buf.va + s.buf.n - 1 \in VAs
  /\ \A k \in DOMAIN s.pages : Mapped(s.buf.va + k - 1) = {s.pages[k]}

\* proc_op: the stage is one the model can be in.
StageOk(s) ==
  /\ s.kind = "Create" =>
       /\ ~Disk /\ life = "Up" /\ procs.current = 0
       /\ \A p \in Pcbs(procs) : p < s.pid
  /\ s.kind \in BootKinds => BootCursor(s)
  /\ s.kind = "Staged" => s.len \in 1 .. (IF s.pid = 0 THEN 1 ELSE Images[s.pid].reads)
  /\ s.kind \in CreationKinds => FitsImage(s.pid, s.frames)
  /\ s.kind \in {"ReadFrame", "Return"} => life = "Up" /\ procs.current # 0
  /\ s.kind = "Dispatch" => life = "Up" /\ procs.current = s.pid
  /\ s.kind = "Shutdown" => life = "Down"
  /\ s.kind = "Walk" =>
       /\ SyscallSpace(s)
       /\ Len(s.pages) < s.buf.n
       /\ {s.table} = IF s.level = 1 THEN {Root(procs.frames[procs.current])}
                      ELSE TableFor(Images[procs.current], procs.frames[procs.current],
                                    Slot(WalkVa(s)))
  /\ s.kind = "Output" => SyscallSpace(s) /\ Len(s.pages) = s.buf.n /\ s.done < s.buf.n

RestoreOk ==
  /\ held <=> stage # NoStage
  /\ held => step < Steps(stage) /\ Permits(stage)
  /\ engine = "Idle" <=> stage = NoStage
  /\ StageOk(stage)
  /\ CheckLife

-----------------------------------------------------------------------------
(* Properties *)

\* The component's fields and its surroundings are well-formed.
TypeOK ==
  /\ life \in {"AwaitBoot", "Up", "Down"}
  /\ entries \in 0 .. MaxPid
  /\ procs \in Tables
  /\ engine \in {"Idle", "Issue", "Wait"}
  /\ held \in BOOLEAN /\ fault \in BOOLEAN
  /\ wakes \in 0 .. 1
  /\ link \in {"none", "asked", "ok", "bad", "badtable", "idle", "busy", "done", "error"}
  /\ gate \subseteq {"enter", "wrong", "other"}
  /\ \A f \in Frames : ptes[f] \in [PteIndexes -> Ptes]
  /\ blk \in {"idle", "busy", "done", "error"}

\* Model::advance never returns a Violation, and Model::start returns one only
\* after the shutdown: every call of the process table is legal, whatever is
\* written to the gate and to the trap frame.
NeverViolates ==
  /\ held => Advance(stage, link).stage # Broken
  /\ ~held /\ life # "Down" => \A value \in {"enter", "wrong"} : Start(value).stage # Broken

\* Whatever is written to the gate and to the trap frame, and whenever, the
\* model never returns a Violation before the shutdown, and a
\* session that has not faulted is in a state restore accepts: the process
\* table passes its check with the creation in flight, the boot cursor and the
\* frames fit the images, and a write's pages are the caller's own mapping.
RestoreAccepts == TypeOK /\ NeverViolates /\ (~fault => RestoreOk)

\* The engine has exactly one thing under way while an ENTER is held, a wake
\* when it is to issue and an access when it waits, and nothing otherwise: an
\* ISSUE wake never finds nothing to issue.
OneThingUnderWay ==
  /\ wakes = (IF engine = "Issue" THEN 1 ELSE 0)
  /\ (link # "none") <=> (engine = "Wait")

\* A process in user mode continues in its own address space, right after the
\* system call it made, whatever ran in between.
ResumesInPlace ==
  hart.mode = "user" =>
    /\ procs.current # 0
    /\ hart.root = Root(procs.frames[procs.current])
    /\ hart.pc = resume[procs.current]

\* The hart is told of a clean shutdown exactly when every image became a
\* process that exited with status 0; unless the kernel itself trapped, every
\* frame is free again.
ShutdownHonest ==
  hart.mode = "halted" =>
    /\ frame.action = "clean" <=> \A p \in Pids : procs.state[p] = "ExitedZero"
    /\ frame.cause # "smode" => Free(procs) = Frames

Relinquishing == stage.kind = "ReadFrame" /\ frame.cause \in {"yield", "exit0", "exit1", "fault"}

=============================================================================
