------------------------------ MODULE Rv32iCpu ------------------------------
(***************************************************************************)
(* The RV32I CPU component (src/components/rv32i/src/cpu.rs): a state      *)
(* machine that fetches, translates, executes and commits one instruction  *)
(* at a time over the mem.v1 port, in the profiles M1, M2 and M3.          *)
(*                                                                         *)
(* An instruction word is a record: its operation, its operands and, where *)
(* an instruction can be illegal, its encoding.  The memory is external    *)
(* and answers a request with anything a memory may hold: a fetch from the *)
(* configured rom with the word there, any other fetch with any of the     *)
(* configured words, a page table read with any of Ptes, a load with any   *)
(* of LoadData, and every request outside rom possibly with a fault.       *)
(***************************************************************************)
EXTENDS Privilege, Sequences, TLC

CONSTANTS Configs,     \* profile, entry, max_instructions; and the rom and the other
                       \* words the memory holds
          Registers,   \* the registers x1.. in use
          Ptes, LoadData,
          TxnSpace     \* 2^64, what checked_add of a TxnId does not reach

VARIABLES config, pc, regs, instret, next_txn, state, csrs, m3,
          session,     \* "running", or "faulted" after a ComponentFault
          wake,        \* the wake the runtime holds for the CPU, or "none"
          out,         \* the request the memory has not answered, if any
          reads,       \* history: the PTEs answered to the current walk, by address
          mframe,      \* history: what the last interrupt entry interrupted
          sframe       \* history: what the last delegated exception interrupted

cpu     == <<pc, regs, instret, next_txn, state, csrs, m3>>
history == <<reads, mframe, sframe>>
vars    == <<config, cpu, session, wake, out, history>>

profile     == config.profile
mode        == m3.privilege
translating == profile = "M3" /\ translates(m3)

---------------------------------------------------------------------------
(* Pure execution (execute.rs, memory.rs, csr.rs). *)

Effect(write, next)  == [kind |-> "effect", write |-> write, next |-> next]
TrapOf(cause, tval)  == [kind |-> "trap", cause |-> cause, tval |-> tval]
Done(outcome)        == [kind |-> "Done", outcome |-> outcome]
illegal(w)           == TrapOf("IllegalInstruction", w.word)
Reg(rs, r)           == IF r = 0 THEN {} ELSE rs[r]
Low(value)           == Num(value \cap 0..(AddrBits - 1))

(* execute_control: a jump, or a branch that is taken (no base, no rd). *)
execute_control(w, at, rs) ==
    LET target == IF w.base = None THEN Wrap(at + w.offset)
                  ELSE Num(BitsOf(Wrap(Low(Reg(rs, Get(w.base))) + w.offset)) \ {0})
    IN  IF target % 4 # 0 THEN TrapOf("InstructionAddressMisaligned", BitsOf(target))
        ELSE Effect(IF w.rd = None THEN None ELSE Some(<<Get(w.rd), BitsOf(Wrap(at + 4))>>),
                    target)

ecall_cause(isa, in) == CASE isa = "M3" /\ in = "U" -> "EnvironmentCallFromU"
                          [] isa = "M3" /\ in = "S" -> "EnvironmentCallFromS"
                          [] OTHER -> "EnvironmentCall"

(* prepare_memory: the request an aligned access makes. *)
prepare_memory(w, at, rs) ==
    LET addr == Wrap(Low(Reg(rs, w.rs1)) + w.offset)
        plan == IF w.op = "load"
                THEN [kind |-> "Load", addr |-> addr, width |-> w.width, signed |-> w.signed,
                      rd |-> w.rd, next |-> Wrap(at + 4)]
                ELSE [kind |-> "Store", addr |-> addr, width |-> w.width,
                      data |-> Reg(rs, w.rs2) \cap 0..(8 * w.width - 1),
                      next |-> Wrap(at + 4)]
    IN  IF addr % w.width = 0 THEN [kind |-> "Memory", plan |-> plan]
        ELSE Done(TrapOf(IF w.op = "load" THEN "LoadAddressMisaligned"
                         ELSE "StoreAddressMisaligned", BitsOf(addr)))

(* PrivInstr::writes and csr_operation. *)
csr_operation(w, at, rs) ==
    LET imm == w.src[1] = "imm"
    IN  [kind |-> "csr", csr |-> w.csr, op |-> w.f,
         write |-> w.f = "Write" \/ w.src[2] # (IF imm THEN {} ELSE 0),
         operand |-> IF imm THEN w.src[2] ELSE Reg(rs, w.src[2]),
         rd |-> w.rd, next |-> Wrap(at + 4)]

(* privileged: the M2 words; every CSR off the whitelist is illegal. *)
privileged(w, at, rs) ==
    CASE w.op = "csr"  -> IF is_supported("M2", w.csr) THEN csr_operation(w, at, rs) ELSE illegal(w)
      [] w.op = "mret" -> [kind |-> "mret"]
      [] w.op \in {"sret", "sfence"} -> illegal(w)

(* privileged_m3: which privileged words a mode may run. *)
privileged_m3(in, w, at, rs) ==
    LET operation == csr_operation(w, at, rs)
    IN  CASE w.op = "csr" ->
                IF is_supported("M3", w.csr) /\ accessible(w.csr, in, operation.write)
                THEN operation ELSE illegal(w)
          [] w.op = "mret"   -> IF in = "M" THEN [kind |-> "mret"] ELSE illegal(w)
          [] w.op = "sret"   -> IF in = "U" THEN illegal(w) ELSE [kind |-> "sret"]
          [] w.op = "sfence" -> IF in = "U" THEN illegal(w) ELSE Effect(None, Wrap(at + 4))

(* step: what a fetched word needs next.  "alu" stands for every           *)
(* instruction whose result is a register value, "fence" for FENCE and a   *)
(* branch not taken.                                                       *)
step(isa, in, w, at, rs) ==
    CASE w.op \in {"csr", "mret", "sret", "sfence"} ->
            Done(CASE isa = "M1" -> illegal(w)
                   [] isa = "M2" -> privileged(w, at, rs)
                   [] isa = "M3" -> privileged_m3(in, w, at, rs))
      [] w.op = "illegal" -> Done(illegal(w))
      [] w.op = "alu"     -> Done(Effect(Some(<<w.rd, w.value>>), Wrap(at + 4)))
      [] w.op = "jump"    -> Done(execute_control(w, at, rs))
      [] w.op = "fence"   -> Done(Effect(None, Wrap(at + 4)))
      [] w.op = "ecall"   -> Done(TrapOf(ecall_cause(isa, in), {}))
      [] w.op = "ebreak"  -> Done(TrapOf("Breakpoint", BitsOf(at)))
      [] w.op \in {"load", "store"} -> prepare_memory(w, at, rs)

(* complete_load: the bytes widened to a word. *)
Extend(plan, data) ==
    IF plan.signed /\ 8 * plan.width - 1 \in data THEN data \cup (8 * plan.width)..31 ELSE data

(* complete_memory *)
complete_memory(plan, answer) ==
    IF ~IsSome(answer) THEN TrapOf(AccessFault(plan.kind), BitsOf(plan.addr))
    ELSE IF plan.kind = "Load" THEN Effect(Some(<<plan.rd, Extend(plan, Get(answer))>>), plan.next)
    ELSE Effect(None, plan.next)

---------------------------------------------------------------------------
(* The execution states. *)

FetchIssue(pa)                    == [at |-> "FetchIssue", pa |-> pa]
FetchWait(txn, pa)                == [at |-> "FetchWait", txn |-> txn, pa |-> pa]
MemIssue(insn, plan, pa)          == [at |-> "MemIssue", insn |-> insn, plan |-> plan, pa |-> pa]
MemWait(txn, insn, plan, pa)      == [at |-> "MemWait", txn |-> txn, insn |-> insn,
                                      plan |-> plan, pa |-> pa]
WalkIssue(walk)                   == [at |-> "WalkIssue", walk |-> walk]
WalkWait(txn, walk)               == [at |-> "WalkWait", txn |-> txn, walk |-> walk]
CommitPending(insn, outcome, pa)  == [at |-> "CommitPending", insn |-> insn,
                                      outcome |-> outcome, pa |-> pa]
HaltedTrap(cause, at, tval)       == [at |-> "Halted", cause |-> cause, pc |-> at, tval |-> tval]
InstructionLimit                  == [at |-> "Halted", cause |-> "InstructionLimit"]

(* A mutant: a walk for a store is taken for one of a load. *)
walk_accessAsLoad(walk) == IF walk.data = None THEN "Fetch" ELSE "Load"

(* A walk for a fetch (data = None) or for an access (data = <<insn, plan>>). *)
Walk(data, level, table) == [data |-> data, level |-> level, table |-> table]
walk_va(walk)     == IF walk.data = None THEN pc ELSE walk.data[2].addr
walk_access(walk) == IF walk.data = None THEN "Fetch" ELSE walk.data[2].kind
Context(access)   == [privilege |-> mode, sum |-> m3.sum, mxr |-> m3.mxr, access |-> access]

Init ==
    /\ config \in Configs
    /\ pc = config.entry
    /\ regs = [r \in Registers |-> {}]
    /\ instret = 0 /\ next_txn = 0
    /\ state = FetchIssue(None)
    /\ csrs = CsrFileReset /\ m3 = M3Reset
    /\ session = "running"
    /\ wake = "FETCH" /\ out = None
    /\ reads = <<>> /\ mframe = None /\ sframe = None

Running == session = "running"
Halted  == state.at = "Halted"

(* A handler that returns Err faults the session: nothing is delivered     *)
(* any more.                                                               *)
ComponentFault ==
    /\ session' = "faulted"
    /\ UNCHANGED <<config, cpu, wake, out, history>>

(* Going on to state s with the wake token. *)
GoTo(s, token) == state' = s /\ wake' = token

(* A mutant: a walk is not woken. *)
fetch_nextUnwoken(at, s) ==
    /\ pc' = at
    /\ m3' = s
    /\ IF profile = "M3" /\ translates(s)
       THEN GoTo(WalkIssue(Walk(None, 1, root(s))), "none")
       ELSE GoTo(FetchIssue(None), "FETCH")
    /\ reads' = <<>>

(* fetch_next, after the new pc and mode. *)
fetch_next(at, s) ==
    /\ pc' = at
    /\ m3' = s
    /\ IF profile = "M3" /\ translates(s)
       THEN GoTo(WalkIssue(Walk(None, 1, root(s))), "WALK")
       ELSE GoTo(FetchIssue(None), "FETCH")
    /\ reads' = <<>>

---------------------------------------------------------------------------
(* Wakes. *)

(* send: one request under the next TxnId, unless the ids are used up.     *)
(* M1 does not check; 2^64 requests of one M1 session are taken not to     *)
(* happen.                                                                 *)
send(request, s) ==
    IF profile # "M1" /\ next_txn + 1 >= TxnSpace THEN ComponentFault
    ELSE /\ out' = Some([txn |-> next_txn] @@ request)
         /\ next_txn' = next_txn + 1
         /\ GoTo(s, "none")
         /\ UNCHANGED <<config, pc, regs, instret, csrs, m3, session, history>>

plan_addr(plan) == plan.addr

(* wake: the request a state issues, and the state that waits for it.      *)
FetchRequest == [kind |-> "Read", addr |-> UnwrapOr(state.pa, pc), len |-> 4]
WalkRequest  == [kind |-> "Read", len |-> 4,
                 addr |-> pte_address(state.walk.table, walk_va(state.walk), state.walk.level)]
MemRequest   == LET plan == state.plan
                    addr == UnwrapOr(state.pa, plan_addr(plan))
                IN  IF plan.kind = "Load"
                    THEN [kind |-> "Read", addr |-> addr, len |-> plan.width]
                    ELSE [kind |-> "Write", addr |-> addr, len |-> plan.width]

---------------------------------------------------------------------------
(* Committing: the only place architectural state changes. *)

WriteReg(rs, rd, value) == IF rd \in DOMAIN rs THEN [rs EXCEPT ![rd] = value] ELSE rs

read_csr(csr) == IF profile = "M3" THEN m3_read(csrs, m3, csr) ELSE csr_read(csrs, csr)
write_csr(csr, value) == IF profile = "M3" THEN m3_write(csrs, m3, csr, value)
                         ELSE <<csr_write(csrs, csr, value), m3>>

(* commit_csr: rd gets the old value, and the write may be suppressed.     *)
(* The CSR is supported: step or restore has checked it.                   *)
commit_csr(o) ==
    LET old   == read_csr(o.csr)
        after == IF o.write THEN write_csr(o.csr, apply(o.op, old, o.operand)) ELSE <<csrs, m3>>
    IN  [regs |-> WriteReg(regs, o.rd, old), m |-> after[1], s |-> after[2], pc |-> o.next]

(* What the retiring outcome o makes of the architectural state. *)
Retired(o) ==
    LET return == CASE o.kind = "sret" -> sret(csrs, m3)
                    [] o.kind = "mret" -> IF profile = "M3" THEN mret(csrs, m3)
                                          ELSE <<csr_mret(csrs), m3, csrs.mepc>>
    IN  CASE o.kind = "effect" ->
                [regs |-> IF IsSome(o.write) THEN WriteReg(regs, Get(o.write)[1], Get(o.write)[2])
                          ELSE regs,
                 m |-> csrs, s |-> m3, pc |-> o.next]
          [] o.kind = "csr" -> commit_csr(o)
          [] o.kind \in {"mret", "sret"} ->
                [regs |-> regs, m |-> return[1], s |-> return[2], pc |-> return[3]]

Writes(o, names) == o.kind = "csr" /\ o.write /\ o.csr \in names

(* history: a frame is live until a return leaves its handler, or until    *)
(* the program writes what the entry saved.                                *)
LiveAfter(frame, o, returns, saved) ==
    IF o.kind \in returns \/ Writes(o, saved) THEN None ELSE frame

Retire(o) ==
    LET r     == Retired(o)
        taken == CASE profile = "M1" -> FALSE
                   [] profile = "M2" -> csr_mei_eligible(r.m)
                   [] profile = "M3" -> mei_eligible(r.m, r.s)
        entry == CASE ~taken -> <<r.m, r.s, r.pc>>
                   [] taken /\ profile = "M2" -> <<csr_take_mei(r.m, r.pc), r.s, r.m.mtvec>>
                   [] taken /\ profile = "M3" -> take_mei(r.m, r.s, r.pc)
        mlive == LiveAfter(mframe, o, {"mret", "sret"}, {"mstatus", "mepc"})
        slive == LiveAfter(sframe, o, {"sret"}, {"mstatus", "sstatus", "sepc"})
    IN  /\ regs' = r.regs
        /\ instret' = instret + 1
        /\ sframe' = slive
        /\ IF instret + 1 >= config.max_instructions
           THEN /\ pc' = r.pc /\ csrs' = r.m /\ m3' = r.s
                /\ GoTo(InstructionLimit, "none")
                /\ mframe' = mlive
                /\ UNCHANGED reads
           ELSE /\ csrs' = entry[1]
                /\ fetch_next(entry[3], entry[2])
                /\ mframe' = IF taken
                             THEN Some([pc |-> r.pc, mode |-> r.s.privilege, ie |-> r.m.mie,
                                   since |-> instret + 1])
                             ELSE mlive
        /\ UNCHANGED <<config, next_txn, session, out>>

(* A trap is delivered to S when it is delegated, and otherwise halts. *)
Trap(o) ==
    LET entry == take_exception(csrs, m3, o.cause, pc, o.tval)
    IN  /\ IF profile = "M3" /\ delegates(m3, o.cause)
           THEN /\ fetch_next(entry[3], entry[2])
                /\ sframe' = Some([pc |-> pc, mode |-> mode, ie |-> m3.sie])
           ELSE /\ GoTo(HaltedTrap(o.cause, pc, o.tval), "none")
                /\ UNCHANGED <<pc, m3, reads, sframe>>
        /\ UNCHANGED <<config, regs, instret, next_txn, csrs, session, out, mframe>>

commit ==
    IF state.outcome.kind = "trap" THEN Trap(state.outcome)
    ELSE IF state.insn = None THEN ComponentFault
    ELSE Retire(state.outcome)

(* The wake the runtime holds is delivered.  One that does not match the   *)
(* state faults the session.                                               *)
Wake ==
    /\ Running /\ wake # "none"
    /\ CASE wake = "FETCH" /\ state.at = "FetchIssue" ->
                send(FetchRequest, FetchWait(next_txn, state.pa))
         [] wake = "MEMORY" /\ state.at = "MemIssue" ->
                send(MemRequest, MemWait(next_txn, state.insn, state.plan, state.pa))
         [] wake = "WALK" /\ state.at = "WalkIssue" ->
                send(WalkRequest, WalkWait(next_txn, state.walk))
         [] wake = "COMMIT" /\ state.at = "CommitPending" -> commit
         [] OTHER -> ComponentFault

---------------------------------------------------------------------------
(* Messages on the mem port. *)

Waiting == state.at \in {"FetchWait", "MemWait", "WalkWait"}

(* The checks of response, walk_response and complete_memory: a request on *)
(* the initiator port, a response nobody waits for, another transaction, a *)
(* response outside Complete, of the wrong kind or of the wrong length.    *)
Refused(msg) ==
    \/ msg.kind = "Request"
    \/ ~Waiting
    \/ msg.txn # state.txn
    \/ msg.phase # "Complete"
    \/ LET store == state.at = "MemWait" /\ state.plan.kind = "Store"
           len   == IF state.at = "MemWait" THEN state.plan.width ELSE 4
       IN  \/ msg.kind # (IF store THEN "WriteResp" ELSE "ReadResp")
           \/ ~store /\ IsSome(msg.data) /\ msg.len # len

(* Going on to the commit of an outcome, in this tick. *)
ToCommit(insn, outcome, pa) == GoTo(CommitPending(insn, outcome, pa), "COMMIT")

(* The fetched word: executed, or, for an access, translated or issued. *)
Fetched(word) ==
    LET next == step(profile, mode, word, pc, regs)
    IN  IF next.kind = "Done" THEN ToCommit(Some(word), next.outcome, None) /\ UNCHANGED reads
        ELSE IF translating
        THEN GoTo(WalkIssue(Walk(<<word, next.plan>>, 1, root(m3))), "WALK") /\ reads' = <<>>
        ELSE GoTo(MemIssue(word, next.plan, None), "MEMORY") /\ UNCHANGED reads

(* walk_response: the next level, the translated access, or a trap. *)
walk_response(walk, answer) ==
    LET access == walk_access(walk)
        va     == walk_va(walk)
        found  == IF IsSome(answer)
                  THEN WalkStep(Context(access), va, walk.level, Get(answer))
                  ELSE [kind |-> "AccessFault"]
        insn   == IF walk.data = None THEN None ELSE Some(walk.data[1])
    IN  /\ reads' = (Get(out).addr :> answer) @@ reads
        /\ CASE found.kind = "Next" ->
                    GoTo(WalkIssue(Walk(walk.data, walk.level - 1, found.table)), "WALK")
             [] found.kind = "Leaf" /\ walk.data = None -> GoTo(FetchIssue(Some(found.pa)), "FETCH")
             [] found.kind = "Leaf" /\ walk.data # None ->
                    GoTo(MemIssue(walk.data[1], walk.data[2], Some(found.pa)), "MEMORY")
             [] found.kind = "PageFault" ->
                    ToCommit(insn, TrapOf(PageFault(access), BitsOf(va)), None)
             [] found.kind = "AccessFault" ->
                    ToCommit(insn, TrapOf(AccessFault(access), BitsOf(va)), None)

(* A completed load or store; only a retirement keeps the physical address. *)
Accessed(answer) ==
    LET outcome == complete_memory(state.plan, answer)
    IN  /\ ToCommit(Some(state.insn), outcome,
                    IF outcome.kind = "effect" THEN state.pa ELSE None)
        /\ UNCHANGED reads

response(msg) ==
    IF Refused(msg) THEN ComponentFault
    ELSE /\ CASE state.at = "WalkWait" -> walk_response(state.walk, msg.data)
              [] state.at = "FetchWait" /\ IsSome(msg.data) -> Fetched(Get(msg.data))
              [] state.at = "FetchWait" /\ ~IsSome(msg.data) ->
                    /\ ToCommit(None, TrapOf("InstructionAccessFault", BitsOf(pc)), None)
                    /\ UNCHANGED reads
              [] state.at = "MemWait" -> Accessed(msg.data)
         /\ out' = None
         /\ UNCHANGED <<config, pc, regs, instret, next_txn, csrs, m3, session, mframe, sframe>>

---------------------------------------------------------------------------
(* The environment: the memory behind the mem port, and the irq line. *)

(* What the memory answers: None for an access fault. *)
Contents(request) ==
    CASE request.kind = "Write"   -> {{}}
      [] state.at = "FetchWait"   -> IF request.addr \in DOMAIN config.rom
                                     THEN {config.rom[request.addr]} ELSE config.words
      [] state.at = "WalkWait"    -> Ptes
      [] OTHER                    -> {d \cap 0..(8 * request.len - 1) : d \in LoadData}

Refusals(request) == IF request.addr \in DOMAIN config.rom THEN {} ELSE {None}

Answers(request) ==
    {[kind |-> IF request.kind = "Read" THEN "ReadResp" ELSE "WriteResp", txn |-> request.txn,
      phase |-> "Complete", len |-> request.len, data |-> d]
        : d \in {Some(c) : c \in Contents(request)} \cup Refusals(request)}

Respond ==
    /\ Running /\ IsSome(out)
    /\ \E msg \in Answers(Get(out)) : response(msg)

(* A message that answers no request of the CPU: an answer garbled in one  *)
(* way, or one that arrives when nothing is outstanding.                   *)
Garbled(a) == {[a EXCEPT !.txn = next_txn], [a EXCEPT !.phase = "Request"],
               [a EXCEPT !.kind = "Request"],
               [a EXCEPT !.kind = IF a.kind = "ReadResp" THEN "WriteResp" ELSE "ReadResp"]}
              \cup {[b EXCEPT !.len = b.len + 1] : b \in {c \in {a} : c.kind = "ReadResp"}}
Unsolicited == [kind |-> "ReadResp", txn |-> next_txn - 1, phase |-> "Complete", len |-> 4,
                data |-> Some({})]
Strays == IF IsSome(out)
          THEN UNION {Garbled(a) : a \in {b \in Answers(Get(out)) : IsSome(b.data)}}
          ELSE {Unsolicited}

Stray ==
    /\ Running
    /\ \E msg \in Strays : response(msg)

(* irq: a level changes nothing but the level, in any execution state. *)
Irq ==
    /\ Running /\ profile # "M1"
    /\ \E asserted \in BOOLEAN, phase \in {"Complete", "Request"} :
          IF phase # "Complete" THEN ComponentFault
          ELSE /\ csrs' = [csrs EXCEPT !.irq_level = asserted]
               /\ UNCHANGED <<config, pc, regs, instret, next_txn, state, m3, session, wake, out,
                              history>>

(* A message of another protocol, on either port. *)
Foreign ==
    /\ Running
    /\ ComponentFault

Terminated ==
    /\ ~Running \/ Halted
    /\ UNCHANGED vars

Next == Wake \/ Respond \/ Stray \/ Irq \/ Foreign \/ Terminated

Spec == Init /\ [][Next]_vars

---------------------------------------------------------------------------
(* Snapshots: snapshot, restore and restore_m3. *)

CAUSES_M3 == <<"InstructionAddressMisaligned", "InstructionAccessFault", "IllegalInstruction",
               "Breakpoint", "EnvironmentCall", "LoadAddressMisaligned", "LoadAccessFault",
               "StoreAddressMisaligned", "StoreAccessFault", "EnvironmentCallFromU",
               "EnvironmentCallFromS", "InstructionPageFault", "LoadPageFault", "StorePageFault">>
causes == IF profile = "M3" THEN CAUSES_M3 ELSE SubSeq(CAUSES_M3, 1, 9)

write_cause(cause) == CHOOSE code \in DOMAIN CAUSES_M3 : CAUSES_M3[code] = cause
read_cause(code)   == IF code \in DOMAIN causes THEN Some(causes[code]) ELSE None

write_outcome(o) ==
    IF o.kind = "trap" THEN [kind |-> "trap", code |-> write_cause(o.cause), tval |-> o.tval]
    ELSE o

read_outcome(o) ==
    CASE o.kind = "effect" -> Some(o)
      [] o.kind = "trap"   -> LET cause == read_cause(o.code)
                              IN  IF IsSome(cause) THEN Some(TrapOf(Get(cause), o.tval)) ELSE None
      [] o.kind \in {"csr", "mret"} -> IF profile \in {"M2", "M3"} THEN Some(o) ELSE None
      [] o.kind = "sret"   -> IF profile = "M3" THEN Some(o) ELSE None

(* A physical address is written in schema 3 only, a walk without its plan. *)
write_pa(pa)     == IF profile = "M3" THEN pa ELSE None
write_walk(walk) == [data |-> IF walk.data = None THEN None ELSE Some(walk.data[1]),
                     level |-> walk.level, table |-> walk.table]

(* snapshot: the state record; the plan of an access is not written. *)
StateRecord ==
    CASE state.at = "FetchIssue" -> [at |-> "FetchIssue", pa |-> write_pa(state.pa)]
      [] state.at = "FetchWait"  -> [at |-> "FetchWait", txn |-> state.txn, pa |-> write_pa(state.pa)]
      [] state.at = "MemIssue"   -> [at |-> "MemIssue", insn |-> state.insn,
                                     pa |-> write_pa(state.pa)]
      [] state.at = "MemWait"    -> [at |-> "MemWait", txn |-> state.txn, insn |-> state.insn,
                                     pa |-> write_pa(state.pa)]
      [] state.at = "WalkIssue"  -> [at |-> "WalkIssue", walk |-> write_walk(state.walk)]
      [] state.at = "WalkWait"   -> [at |-> "WalkWait", txn |-> state.txn,
                                     walk |-> write_walk(state.walk)]
      [] state.at = "CommitPending" ->
            [at |-> "CommitPending", insn |-> state.insn,
             outcome |-> write_outcome(state.outcome), pa |-> write_pa(state.pa)]
      [] state = InstructionLimit -> state
      [] state.at = "Halted" /\ state # InstructionLimit ->
            [at |-> "Halted", cause |-> "Trap", code |-> write_cause(state.cause),
             pc |-> state.pc, tval |-> state.tval]

snapshot == [pc |-> pc, regs |-> regs, instret |-> instret, next_txn |-> next_txn,
             record |-> StateRecord,
             csrs |-> IF profile = "M1" THEN None ELSE Some(csrs),
             m3   |-> IF profile = "M3" THEN Some(m3) ELSE None]

(* A mutant: page faults of the data are forgotten. *)
consistentUntranslated(isa, in, walks, insn, o, at, rs) ==
    LET next == step(isa, in, Get(insn), at, rs)
    IN  IF insn = None THEN o = TrapOf("InstructionAccessFault", BitsOf(at))
        ELSE next.kind = "Done" => o = next.outcome

(* consistent: whether o can be the outcome of insn.  Without an           *)
(* instruction word the fetch itself failed.                               *)
consistent(isa, in, walks, insn, o, at, rs) ==
    LET Faults(access, va) ==
            {TrapOf(AccessFault(access), BitsOf(va))}
            \cup (IF walks THEN {TrapOf(PageFault(access), BitsOf(va))} ELSE {})
        next == step(isa, in, Get(insn), at, rs)
    IN  IF insn = None THEN o \in Faults("Fetch", at)
        ELSE IF next.kind = "Done" THEN o = next.outcome
        ELSE \/ o \in Faults(next.plan.kind, next.plan.addr)
             \/ /\ o.kind = "effect" /\ o.next = next.plan.next
                /\ IF next.plan.kind = "Store" THEN o.write = None
                   ELSE IsSome(o.write) /\ Get(o.write)[1] = next.plan.rd

Accept(valid, rebuilt) == IF valid THEN Some(rebuilt) ELSE None
MemoryStep(next)       == next.kind = "Memory"

(* read_state: the state of schemas 1 and 2, or None. *)
read_state(record, at, rs, txns) ==
    LET next    == step(profile, "M", record.insn, at, rs)
        latest  == record.txn = txns - 1
        outcome == read_outcome(record.outcome)
        cause   == read_cause(record.code)
    IN  CASE record.at = "FetchIssue" -> Some(FetchIssue(None))
          [] record.at = "FetchWait"  -> Accept(latest, FetchWait(record.txn, None))
          [] record.at = "MemIssue"   -> Accept(MemoryStep(next), MemIssue(record.insn, next.plan, None))
          [] record.at = "MemWait"    -> Accept(latest /\ MemoryStep(next),
                                                MemWait(record.txn, record.insn, next.plan, None))
          [] record.at = "CommitPending" ->
                Accept(/\ IsSome(outcome)
                       /\ consistent(profile, "M", FALSE, record.insn, Get(outcome), at, rs),
                       CommitPending(record.insn, Get(outcome), None))
          [] record = InstructionLimit -> Some(InstructionLimit)
          [] record.at = "Halted" /\ record # InstructionLimit ->
                Accept(IsSome(cause) /\ record.pc = at, HaltedTrap(Get(cause), at, record.tval))

(* The physical address of an access to va: present exactly when           *)
(* translating, and with the offset of va.                                 *)
translated(walks, pa, va) ==
    IF walks THEN /\ IsSome(pa)
                  /\ Get(pa) < 2^(PpnBits + PageBits)
                  /\ Get(pa) % PageSize = va % PageSize
    ELSE pa = None

(* The walk of a record, or None. *)
read_walk(walk, s, at, rs) ==
    LET next == step("M3", s.privilege, Get(walk.data), at, rs)
    IN  Accept(/\ translates(s)
               /\ walk.level <= 1
               /\ walk.table < 2^PpnBits
               /\ walk.level = 1 => walk.table = root(s)
               /\ IsSome(walk.data) => MemoryStep(next),
               Walk(IF walk.data = None THEN None ELSE <<Get(walk.data), next.plan>>,
                    walk.level, walk.table))

(* A halt keeps the mode it was taken in: the trap is not delegated there, *)
(* a page fault needs translation, and an ECALL names the mode.            *)
HaltReachable(cause, s) ==
    /\ cause \in {"InstructionPageFault", "LoadPageFault", "StorePageFault"} => translates(s)
    /\ ~delegates(s, cause)
    /\ cause \in {"EnvironmentCallFromU", "EnvironmentCallFromS", "EnvironmentCall"} =>
          cause = ecall_cause("M3", s.privilege)

(* validate_state_m3: the state of schema 3, or None. *)
validate_state_m3(record, s, at, rs, txns) ==
    LET walks      == translates(s)
        Step(insn) == step("M3", s.privilege, insn, at, rs)
        next       == Step(record.insn)
        latest     == record.txn = txns - 1
        walk       == read_walk(record.walk, s, at, rs)
        outcome    == read_outcome(record.outcome)
        pending    == Step(Get(record.insn))
        cause      == read_cause(record.code)
    IN  CASE record.at = "FetchIssue" -> Accept(translated(walks, record.pa, at), FetchIssue(record.pa))
          [] record.at = "FetchWait"  -> Accept(latest /\ translated(walks, record.pa, at),
                                                FetchWait(record.txn, record.pa))
          [] record.at = "MemIssue"   ->
                Accept(MemoryStep(next) /\ translated(walks, record.pa, next.plan.addr),
                       MemIssue(record.insn, next.plan, record.pa))
          [] record.at = "MemWait"    ->
                Accept(latest /\ MemoryStep(next) /\ translated(walks, record.pa, next.plan.addr),
                       MemWait(record.txn, record.insn, next.plan, record.pa))
          [] record.at = "WalkIssue"  -> Accept(IsSome(walk), WalkIssue(Get(walk)))
          [] record.at = "WalkWait"   -> Accept(latest /\ IsSome(walk), WalkWait(record.txn, Get(walk)))
          [] record.at = "CommitPending" ->
                Accept(/\ IsSome(outcome)
                       /\ consistent("M3", s.privilege, walks, record.insn, Get(outcome), at, rs)
                       /\ IF /\ IsSome(record.insn) /\ Get(outcome).kind = "effect"
                             /\ MemoryStep(pending)
                          THEN translated(walks, record.pa, pending.plan.addr)
                          ELSE record.pa = None,
                       CommitPending(record.insn, Get(outcome), record.pa))
          [] record = InstructionLimit -> Some(InstructionLimit)
          [] record.at = "Halted" /\ record # InstructionLimit ->
                Accept(IsSome(cause) /\ record.pc = at /\ HaltReachable(Get(cause), s),
                       HaltedTrap(Get(cause), at, record.tval))

(* The limit is reached exactly in the halt it causes. *)
CountConsistent(s, count) ==
    IF s = InstructionLimit THEN count = config.max_instructions ELSE count < config.max_instructions

(* read_csrs, and the checks restore_m3 makes of the CSRs it adds. *)
read_csrs(m)  == m.mtvec % 4 = 0 /\ m.mepc % 4 = 0
read_m3(s)    == /\ s.medeleg \subseteq MEDELEG_MASK
                 /\ s.stvec % 4 = 0 /\ s.sepc % 4 = 0
                 /\ satp_reachable(s.satp)

(* restore_m3: a schema 3 snapshot into an M3 CPU of the same configuration. *)
restore_m3(snap) ==
    LET m       == Get(snap.csrs)
        s       == Get(snap.m3)
        rebuilt == validate_state_m3(snap.record, s, snap.pc, snap.regs, snap.next_txn)
    IN  Accept(/\ snap.pc % 4 = 0 /\ read_csrs(m) /\ read_m3(s)
               /\ IsSome(rebuilt) /\ CountConsistent(Get(rebuilt), snap.instret),
               <<snap.pc, snap.regs, snap.instret, snap.next_txn, Get(rebuilt), m, s>>)

(* restore: M1 and M2 leave what their schema does not hold at reset. *)
restore(snap) ==
    LET m       == IF profile = "M1" THEN CsrFileReset ELSE Get(snap.csrs)
        rebuilt == read_state(snap.record, snap.pc, snap.regs, snap.next_txn)
    IN  IF profile = "M3" THEN restore_m3(snap)
        ELSE Accept(/\ snap.pc % 4 = 0 /\ read_csrs(m)
                    /\ IsSome(rebuilt) /\ CountConsistent(Get(rebuilt), snap.instret),
                    <<snap.pc, snap.regs, snap.instret, snap.next_txn, Get(rebuilt), m, M3Reset>>)

---------------------------------------------------------------------------
(* Properties. *)

(* cpu.rs: "Every state but Halted waits for exactly one event": the wake  *)
(* that matches the state, or the answer to the one request outstanding,   *)
(* which carries the latest TxnId.  A CPU that lost its event hangs, one   *)
(* that has two faults the session at the second.                          *)
OneEventPending ==
    LET Token == [FetchIssue |-> "FETCH", MemIssue |-> "MEMORY", WalkIssue |-> "WALK",
                  CommitPending |-> "COMMIT"]
    IN  Running =>
          IF state.at \in DOMAIN Token THEN wake = Token[state.at] /\ out = None
          ELSE /\ wake = "none"
               /\ IF Halted THEN out = None
                  ELSE IsSome(out) /\ Get(out).txn = state.txn /\ state.txn = next_txn - 1

(* A snapshot taken in any reachable state is accepted by restore's        *)
(* validation and rebuilds that state: the plan of an access, which the    *)
(* snapshot leaves out, is recomputed from the instruction word, the       *)
(* registers and the mode as they are now.                                 *)
RestoreAccepts == restore(snapshot) = Some(cpu)

(* The walk that is spread over bus transactions, with the mode, SUM, MXR  *)
(* and satp read afresh at every answer, agrees with sv32_translate over   *)
(* the PTEs it was answered: the physical address of every access, and     *)
(* whether and how it faults.                                              *)
WalkIsReference ==
    LET Reference(access, va) == sv32_translate(m3.satp, Context(access), va, reads)
        Mapped(access, va, pa) == Reference(access, va) = [kind |-> "Leaf", pa |-> pa]
        Fault(access, va, cause) ==
            LET found == Reference(access, va)
            IN  \/ found.kind \in {"AccessFault", "Leaf"} /\ cause = AccessFault(access)
                \/ found.kind = "PageFault" /\ cause = PageFault(access)
    IN  Running /\ translating =>
          /\ state.at \in {"FetchIssue", "FetchWait"} => Mapped("Fetch", pc, Get(state.pa))
          /\ state.at \in {"MemIssue", "MemWait"} =>
                Mapped(state.plan.kind, state.plan.addr, Get(state.pa))
          /\ state.at = "CommitPending" /\ state.insn = None =>
                Fault("Fetch", pc, state.outcome.cause)
          /\ state.at = "CommitPending" /\ IsSome(state.insn) =>
                LET next == step(profile, mode, Get(state.insn), pc, regs)
                IN  next.kind = "Memory" =>
                      IF state.outcome.kind = "trap"
                      THEN Fault(next.plan.kind, next.plan.addr, state.outcome.cause)
                      ELSE Mapped(next.plan.kind, next.plan.addr, Get(state.pa))

(* An MRET or SRET that retires while the frame of its entry is live goes  *)
(* back to the interrupted pc, in the interrupted mode and with the        *)
(* interrupt enable of that time, whatever ran in between; and when the    *)
(* interrupt line takes the CPU away again at that very retirement, those  *)
(* are what the new entry saves.  An interrupt never overwrites a live     *)
(* interrupt frame.                                                        *)
ReturnsWhereInterrupted == [][
    LET entered == IsSome(mframe') /\ mframe' # mframe
        Back(f, ie, ieAfterEntry) ==
            IF entered THEN /\ csrs'.mepc = f.pc
                            /\ profile = "M3" => m3'.mpp = f.mode
                            /\ ieAfterEntry = f.ie
            ELSE pc' = f.pc /\ m3'.privilege = f.mode /\ ie = f.ie
    IN  instret' = instret + 1 =>
          /\ state.outcome.kind = "mret" /\ IsSome(mframe) =>
                Back(Get(mframe), csrs'.mie, csrs'.mpie)
          /\ state.outcome.kind = "sret" /\ IsSome(sframe) =>
                Back(Get(sframe), m3'.sie, m3'.sie)
          /\ entered => \/ mframe = None \/ state.outcome.kind \in {"mret", "sret"}
                        \/ Writes(state.outcome, {"mstatus", "mepc"})]_vars

(* What a program below M can do to the machine: no step taken in U or S   *)
(* changes a machine CSR, medeleg included, or leaves its mode upwards,    *)
(* except an entry, which lands on the vector its target installed with    *)
(* the old mode saved; and one in U leaves the supervisor CSRs alone too.  *)
(* The instruction was checked in the mode of its fetch and commits later. *)
PrivilegeConfined == [][
    LET machine(m)  == [m EXCEPT !.irq_level = FALSE]
        interrupted == m3'.privilege = "M" /\ pc' = csrs.mtvec /\ m3'.mpp \in {"U", "S"}
        excepted    == m3'.privilege = "S" /\ pc' = m3.stvec /\ m3'.spp = mode /\ m3'.sepc = pc
    IN  profile = "M3" /\ mode # "M" =>
          \/ interrupted
          \/ /\ machine(csrs') = machine(csrs) /\ m3'.medeleg = m3.medeleg
             /\ mode = "S" => m3'.privilege # "M"
             /\ mode = "U" => excepted \/ m3' = m3]_vars

=============================================================================
