----------------------------- MODULE MCRv32iCpu -----------------------------
(***************************************************************************)
(* The RV32I CPU with 4-page tables of 16-byte pages and an 8-bit address  *)
(* space.  The M3 configurations begin with firmware at address 128 that   *)
(* installs the vectors, delegation and translation and drops to U or S by *)
(* MRET; what the memory holds elsewhere is any of a few words, which      *)
(* serve as user program, supervisor handler and machine handler alike.    *)
(***************************************************************************)
EXTENDS Rv32iCpu

Alu(rd, value)        == [op |-> "alu", rd |-> rd, value |-> value]
Jump(base, offset)    == [op |-> "jump", rd |-> Some(1), base |-> base, offset |-> offset]
Load(width, offset)   == [op |-> "load", rd |-> 1, rs1 |-> 1, offset |-> offset, width |-> width,
                          signed |-> TRUE]
Store(width, offset)  == [op |-> "store", rs1 |-> 0, rs2 |-> 1, offset |-> offset, width |-> width]
CsrReg(f, csr)        == [op |-> "csr", f |-> f, csr |-> csr, src |-> <<"reg", 1>>, rd |-> 0,
                          word |-> {0, 1, 4, 5, 6, 15}]
CsrImm(f, csr, imm)   == [op |-> "csr", f |-> f, csr |-> csr, src |-> <<"imm", imm>>, rd |-> 1,
                          word |-> {0, 1, 4, 5, 6, 14}]
Plain(op)             == [op |-> op]
Mret                  == [op |-> "mret", word |-> {0, 1, 4, 5, 6, 21, 28, 29}]
Sret                  == [op |-> "sret", word |-> {0, 1, 4, 5, 6, 21, 28}]
Sfence                == [op |-> "sfence", word |-> {0, 1, 4, 5, 6, 25, 28}]
Illegal               == [op |-> "illegal", word |-> {}]

(* A program as the words of memory from address at on. *)
Program(at, words) == [a \in {at + 4 * (i - 1) : i \in DOMAIN words} |-> words[(a - at) \div 4 + 1]]

(* Vectors stvec = 16 and mtvec = 20, MRET to 24; the root table is page 4. *)
Firmware(status, deleg, interrupts) ==
    <<CsrImm("Write", "stvec", {4}), CsrImm("Write", "mtvec", {2, 4}),
      CsrImm("Write", "mepc", {3, 4}),
      Alu(1, deleg), CsrReg("Write", "medeleg"),
      Alu(1, {2, 31}), CsrReg("Write", "satp"),
      Alu(1, interrupts), CsrReg("Write", "mie"),
      Alu(1, status), CsrReg("Set", "mstatus"), Mret>>

Booted(name, status, deleg, interrupts, k, words) ==
    LET firmware == Firmware(status, deleg, interrupts)
    IN  [profile |-> name, entry |-> 128, max_instructions |-> Len(firmware) + k,
         rom |-> Program(128, firmware), words |-> words]
Bare(name, k, words) ==
    [profile |-> name, entry |-> 0, max_instructions |-> k, rom |-> <<>>, words |-> words]

MCConfigs ==
    {Booted("M3", {}, {8, 12, 13}, {11}, 3, {Plain("ecall"), Sret, Mret}),
     Booted("M3", {11, 18, 19}, {2, 12, 15}, {}, 2,
            {Store(4, 8), Load(2, 0), CsrImm("Write", "sepc", {2}), Sret, CsrReg("Set", "mscratch")}),
     Bare("M3", 3, {CsrImm("Set", "mstatus", {3}), CsrReg("Write", "mie"), Alu(1, {11}), Mret, Sret,
                    Jump(None, 2), Sfence}),
     Bare("M2", 4, {CsrImm("Set", "mstatus", {3}), CsrReg("Write", "mie"), Alu(1, {11}), Mret,
                    Load(2, 0)}),
     Bare("M1", 2, {Alu(1, {3}), Load(4, 0), Store(1, 3), Jump(Some(1), 5), CsrImm("Write", "mie", {}),
                    Plain("ebreak"), Plain("fence"), Illegal})}

(* Invalid; a pointer to page 5; a user page and an execute-only user page *)
(* and a supervisor page, all mapped above the firmware.                  *)
MCPtes == {{}, {PTE_V, 10, 12}, {PTE_V, PTE_R, PTE_W, PTE_X, PTE_U, PTE_A, PTE_D, 12, 13},
           {PTE_V, PTE_X, PTE_U, PTE_A, 10, 12, 13}, {PTE_V, PTE_R, PTE_X, PTE_A, 12, 13}}
MCLoadData == {{}, {2, 7, 15}}
=============================================================================
