----------------------------- MODULE Privilege ------------------------------
(***************************************************************************)
(* The machine CSRs and the M3 privilege state of the RV32I CPU            *)
(* (src/components/rv32i/src/csr.rs and privilege.rs): what each CSR reads *)
(* and stores, the returns MRET and SRET, and the two entries, a delegated *)
(* exception to S and the machine external interrupt to M.  m is the M2    *)
(* CsrFile and s the M3State; every operator that changes them returns     *)
(* both, as <<m, s>>, with the new pc where there is one.                  *)
(***************************************************************************)
EXTENDS Sv32

bits == [U |-> 0, S |-> 1, M |-> 3]

legal_mpp(field) == CASE field = {0} -> "S" [] field = {0, 1} -> "M" [] OTHER -> "U"

CsrNumber == [mstatus |-> 768, medeleg |-> 770, mideleg |-> 771, mie |-> 772, mtvec |-> 773,
              mscratch |-> 832, mepc |-> 833, mcause |-> 834, mtval |-> 835, mip |-> 836,
              sstatus |-> 256, sie |-> 260, stvec |-> 261, sscratch |-> 320, sepc |-> 321,
              scause |-> 322, stval |-> 323, sip |-> 324, satp |-> 384]

MachineCsrs == {"mstatus", "mie", "mip", "mtvec", "mscratch", "mepc", "mcause", "mtval"}

(* The whitelist of each profile. *)
is_supported(profile, csr) == csr \in (IF profile = "M3" THEN DOMAIN CsrNumber ELSE MachineCsrs)

(* A mutant: the mode is not checked. *)
accessibleAlways(csr, mode, writes) == TRUE

(* accessible: bits [9:8] of the number are the lowest mode that may use   *)
(* the CSR, and bits [11:10] = 3 make it read-only.                        *)
accessible(csr, mode, writes) ==
    LET number == CsrNumber[csr]
    IN  /\ bits[mode] >= (number \div 256) % 4
        /\ ~(writes /\ number \div 1024 = 3)

MEDELEG_MASK == (0..8) \cup {12, 13, 15}
SATP_MODE    == 31
SATP_ASID    == 22..30
SATP_PPN     == 0..21
MEI_CAUSE    == {0, 1, 3, 31}

satp_write(value)     == value \ SATP_ASID
satp_reachable(value) == value \cap SATP_ASID = {}

(* An address as it is written to a CSR that keeps bits [1:0] clear. *)
Aligned(value) == Num((value \cap 0..(AddrBits - 1)) \ {0, 1})

CsrFileReset == [mie |-> FALSE, mpie |-> FALSE, meie |-> FALSE, mtvec |-> 0, mscratch |-> {},
                 mepc |-> 0, mcause |-> {}, mtval |-> {}, irq_level |-> FALSE]
M3Reset == [privilege |-> "M", sie |-> FALSE, spie |-> FALSE, spp |-> "U", mpp |-> "U",
            sum |-> FALSE, mxr |-> FALSE, medeleg |-> {}, stvec |-> 0, sscratch |-> {},
            sepc |-> 0, scause |-> {}, stval |-> {}, satp |-> {}]

sstatus(s) == Flag(s.sie, 1) \cup Flag(s.spie, 5) \cup Flag(s.spp = "S", 8)
              \cup Flag(s.sum, 18) \cup Flag(s.mxr, 19)

mstatus(m, s) == sstatus(s) \cup Flag(m.mie, 3) \cup Flag(m.mpie, 7)
                 \cup {i + 11 : i \in BitsOf(bits[s.mpp])}

(* CsrFile::read; in the M2 profile mstatus.MPP is constant M. *)
csr_read(m, csr) ==
    CASE csr = "mstatus" -> Flag(m.mie, 3) \cup Flag(m.mpie, 7) \cup {11, 12}
      [] csr = "mie"     -> Flag(m.meie, 11)
      [] csr = "mip"     -> Flag(m.irq_level, 11)
      [] csr \in {"mtvec", "mepc"} -> BitsOf(m[csr])
      [] csr \in {"mscratch", "mcause", "mtval"} -> m[csr]

(* M3State::read *)
m3_read(m, s, csr) ==
    CASE csr = "mstatus" -> mstatus(m, s)
      [] csr = "sstatus" -> sstatus(s)
      [] csr \in {"mideleg", "sie", "sip"} -> {}
      [] csr \in {"stvec", "sepc"} -> BitsOf(s[csr])
      [] csr \in {"medeleg", "sscratch", "scause", "stval", "satp"} -> s[csr]
      [] OTHER -> csr_read(m, csr)

(* CsrFile::write *)
csr_write(m, csr, value) ==
    CASE csr = "mstatus" -> [m EXCEPT !.mie = 3 \in value, !.mpie = 7 \in value]
      [] csr = "mie"     -> [m EXCEPT !.meie = 11 \in value]
      [] csr = "mip"     -> m
      [] csr \in {"mtvec", "mepc"} -> [m EXCEPT ![csr] = Aligned(value)]
      [] csr \in {"mscratch", "mcause", "mtval"} -> [m EXCEPT ![csr] = value]

write_sstatus(s, value) ==
    [s EXCEPT !.sie = 1 \in value, !.spie = 5 \in value,
              !.spp = IF 8 \in value THEN "S" ELSE "U",
              !.sum = 18 \in value, !.mxr = 19 \in value]

(* M3State::write *)
m3_write(m, s, csr, value) ==
    CASE csr = "mstatus" ->
            <<csr_write(m, csr, value),
              [write_sstatus(s, value) EXCEPT
                    !.mpp = legal_mpp({i \in {0, 1} : i + 11 \in value})]>>
      [] csr = "sstatus" -> <<m, write_sstatus(s, value)>>
      [] csr \in {"mideleg", "sie", "sip"} -> <<m, s>>
      [] csr = "medeleg" -> <<m, [s EXCEPT !.medeleg = value \cap MEDELEG_MASK]>>
      [] csr \in {"stvec", "sepc"} -> <<m, [s EXCEPT ![csr] = Aligned(value)]>>
      [] csr \in {"sscratch", "scause", "stval"} -> <<m, [s EXCEPT ![csr] = value]>>
      [] csr = "satp"    -> <<m, [s EXCEPT !.satp = satp_write(value)]>>
      [] OTHER -> <<csr_write(m, csr, value), s>>

(* CsrOp::apply *)
apply(op, old, operand) == CASE op = "Write" -> operand
                             [] op = "Set"   -> old \cup operand
                             [] op = "Clear" -> old \ operand

(* A mutant: the enable is not restored. *)
csr_mretKeepsMie(m) == [m EXCEPT !.mpie = TRUE]

(* CsrFile::mret, without the jump to mepc. *)
csr_mret(m) == [m EXCEPT !.mie = m.mpie, !.mpie = TRUE]

(* MRET and SRET in the M3 profile: <<m, s, pc>>. *)
mret(m, s) == <<csr_mret(m), [s EXCEPT !.privilege = s.mpp, !.mpp = "U"], m.mepc>>

sret(m, s) ==
    <<m,
      [s EXCEPT !.privilege = s.spp, !.spp = "U", !.sie = s.spie, !.spie = TRUE],
      s.sepc>>

translates(s) == s.privilege # "M" /\ SATP_MODE \in s.satp
root(s)       == Num(s.satp \cap SATP_PPN)

TrapCode == [InstructionAddressMisaligned |-> 0, InstructionAccessFault |-> 1,
             IllegalInstruction |-> 2, Breakpoint |-> 3, LoadAddressMisaligned |-> 4,
             LoadAccessFault |-> 5, StoreAddressMisaligned |-> 6, StoreAccessFault |-> 7,
             EnvironmentCallFromU |-> 8, EnvironmentCallFromS |-> 9, EnvironmentCall |-> 11,
             InstructionPageFault |-> 12, LoadPageFault |-> 13, StorePageFault |-> 15]

delegates(s, cause) == s.privilege # "M" /\ TrapCode[cause] \in s.medeleg

(* take_exception of a delegated exception: <<m, s, pc>>. *)
take_exception(m, s, cause, pc, tval) ==
    <<m,
      [s EXCEPT !.spp = s.privilege, !.sepc = pc, !.scause = BitsOf(TrapCode[cause]),
                !.stval = tval, !.spie = s.sie, !.sie = FALSE, !.privilege = "S"],
      s.stvec>>

(* The machine external interrupt in M2: CsrFile::mei_eligible, take_mei. *)
csr_mei_eligible(m) == m.mie /\ m.meie /\ m.irq_level

csr_take_mei(m, next_pc) ==
    [m EXCEPT !.mepc = next_pc, !.mcause = MEI_CAUSE, !.mtval = {}, !.mpie = m.mie, !.mie = FALSE]

(* And in M3, where it is eligible below M whatever MIE says. *)
mei_eligible(m, s) == m.meie /\ m.irq_level /\ (m.mie \/ s.privilege # "M")

take_mei(m, s, next_pc) ==
    <<csr_take_mei(m, next_pc), [s EXCEPT !.mpp = s.privilege, !.privilege = "M"], m.mtvec>>
=============================================================================
