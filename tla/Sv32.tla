-------------------------------- MODULE Sv32 --------------------------------
(***************************************************************************)
(* The Sv32 address translation of the RV32I CPU                           *)
(* (src/components/rv32i/src/sv32.rs), scaled by the number of virtual     *)
(* page number bits a level translates: the code is VpnBits = 10, and then *)
(* a page has 4096 bytes, an address 32 bits and a page number 22.         *)
(***************************************************************************)
EXTENDS BitWords

CONSTANT VpnBits

ASSUME VpnBitsAssumption == VpnBits \in Nat \ {0}

PageBits == VpnBits + 2
PageSize == 2^PageBits
AddrBits == 2 * VpnBits + PageBits
PpnBits  == 2 * VpnBits + 2

Addresses == 0..(2^AddrBits - 1)
Wrap(a)   == a % 2^AddrBits

PTE_V == 0
PTE_R == 1
PTE_W == 2
PTE_X == 3
PTE_U == 4
PTE_A == 6
PTE_D == 7

AccessFault(access) == CASE access = "Fetch" -> "InstructionAccessFault"
                         [] access = "Load"  -> "LoadAccessFault"
                         [] access = "Store" -> "StoreAccessFault"

PageFault(access) == CASE access = "Fetch" -> "InstructionPageFault"
                       [] access = "Load"  -> "LoadPageFault"
                       [] access = "Store" -> "StorePageFault"

vpn(va, level) == (va \div 2^(PageBits + VpnBits * level)) % 2^VpnBits

pte_address(table, va, level) == table * PageSize + vpn(va, level) * 4

(* What the PTE says about the page: whether the leaf lets this access     *)
(* through.                                                                *)
LeafAllows(ctx, pte) ==
    /\ CASE ctx.privilege = "U" -> PTE_U \in pte
         [] ctx.privilege = "S" -> PTE_U \notin pte \/ (ctx.sum /\ ctx.access # "Fetch")
         [] ctx.privilege = "M" -> TRUE
    /\ CASE ctx.access = "Fetch" -> PTE_X \in pte
         [] ctx.access = "Load"  -> PTE_R \in pte \/ (ctx.mxr /\ PTE_X \in pte)
         [] ctx.access = "Store" -> PTE_W \in pte
    /\ PTE_A \in pte
    /\ ctx.access = "Store" => PTE_D \in pte

(* The translation a leaf gives: a level-1 leaf maps a superpage. *)
LeafAddress(va, level, pte) ==
    LET span == 2^(PageBits + VpnBits * level)
    IN  (Num(Shr(pte, 10)) \div 2^(VpnBits * level)) * span + (va % span)

(* sv32::step: what one PTE means for the walk. *)
WalkStep(ctx, va, level, pte) ==
    LET ppn     == Num(Shr(pte, 10))
        invalid == PTE_V \notin pte \/ (PTE_R \notin pte /\ PTE_W \in pte)
        pointer == PTE_R \notin pte /\ PTE_X \notin pte
    IN  IF \/ invalid
           \/ pointer /\ (level = 0 \/ pte \cap {PTE_D, PTE_A, PTE_U} # {})
           \/ ~pointer /\ level = 1 /\ ppn % 2^VpnBits # 0
           \/ ~pointer /\ ~LeafAllows(ctx, pte)
        THEN [kind |-> "PageFault"]
        ELSE IF pointer THEN [kind |-> "Next", table |-> ppn]
        ELSE [kind |-> "Leaf", pa |-> LeafAddress(va, level, pte)]

(* sv32_translate: the whole walk at once, over the PTEs by address; the   *)
(* bus refuses the others, and those that are None.  The loop ends at      *)
(* level 0, where WalkStep finds no pointer.                               *)
sv32_translate(satp, ctx, va, ptes) ==
    LET Look(table, level) ==
            LET addr == pte_address(table, va, level)
            IN  IF addr \in DOMAIN ptes /\ IsSome(ptes[addr])
                THEN WalkStep(ctx, va, level, Get(ptes[addr]))
                ELSE [kind |-> "AccessFault"]
        top == Look(Num(satp \cap 0..21), 1)
    IN  IF ctx.privilege = "M" \/ 31 \notin satp THEN [kind |-> "Leaf", pa |-> va]
        ELSE IF top.kind = "Next" THEN Look(top.table, 0)
        ELSE top
=============================================================================
