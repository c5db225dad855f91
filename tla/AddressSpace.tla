---------------------------- MODULE AddressSpace ----------------------------
(***************************************************************************)
(* The address-space builder of the modeled kernel (os/src/space.rs) and   *)
(* the rules a kernel with processes is configured by (config.rs,          *)
(* image.rs): which frames a process needs, what goes in each, and the     *)
(* accesses that put it there, one by one.                                 *)
(*                                                                         *)
(* A config has the windows ram, gate, frame, staging, frame_pool, blk and *)
(* uart_tx (of one byte); a layout has user_base, stack_top and            *)
(* stack_pages.                                                            *)
(***************************************************************************)
EXTENDS ElfImages, Integers

CONSTANTS
    MAX_ACCESS,     \* most bytes of an access
    PER_SLOT,       \* page-table entries of a table
    MMIO_MEGAPAGE,  \* the base of the MMIO megapage
    PHYS_LIMIT,     \* the first physical address a PPN cannot name
    BLK_REGISTERS   \* bytes of the block controller's registers

PTE_BYTES == PAGE \div PER_SLOT
MEGAPAGE == PER_SLOT * PAGE

vpn1(address) == (address \div MEGAPAGE) % PER_SLOT
vpn0(address) == (address \div PAGE) % PER_SLOT

---------------------------------------------------------------------------
(* config.rs *)

WindowAt(base, size) == [base |-> base, size |-> size]
WindowEnd(w) == w.base + w.size
contains(w, address, len) == len # 0 /\ w.base <= address /\ address + len <= WindowEnd(w)
overlaps(w, address, len) ==
    len # 0 /\ w.size # 0 /\ w.base < address + len /\ address < WindowEnd(w)

permits(config, address, len) ==
    /\ ~overlaps(config.gate, address, len)
    /\ \E w \in {"frame", "staging", "frame_pool", "blk", "uart_tx"} :
           contains(config[w], address, len)

InRam == <<"frame", "staging", "frame_pool">>

config_validate(config) ==
    FirstOf(
        <<FirstFailure(
            <<<<\E w \in {"ram", "gate", "frame", "staging", "frame_pool", "blk"} :
                    config[w].size = 0, "Empty">>,
              <<config.frame.base % 4 # 0, "MisalignedFrame">>>>)>>
        \o [i \in DOMAIN InRam |-> FirstFailure(
            LET w == config[InRam[i]]
            IN  <<<<~contains(config.ram, w.base, w.size), "OutsideRam">>,
                  <<\E j \in 1..(i - 1) : overlaps(config[InRam[j]], w.base, w.size),
                    "Overlap">>>>)])

---------------------------------------------------------------------------
(* image.rs *)

stack_base(layout) == layout.stack_top - layout.stack_pages * PAGE
image_range(layout) ==
    [start |-> layout.user_base, end |-> Max({0, stack_base(layout)})]
stack_vas(layout) ==
    [n \in 1..layout.stack_pages |-> stack_base(layout) + (n - 1) * PAGE]

valid_perms(perms) == perms \cap {"R", "X"} # {} /\ ("R" \in perms \/ "W" \notin perms)

MegapageSlots(config) == {vpn1(config.ram.base), vpn1(MMIO_MEGAPAGE)}

(* A mutant: the stack may be in the slot of a megapage. *)
StackInSlotAllowed(config, layout) == FALSE

StackInSlot(config, layout) ==
    \E n \in 1..layout.stack_pages : vpn1(stack_vas(layout)[n]) \in MegapageSlots(config)

validate_layout(config, layout) ==
    LET kernel == WindowAt(config.ram.base, MEGAPAGE)
        pool   == config.frame_pool
        first  == config_validate(config)
    IN  IF first # <<>> THEN first
        ELSE FirstFailure(
            <<<<kernel.base % MEGAPAGE # 0 \/ WindowEnd(kernel) > PHYS_LIMIT, "RamBase">>,
              <<~contains(kernel, config.frame.base, config.frame.size), "FrameOutside">>,
              <<~contains(kernel, config.staging.base, config.staging.size), "StagingOutside">>,
              <<pool.base % PAGE # 0 \/ pool.size % PAGE # 0, "PoolAlignment">>,
              <<WindowEnd(pool) > PHYS_LIMIT, "PoolReach">>,
              <<overlaps(kernel, pool.base, pool.size), "PoolInMegapage">>,
              <<layout.user_base % PAGE # 0 \/ layout.stack_top % PAGE # 0, "LayoutAlignment">>,
              <<layout.stack_pages = 0, "NoStack">>,
              <<stack_base(layout) < 0, "StackBelowZero">>,
              <<layout.user_base >= stack_base(layout), "UserBase">>,
              <<stack_base(layout) >= 0 /\ StackInSlot(config, layout), "StackInSlot">>>>)

(* DiskBoot::validate. *)
disk_validate(config, layout, capacity_blocks, BLOCK) ==
    LET first == validate_layout(config, layout)
    IN  IF first # <<>> THEN first
        ELSE FirstFailure(
            <<<<capacity_blocks = 0, "NoBlock">>,
              <<config.staging.base % MAX_ACCESS # 0, "StagingAlignment">>,
              <<config.staging.size < BLOCK, "StagingSize">>,
              <<WindowEnd(config.staging) > TOP, "StagingReach">>,
              <<config.blk.size < BLK_REGISTERS, "BlkRegisters">>>>)

(* BootImage::check: every rule a plan's image is held to again. *)
image_check(config, layout, file_len, staged, image) ==
    LET range == image_range(layout)
        PageBad(p, perms) ==
            \/ p.va % PAGE # 0 \/ p.va < range.start \/ p.va >= range.end
            \/ p.perms # perms
        CopyBad(c) ==
            \/ c.len = 0 \/ c.page_offset + c.len > PAGE
            \/ c.file_offset + c.len > file_len
        all   == FlattenSeq([s \in DOMAIN image.segments |-> image.segments[s].pages])
    IN  FirstFailure(
            <<<<file_len = 0, "EmptyFile">>,
              <<~contains(config.staging, staged, file_len), "OutsideStaging">>,
              <<image.entry % 4 # 0 \/ image.entry \notin range.start..(range.end - 1), "Entry">>,
              <<image.segments = <<>>, "NoSegment">>,
              <<\E s \in DOMAIN image.segments :
                    LET segment == image.segments[s]
                    IN  \/ ~valid_perms(segment.perms) \/ segment.pages = <<>>
                        \/ \E n \in DOMAIN segment.pages :
                               PageBad(segment.pages[n], segment.perms), "Page">>,
              <<\E n \in 1..(Len(all) - 1) : all[n + 1].va <= all[n].va, "PageOrder">>,
              <<\E n \in DOMAIN all : all[n].copy # <<>> /\ CopyBad(all[n].copy[1]), "Copy">>>>)

---------------------------------------------------------------------------
(* space.rs *)

(* The pages to map: the segments', then the stack's. *)
space_pages(image, layout) ==
    FlattenSeq([s \in DOMAIN image.segments |-> image.segments[s].pages])
    \o [n \in 1..layout.stack_pages |->
           [va |-> stack_vas(layout)[n], perms |-> {"R", "W"}, copy |-> <<>>]]

frames_needed(image, layout) ==
    LET all == space_pages(image, layout)
    IN  1 + Cardinality({vpn1(all[n].va) : n \in DOMAIN all}) + Len(all)

megapage_conflict(image, config) ==
    \E s \in DOMAIN image.segments : \E n \in DOMAIN image.segments[s].pages :
        vpn1(image.segments[s].pages[n].va) \in MegapageSlots(config)

(* split_copy: copies of at most MAX_ACCESS bytes that cross no page on    *)
(* either side.                                                            *)
split_copy(src, dst, len) ==
    LET from[n \in 0..len] ==
            IF n = len THEN <<>>
            ELSE LET k == Min({len - n, MAX_ACCESS, PAGE - ((src + n) % PAGE),
                               PAGE - ((dst + n) % PAGE)})
                 IN  <<[src |-> src + n, dst |-> dst + n, len |-> k]>> \o from[n + k]
    IN  from[0]

SumOf(lengths) == FoldSeq(LAMBDA a, b : a + b, 0, lengths)

UserLeaf(ppn, perms) == [kind |-> "leaf", ppn |-> ppn, perms |-> perms]
Pointer(ppn) == [kind |-> "pointer", ppn |-> ppn, perms |-> {}]
KernelLeaf(ppn) == [kind |-> "kernel", ppn |-> ppn, perms |-> {"R", "W", "X"}]
MmioLeaf(ppn) == [kind |-> "mmio", ppn |-> ppn, perms |-> {"R", "W"}]

(* A mutant: the root's entries are written before the leaves. *)
PteOrderRootFirst(leaves, root_entries) == root_entries \o leaves

PteOrder(leaves, root_entries) == leaves \o root_entries

(* Space::build in the frames, ascending: the root, then for each page its *)
(* level-0 table on first use and its own frame.                           *)
build(config, layout, staged, image, frames) ==
    LET all == space_pages(image, layout)
        New(n) == \A m \in 1..(n - 1) : vpn1(all[m].va) # vpn1(all[n].va)
        Taken(n) == 1 + n + Cardinality({m \in 1..n : New(m)})
        Frame(n) == frames[Taken(n)]
        Table(n) == LET m == CHOOSE m \in 1..n : New(m) /\ vpn1(all[m].va) = vpn1(all[n].va)
                    IN  frames[Taken(m) - 1]
        root == frames[1]
        Leaf(n) == [addr  |-> Table(n) * PAGE + PTE_BYTES * vpn0(all[n].va),
                    value |-> UserLeaf(Frame(n), all[n].perms)]
        news == SortedBy({n \in DOMAIN all : New(n)}, LAMBDA n : n)
        l1 == [k \in DOMAIN news |-> [slot |-> vpn1(all[news[k]].va),
                                      value |-> Pointer(Table(news[k]))]]
              \o <<[slot |-> vpn1(config.ram.base), value |-> KernelLeaf(config.ram.base \div PAGE)],
                   [slot |-> vpn1(MMIO_MEGAPAGE), value |-> MmioLeaf(MMIO_MEGAPAGE \div PAGE)]>>
        order == SortedBy(DOMAIN l1, LAMBDA k : l1[k].slot)
        Copies(n) == IF all[n].copy = <<>> THEN <<>>
                     ELSE LET c == all[n].copy[1]
                          IN  split_copy(staged + c.file_offset,
                                         Frame(n) * PAGE + c.page_offset, c.len)
        \* regions: the segments in image order, then the stack.
        Before(s) == SumOf([t \in 1..(s - 1) |-> Len(image.segments[t].pages)])
        Segment(s) ==
            [va     |-> image.segments[s].pages[1].va,
             perms  |-> image.segments[s].perms,
             frames |-> [n \in DOMAIN image.segments[s].pages |-> Frame(Before(s) + n)]]
        stack == Len(all) - layout.stack_pages
    IN  [root    |-> root,
         tables  |-> <<root>> \o [k \in DOMAIN news |-> Table(news[k])],
         regions |-> [s \in DOMAIN image.segments |-> Segment(s)]
                     \o <<[va |-> stack_base(layout), perms |-> {"R", "W"},
                           frames |-> [n \in 1..layout.stack_pages |-> Frame(stack + n)]]>>,
         frames |-> frames,
         copies |-> FlattenSeq([n \in DOMAIN all |-> Copies(n)]),
         ptes   |-> PteOrder([n \in DOMAIN all |-> Leaf(n)],
                             [k \in DOMAIN order |->
                                 [addr  |-> root * PAGE + PTE_BYTES * l1[order[k]].slot,
                                  value |-> l1[order[k]].value]])]

(* region_image: as an option, the image a live process's segment regions  *)
(* describe, with no file bytes.                                           *)
region_image(regions, layout) ==
    LET segments == SubSeq(regions, 1, Len(regions) - 1)
        range    == image_range(layout)
        Image(r) == [perms |-> r.perms,
                     pages |-> [k \in DOMAIN r.frames |->
                                   [va |-> r.va + (k - 1) * PAGE, perms |-> r.perms,
                                    copy |-> <<>>]]]
        all      == FlattenSeq([s \in DOMAIN segments |-> Image(segments[s]).pages])
    IN  IF \/ segments = <<>>
           \/ \E s \in DOMAIN segments : segments[s].frames = <<>>
                                        \/ ~valid_perms(segments[s].perms)
           \/ \E n \in DOMAIN all : \/ all[n].va % PAGE # 0
                                    \/ all[n].va \notin range.start..(range.end - 1)
                                    \/ n > 1 /\ all[n].va <= all[n - 1].va
        THEN <<>>
        ELSE <<[entry    |-> segments[1].va,
                segments |-> [s \in DOMAIN segments |-> Image(segments[s])]]>>

zero_steps(space) == Len(space.frames) * (PAGE \div MAX_ACCESS)
steps(space) == zero_steps(space) + 2 * Len(space.copies) + Len(space.ptes)

(* Space::access: what step does. *)
access(space, step) ==
    LET per_frame == PAGE \div MAX_ACCESS
        k         == step - zero_steps(space)
        copy      == space.copies[k \div 2 + 1]
        pte       == space.ptes[k - 2 * Len(space.copies) + 1]
    IN  CASE step < zero_steps(space) ->
                 [kind |-> "zero", len |-> MAX_ACCESS,
                  addr |-> space.frames[step \div per_frame + 1] * PAGE
                           + (step % per_frame) * MAX_ACCESS]
          [] k >= 0 /\ k \div 2 < Len(space.copies) ->
                 IF k % 2 = 0 THEN [kind |-> "read", addr |-> copy.src, len |-> copy.len]
                 ELSE [kind |-> "write", addr |-> copy.dst, len |-> copy.len]
          [] OTHER -> [kind |-> "pte", addr |-> pte.addr, len |-> PTE_BYTES, value |-> pte.value]

=============================================================================
