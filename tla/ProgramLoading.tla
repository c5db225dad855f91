--------------------------- MODULE ProgramLoading ---------------------------
(***************************************************************************)
(* What a disk boot of the modeled kernel does with the bytes it reads     *)
(* (os/src/procop.rs: staged, next_load, admit; kernel.rs: disk_space):    *)
(* block 0 is parsed, and then each executable in table order is parsed    *)
(* from a prefix of its file, read again longer when the prefix is too     *)
(* short, and built in its own frames one access at a time.  ModeledKernel *)
(* has the stages around this and abstracts from the bytes.                *)
(*                                                                         *)
(* The frame pool holds stale bytes at first.  A word of a page table is   *)
(* kept as an entry of ptes, not as its bytes.                             *)
(***************************************************************************)
EXTENDS ExecTable, AddressSpace, SparseStore

CONSTANTS
    RamBases, RamSizes,   \* the RAM regions a firmware is loaded in
    Inputs   \* what there is to boot: config, layout, capacity, block, files

VARIABLES
    input,   \* the member of Inputs
    phase,   \* "new", "table", "staged", "load", "done", "refused",
             \* "invalid" or "fault"
    table,   \* the entries of the parsed table
    index,   \* the entry being loaded
    len,     \* the bytes of it read from staging
    space,   \* the address space being built, <<>> otherwise
    step,    \* its accesses completed
    procs,   \* the processes created
    mem,     \* the bytes of the frame pool, by frame
    ptes     \* the page-table entries in the pool, by address

vars == <<input, phase, table, index, len, space, step, procs, mem, ptes>>

config == input.config
layout == input.layout
file == input.files[index]

Stale == 99
Pool(c) == (c.frame_pool.base \div PAGE)..(WindowEnd(c.frame_pool) \div PAGE - 1)
Free == Pool(config) \ UNION {Range(procs[k].space.frames) : k \in DOMAIN procs}

Init ==
    /\ input \in Inputs
    /\ phase = "new"
    /\ table = <<>> /\ index = 0 /\ len = 0 /\ space = <<>> /\ step = 0
    /\ procs = <<>>
    /\ mem = [f \in Pool(input.config) |-> [b \in 0..(PAGE - 1) |-> Stale]]
    /\ ptes = <<>>

(* DiskBoot::validate, when the kernel is made. *)
Configure ==
    /\ phase = "new"
    /\ phase' = IF disk_validate(config, layout, input.capacity, BLOCK_SIZE) = <<>>
                THEN "table" ELSE "invalid"
    /\ UNCHANGED <<input, table, index, len, space, step, procs, mem, ptes>>

first_read(entry) == Min({entry.byte_len, EHDR_SIZE})

(* next_load, and acked without an error: the entry's blocks are staged. *)
next_load(entries, k) ==
    /\ table' = entries /\ index' = k
    /\ space' = <<>> /\ step' = 0
    /\ IF k <= Len(entries) THEN phase' = "staged" /\ len' = first_read(entries[k])
                            ELSE phase' = "done" /\ len' = 0

StagedTable ==
    /\ phase = "table"
    /\ LET parsed == parse_exec_table(input.block, input.capacity, config.staging.size)
       IN  IF IsOk(parsed) THEN next_load(parsed.ok, 1)
           ELSE phase' = "refused" /\ UNCHANGED <<table, index, len, space, step>>
    /\ UNCHANGED <<input, procs, mem, ptes>>

LowestFree(n) ==
    SortedBy({f \in Free : Cardinality({g \in Free : g < f}) < n}, LAMBDA f : f)

StagedImage ==
    LET parsed == parse_user_elf32(file, len, image_range(layout))
        again  == ~IsOk(parsed) /\ parsed.err[1] = "PrefixTooShort" /\ parsed.err[2] > len
    IN  /\ phase = "staged"
        /\ \/ /\ again
              /\ len' = parsed.err[2]
              /\ UNCHANGED <<phase, table, index, space, step>>
           \/ /\ ~IsOk(parsed) /\ ~again
              /\ next_load(table, index + 1)
           \/ /\ IsOk(parsed)
              /\ LET n == frames_needed(parsed.ok, layout)
                 IN  IF megapage_conflict(parsed.ok, config) \/ Cardinality(Free) < n
                     THEN next_load(table, index + 1)
                     ELSE /\ phase' = "load" /\ step' = 0
                          /\ space' = build(config, layout, config.staging.base, parsed.ok,
                                            LowestFree(n))
                          /\ UNCHANGED <<table, index, len>>
        /\ UNCHANGED <<input, procs, mem, ptes>>

---------------------------------------------------------------------------
(* One access of the load.  The bytes a copy reads are those at its source *)
(* in staging, where the file is.                                          *)

Written(from, bytes) ==
    [f \in DOMAIN mem |-> [b \in 0..(PAGE - 1) |->
        LET at == f * PAGE + b - from + 1
        IN  IF at \in DOMAIN bytes THEN bytes[at] ELSE mem[f][b]]]

StagedBytes(from, n) == [b \in 1..n |-> FileByte(from - config.staging.base + b - 1)]

Perform(a) ==
    LET others == Restrict(ptes, {p \in DOMAIN ptes : p \notin a.addr..(a.addr + a.len - 1)})
    IN  CASE a.kind = "zero" -> /\ mem' = Written(a.addr, [b \in 1..a.len |-> 0])
                                /\ ptes' = others
          [] a.kind = "read" -> UNCHANGED <<mem, ptes>>
          [] a.kind = "write" ->
                 /\ mem' = Written(a.addr, StagedBytes(access(space, step - 1).addr, a.len))
                 /\ ptes' = others
          [] a.kind = "pte" -> /\ mem' = mem
                               /\ ptes' = (a.addr :> a.value) @@ others

Access ==
    /\ phase = "load" /\ step < steps(space)
    /\ LET a == access(space, step)
       IN  IF permits(config, a.addr, a.len)
           THEN Perform(a) /\ step' = step + 1 /\ UNCHANGED phase
           ELSE phase' = "fault" /\ UNCHANGED <<step, mem, ptes>>
    /\ UNCHANGED <<input, table, index, len, space, procs>>

(* The last entry is written: the process is admitted. *)
Admit ==
    /\ phase = "load" /\ step = steps(space)
    /\ procs' = Append(procs, [pid |-> index, space |-> space])
    /\ next_load(table, index + 1)
    /\ UNCHANGED <<input, mem, ptes>>

Next == Configure \/ StagedTable \/ StagedImage \/ Access \/ Admit

Spec == Init /\ [][Next]_vars

---------------------------------------------------------------------------
(* Reference definitions: what the checks mean, without their order,       *)
(* sorting or arithmetic on ranges.                                        *)

Memory(ph) == ph.vaddr..(ph.vaddr + ph.memsz - 1)
PagesOf(ph) == {a \div PAGE : a \in Memory(ph)}

WellFormed(f) ==
    /\ f.bad = {} /\ f.len >= EHDR_SIZE
    /\ f.phnum # PN_XNUM /\ (f.phnum = 0 \/ f.phentsize = PHDR_SIZE)
    /\ f.phoff + f.phnum * PHDR_SIZE <= f.len
    /\ \A i \in 1..f.phnum : f.phdrs[i].load =>
           f.phdrs[i].filesz <= f.phdrs[i].memsz
           /\ f.phdrs[i].offset + f.phdrs[i].filesz <= f.len
    /\ f.entry % 4 = 0

(* A user executable that can be mapped between start and end. *)
Executable(f, start, end) ==
    /\ WellFormed(f) /\ f.phnum <= MAX_PHDRS
    /\ \A i \in Loads(f) : LET ph == f.phdrs[i]
                           IN  /\ Memory(ph) \subseteq start..(end - 1)
                               /\ ph.flags \notin {{}, {"W"}, {"W", "X"}}
    /\ \A i, j \in Loads(f) : i # j => PagesOf(f.phdrs[i]) \cap PagesOf(f.phdrs[j]) = {}
    /\ \E i \in Loads(f) : "X" \in f.phdrs[i].flags /\ f.entry \in Memory(f.phdrs[i])

(* The contents of address a: the file's byte, or zero. *)
ByteOf(f, a) ==
    LET from == {i \in Loads(f) : a \in f.phdrs[i].vaddr..(f.phdrs[i].vaddr + f.phdrs[i].filesz - 1)}
    IN  IF from = {} THEN 0
        ELSE LET ph == f.phdrs[CHOOSE i \in from : TRUE] IN FileByte(ph.offset + a - ph.vaddr)

---------------------------------------------------------------------------
(* The page-table walk of the hart. *)

Invalid == [kind |-> "invalid", ppn |-> 0, perms |-> {}]
Garbage == [kind |-> "garbage", ppn |-> 0, perms |-> {}]

Word(at) ==
    IF at \in DOMAIN ptes THEN ptes[at]
    ELSE IF \A b \in 0..(PTE_BYTES - 1) : mem[at \div PAGE][(at % PAGE) + b] = 0 THEN Invalid
    ELSE Garbage

Translate(root, page) ==
    LET l1 == Word(root * PAGE + PTE_BYTES * vpn1(page * PAGE))
    IN  IF l1.kind = "pointer" THEN Word(l1.ppn * PAGE + PTE_BYTES * vpn0(page * PAGE)) ELSE l1

(* What a page of the process of file f has to be. *)
PageMapped(f, leaf, page) ==
    LET touching == {i \in Loads(f) : page \in PagesOf(f.phdrs[i])}
        va       == page * PAGE
        Holds    == \A b \in 0..(PAGE - 1) : mem[leaf.ppn][b] = ByteOf(f, va + b)
    IN  CASE va >= stack_base(layout) /\ va < layout.stack_top ->
                 leaf.kind = "leaf" /\ leaf.perms = {"R", "W"} /\ Holds
          [] touching # {} /\ va < stack_base(layout) ->
                 leaf.kind = "leaf" /\ Holds /\ \A i \in touching : leaf.perms = f.phdrs[i].flags
          [] vpn1(va) = vpn1(config.ram.base) -> leaf = KernelLeaf(config.ram.base \div PAGE)
          [] vpn1(va) = vpn1(MMIO_MEGAPAGE) -> leaf = MmioLeaf(MMIO_MEGAPAGE \div PAGE)
          [] OTHER -> leaf = Invalid

---------------------------------------------------------------------------
(* Properties *)

Blocks(e) == {b \in 0..(input.capacity - 1) : b >= e.start_lba
                                               /\ (b - e.start_lba) * BLOCK_SIZE < e.byte_len}
ValidTable(entries) ==
    /\ \A i \in DOMAIN entries :
           LET e == entries[i]
           IN  /\ e.start_lba >= 1 /\ e.byte_len \in 1..config.staging.size
               /\ e.byte_len <= (input.capacity - e.start_lba) * BLOCK_SIZE
    /\ \A i, j \in DOMAIN entries : i # j => Blocks(entries[i]) \cap Blocks(entries[j]) = {}
Encodes(block, entries) == encode(entries) = Ok(block) /\ ValidTable(entries)

Loadable(k) ==
    LET f      == input.files[k]
        mapped == UNION {PagesOf(f.phdrs[i]) : i \in Loads(f)}
                  \cup {va \div PAGE : va \in Range(stack_vas(layout))}
        needed == 1 + Cardinality({vpn1(p * PAGE) : p \in mapped}) + Cardinality(mapped)
        taken  == UNION {Range(procs[j].space.frames) : j \in {n \in DOMAIN procs : procs[n].pid < k}}
    IN  /\ Executable(f, layout.user_base, stack_base(layout))
        /\ \A p \in mapped : vpn1(p * PAGE) \notin MegapageSlots(config)
        /\ needed <= Cardinality(Pool(config) \ taken)

(* Block 0 is accepted exactly when it is the encoding of a table whose    *)
(* entries are non-empty files on the disk, clear of block 0 and of each   *)
(* other, that fit in staging.  An entry becomes a process exactly when    *)
(* its whole file is an executable that can be mapped and the pool has the *)
(* frames, whatever prefix of it was parsed first; and a plan made of it   *)
(* passes the checks a plan's images are held to.                          *)
Verdict ==
    /\ phase \in {"staged", "load", "done"} => Encodes(input.block, table)
    /\ phase = "refused" =>
           ~(/\ input.block.count \in 1..MAX_ENTRIES
             /\ Encodes(input.block, [i \in 1..input.block.count |->
                    [start_lba |-> input.block.slots[i].start_lba,
                     byte_len  |-> input.block.slots[i].byte_len]]))
    /\ \A k \in 1..(index - 1) : (\E n \in DOMAIN procs : procs[n].pid = k) <=> Loadable(k)
    /\ phase = "load" =>
           LET parsed == parse_user_elf32(file, len, image_range(layout))
           IN  image_check(config, layout, file.len, config.staging.base, parsed.ok) = <<>>

(* Whatever else has been loaded since, the page tables of a process map   *)
(* exactly its segments, its stack and the two megapages, with the         *)
(* permissions and the bytes of its file, and zeros where it has none;     *)
(* and a restore rebuilds its tables and regions from the regions alone.   *)
MappedAsFile ==
    \A k \in DOMAIN procs :
        LET p  == procs[k]
            rebuilt == region_image(p.space.regions, layout)
        IN  /\ \A page \in 0..(TOP \div PAGE - 1) :
                   PageMapped(input.files[p.pid], Translate(p.space.root, page), page)
            /\ rebuilt # <<>>
            /\ LET again == build(config, layout, config.staging.base, rebuilt[1], p.space.frames)
               IN  again.tables = p.space.tables /\ again.regions = p.space.regions

(* The kernel never makes an access its configuration does not grant: the  *)
(* checks of the table and of the executable keep the blocks read in       *)
(* staging, when staging is whole blocks, and every copy in staging and in *)
(* the frame pool.  A load writes a frame before any page-table entry      *)
(* points at it, and completes a level-0 table before the root points at   *)
(* it: nothing an entry points at is written by a later access.            *)
SafeLoad ==
    /\ phase # "fault"
    /\ phase = "staged" /\ config.staging.size % BLOCK_SIZE = 0 =>
           contains(config.staging, config.staging.base, blocks(table[index]) * BLOCK_SIZE)
    /\ phase = "load" =>
           \A at \in DOMAIN ptes, s \in step..(steps(space) - 1) :
               LET a == access(space, s)
               IN  ptes[at].kind \in {"pointer", "leaf"} /\ a.kind # "read"
                       => a.addr \div PAGE # ptes[at].ppn

(* load_elf32 accepts a firmware exactly when its segments lie in the RAM  *)
(* at their own addresses and apart from each other, with the entry inside *)
(* one; and the RAM made from its segments accepts them and holds the      *)
(* file's bytes, and zeros elsewhere.                                      *)
Firmware ==
    phase = "new" =>
        \A k \in DOMAIN input.files, base \in RamBases, size \in RamSizes :
            LET f      == input.files[k]
                loaded == load_elf32(f, base, size)
                pages_of_ram == ram_new(size, PAGE, loaded.ok.segments)
            IN  /\ IsOk(loaded) <=>
                       /\ size > 0 /\ base + size <= TOP
                       /\ WellFormed(f)
                       /\ \A i \in Loads(f) : /\ f.phdrs[i].vaddr = f.phdrs[i].paddr
                                              /\ Memory(f.phdrs[i]) \subseteq base..(base + size - 1)
                       /\ \A i, j \in Loads(f) :
                              i # j => Memory(f.phdrs[i]) \cap Memory(f.phdrs[j]) = {}
                       /\ \E i \in Loads(f) : f.entry \in Memory(f.phdrs[i])
                /\ IsOk(loaded) =>
                       /\ pages_of_ram # <<>>
                       /\ \A a \in 0..(size - 1) :
                              ByteAt(pages_of_ram[1], PAGE, a) = ByteOf(f, base + a)

=============================================================================
