--------------------------- MODULE MCSessionSetup ---------------------------
(***************************************************************************)
(* The two things that are checked before a session runs, side by side:    *)
(* its topology (Topology) and the programs it boots (ProgramLoading).     *)
(*                                                                         *)
(* For the boot disks, pages have 16 bytes and tables 4 entries, so an     *)
(* address space is 256 bytes: slot 1 is the MMIO megapage and slot 3 the  *)
(* kernel's.                                                               *)
(***************************************************************************)
EXTENDS ProgramLoading

CONSTANTS Paths, MaxPorts, MaxDomains, MaxComponents, MaxLinks

VARIABLES part, domains, components, links, elaborated

topology == <<domains, components, links, elaborated>>

Config ==
    [ram        |-> WindowAt(192, 320), gate |-> WindowAt(64, 4), frame |-> WindowAt(192, 8),
     staging    |-> WindowAt(216, 24), frame_pool |-> WindowAt(256, 224),
     blk        |-> WindowAt(72, 8), uart_tx |-> WindowAt(80, 1)]
Layout == [user_base |-> 16, stack_top |-> 176, stack_pages |-> 1]

Ph(offset, vaddr, filesz, memsz, flags) ==
    [load |-> TRUE, offset |-> offset, vaddr |-> vaddr, paddr |-> vaddr,
     filesz |-> filesz, memsz |-> memsz, flags |-> flags]

(* A file with its table after the header. *)
File(phdrs, entry, size) ==
    [len |-> size, bad |-> {}, entry |-> entry, phoff |-> EHDR_SIZE, phnum |-> Len(phdrs),
     phentsize |-> PHDR_SIZE, phdrs |-> phdrs]
Small(size) == File(<<Ph(0, 16, 2, 4, {"R", "X"})>>, 16, size)
Large == File(<<Ph(4, 132, 6, 14, {"R", "W"}), Ph(2, 28, 18, 22, {"R", "X"})>>, 28, 20)
Foreign(size) == [Small(size) EXCEPT !.bad = {"magic"}]

(* A disk that holds the files one after the other. *)
Entries(files) ==
    [k \in DOMAIN files |->
        [byte_len  |-> files[k].len,
         start_lba |-> 1 + SumOf([j \in 1..(k - 1) |->
                               (files[j].len + BLOCK_SIZE - 1) \div BLOCK_SIZE])]]
Disk(files) ==
    [config |-> Config, layout |-> Layout, capacity |-> 8, files |-> files,
     block |-> encode(Entries(files)).ok]

(* Headers: each field unsupported, the table anywhere, too long, or       *)
(* outside the file.                                                       *)
Tables == {<<>>, Small(9).phdrs, [i \in 1..4 |-> [Ph(0, 16, 2, 4, {"R"}) EXCEPT !.load = FALSE]]}
Headers ==
    {[Small(9) EXCEPT !.bad = {HeaderFields[k] : k \in fields}] :
        fields \in {{k} : k \in DOMAIN HeaderFields} \cup {{2, 5}}}
    \cup {[Small(size) EXCEPT !.phoff = phoff, !.phentsize = phentsize, !.phdrs = phdrs,
                              !.phnum = Len(phdrs)] :
            size \in {3, 4, 7, 12, 20}, phoff \in {4, 11, 18}, phentsize \in {2, 3},
            phdrs \in Tables}
    \cup {[Small(9) EXCEPT !.phnum = PN_XNUM]}

(* One segment: sizes, places and permissions. *)
Segments ==
    {File(<<Ph(offset, vaddr, filesz, memsz, {"R", "X"})>>, entry, 22) :
        offset \in {0, 4}, vaddr \in {12, 16, 20, 44, 62, 128, 140, 156},
        filesz \in {0, 6, 20}, memsz \in {0, 6, 20}, entry \in {16, 22, 44, 140}}
    \cup {File(<<Ph(4, 20, 6, 14, flags)>>, 20, 10) : flags \in SUBSET {"R", "W", "X"}}
    \cup {File(<<[Ph(4, 20, 6, 14, {"X"}) EXCEPT !.paddr = 32]>>, 20, 10)}

(* Three segments, in every order. *)
Groups ==
    {File(<<Ph(0, v[1], 4, m[1], {"R", "X"}), Ph(4, v[2], 4, m[2], {"R", "W"}),
            Ph(8, v[3], 4, m[3], {"R"})>>, v[1], 12) :
        v \in {<<a, b, c>> : a \in {16, 32}, b, c \in {16, 24, 36, 48, 128}},
        m \in {<<4, 4, 4>>, <<20, 4, 4>>, <<4, 20, 4>>, <<4, 8, 20>>, <<4, 36, 4>>}}

(* Block 0: every word. *)
Places == {<<lba, size>> : lba \in {0, 1, 2, 6}, size \in {0, 8, 9, 24, 25}}
TableDisk(a, b) ==
    [Disk(<<Foreign(a[2]), Foreign(b[2])>>) EXCEPT !.block =
        encode(<<[start_lba |-> a[1], byte_len |-> a[2]],
                 [start_lba |-> b[1], byte_len |-> b[2]]>>).ok]
Blocks0 ==
    LET block == Disk(<<Small(9)>>).block
    IN  {[block EXCEPT !.magic = 0], [block EXCEPT !.version = 2], [block EXCEPT !.reserved = 1],
         [block EXCEPT !.tail = 1], [block EXCEPT !.slots[1].flags = 1],
         [block EXCEPT !.slots[1].reserved = 1], [block EXCEPT !.slots[2].byte_len = 1],
         [block EXCEPT !.slots[2].flags = 1]}
        \cup {[block EXCEPT !.count = n] : n \in {0, 1, 2, 3}}

(* Configurations and layouts. *)
Configs ==
    {[Config EXCEPT !.staging = w] : w \in {WindowAt(220, 16), WindowAt(216, 4), WindowAt(248, 16),
                                            WindowAt(216, 0), WindowAt(192, 24), WindowAt(184, 16)}}
    \cup {[Config EXCEPT !.frame_pool = w] : w \in {WindowAt(240, 208), WindowAt(256, 80),
                                            WindowAt(260, 96), WindowAt(256, 112), WindowAt(400, 128)}}
    \cup {[Config EXCEPT !.frame = WindowAt(194, 8)], [Config EXCEPT !.frame = WindowAt(252, 8)],
          [Config EXCEPT !.blk = WindowAt(72, 4)], [Config EXCEPT !.ram = WindowAt(160, 352)],
          [Config EXCEPT !.ram = WindowAt(128, 384)]}
Layouts == {[user_base |-> base, stack_top |-> top, stack_pages |-> n] :
               base \in {8, 16, 128}, top \in {40, 64, 80, 144, 176, 208}, n \in {0, 1, 2, 5}}

Boots ==
    {Disk(<<f>>) : f \in Headers \cup Segments \cup Groups}
    \cup {Disk(<<f, g>>) : f, g \in {Small(9), Large, Foreign(9)}}
    \cup {TableDisk(a, b) : a, b \in Places}
    \cup {[Disk(<<Small(9)>>) EXCEPT !.block = block] : block \in Blocks0}
    \cup {[Disk(<<Large, Small(9)>>) EXCEPT !.config = c] : c \in Configs}
    \cup {[Disk(<<Large>>) EXCEPT !.layout = l] : l \in Layouts}
    \cup {[Disk(<<Small(9)>>) EXCEPT !.capacity = 0]}

---------------------------------------------------------------------------
(* Topologies of two components. *)

Port(name, role, protocol) == [name |-> name, role |-> role, protocol |-> protocol]
PortLists ==
    {<<Port("a", "Initiator", "mem")>>,
     <<Port("a", "Target", "mem")>>,
     <<Port("a", "Initiator", "mem"), Port("b", "Target", "mem")>>,
     <<Port("a", "Initiator", "mem"), Port("b", "Target", "irq")>>,
     <<Port("a", "Initiator", "mem"), Port("a", "Target", "mem")>>,
     <<Port("a", "Initiator", "mem"), Port("b", "Target", "mem"), Port("c", "Target", "mem")>>}
LinkEnds == {<<0, "a">>, <<0, "b">>, <<1, "a">>, <<1, "b">>, <<2, "a">>}
Links == {[a |-> a, b |-> b, latency |-> <<>>] : a, b \in LinkEnds}
         \cup {[a |-> <<0, "a">>, b |-> <<1, "a">>, latency |-> <<0>>]}

Builder == INSTANCE Topology

(* Beside a topology there is nothing to boot. *)
NoPrograms ==
    /\ input = Disk(<<Small(9)>>) /\ phase = "invalid"
    /\ table = <<>> /\ index = 0 /\ len = 0 /\ space = <<>> /\ step = 0
    /\ procs = <<>> /\ mem = <<>> /\ ptes = <<>>

SetupInit ==
    /\ Builder!Init
    /\ \/ part = "programs" /\ Init
       \/ part = "topology" /\ NoPrograms

SetupNext ==
    \/ part = "programs" /\ Next /\ UNCHANGED <<part, topology>>
    \/ part = "topology" /\ Builder!Next /\ UNCHANGED <<part, vars>>

SetupSpec == SetupInit /\ [][SetupNext]_<<part, vars, topology>>

(* Elaboration accepts exactly the sound wirings (Topology). *)
Wired == Builder!Wired

=============================================================================
