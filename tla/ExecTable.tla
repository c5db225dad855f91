----------------------------- MODULE ExecTable ------------------------------
(***************************************************************************)
(* The executable table in block 0 of a boot disk                          *)
(* (src/elf/src/exec_table.rs).                                            *)
(*                                                                         *)
(* Block 0 is a record of its words: magic, version, count, reserved,      *)
(* slots (MAX_ENTRIES of them, each with start_lba, byte_len, flags and    *)
(* reserved) and tail, which stands for all the bytes after the slots.     *)
(***************************************************************************)
EXTENDS Checks

CONSTANTS
    BLOCK_SIZE,   \* bytes of a block
    MAX_ENTRIES,  \* most entries of a table
    MAGIC,        \* the magic number
    VERSION       \* the only version

blocks(e) == (e.byte_len + BLOCK_SIZE - 1) \div BLOCK_SIZE
end_lba(e) == e.start_lba + blocks(e)

Overlap(a, b) == a.start_lba < end_lba(b) /\ b.start_lba < end_lba(a)

check_entries(entries, capacity_blocks, staging_size) ==
    LET Checked(e) == FirstFailure(
            <<<<e.start_lba = 0, "LbaZero">>,
              <<e.byte_len = 0, "EmptyFile">>,
              <<e.byte_len > staging_size, "TooLarge">>,
              <<end_lba(e) > capacity_blocks, "OutsideDisk">>>>)
        Shared == \E i, j \in DOMAIN entries : i < j /\ Overlap(entries[i], entries[j])
    IN  FirstOf([i \in DOMAIN entries |-> Checked(entries[i])]
                \o <<FirstFailure(<<<<Shared, "Overlap">>>>)>>)

ZeroSlot == [start_lba |-> 0, byte_len |-> 0, flags |-> 0, reserved |-> 0]

parse_exec_table(block, capacity_blocks, staging_size) ==
    LET used    == 1..block.count
        entries == [i \in used |-> [start_lba |-> block.slots[i].start_lba,
                                    byte_len  |-> block.slots[i].byte_len]]
        layout  == FirstFailure(
            <<<<block.magic # MAGIC, "BadMagic">>,
              <<block.version # VERSION, "BadVersion">>,
              <<block.count \notin 1..MAX_ENTRIES, "BadCount">>,
              <<block.reserved # 0, "NonZeroReserved">>,
              <<\E i \in used \cap (1..MAX_ENTRIES) :
                    block.slots[i].flags # 0 \/ block.slots[i].reserved # 0, "NonZeroReserved">>,
              <<\E i \in (1..MAX_ENTRIES) \ used : block.slots[i] # ZeroSlot,
                "NonZeroUnusedEntry">>,
              <<block.tail # 0, "NonZeroUnusedEntry">>>>)
        error   == IF layout # <<>> THEN layout
                   ELSE check_entries(entries, capacity_blocks, staging_size)
    IN  IF error # <<>> THEN Err(error[1]) ELSE Ok(entries)

encode(entries) ==
    IF Len(entries) \notin 1..MAX_ENTRIES THEN Err("BadCount")
    ELSE Ok([magic |-> MAGIC, version |-> VERSION, count |-> Len(entries), reserved |-> 0,
             slots |-> [i \in 1..MAX_ENTRIES |->
                           IF i \in DOMAIN entries
                           THEN [ZeroSlot EXCEPT !.start_lba = entries[i].start_lba,
                                                 !.byte_len = entries[i].byte_len]
                           ELSE ZeroSlot],
             tail |-> 0])

=============================================================================
