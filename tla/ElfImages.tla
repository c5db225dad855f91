----------------------------- MODULE ElfImages ------------------------------
(***************************************************************************)
(* The ELF loaders (src/elf/src/parse.rs, lib.rs, user.rs): load_elf32     *)
(* places a firmware in RAM, parse_user_elf32 plans the pages of a user    *)
(* executable from a prefix of its file.                                   *)
(*                                                                         *)
(* A file is a record: len, bad (the header fields that hold an            *)
(* unsupported value), entry, phoff, phnum, phentsize, and phdrs, its      *)
(* program headers.  A prefix of it is its length.  Byte i of a file is    *)
(* FileByte(i), which tells offsets apart and is not zero.                 *)
(***************************************************************************)
EXTENDS Checks

CONSTANTS
    EHDR_SIZE,    \* bytes of the ELF header
    PHDR_SIZE,    \* bytes of a program header
    PN_XNUM,      \* the e_phnum that means "elsewhere"
    MAX_PHDRS,    \* most program headers of a user executable
    PAGE,         \* bytes of a page
    TOP           \* one past the last 32-bit address

FileByte(i) == i + 1

---------------------------------------------------------------------------
(* parse.rs *)

(* The header fields in the order they are checked; an error names its     *)
(* field.                                                                  *)
HeaderFields == <<"magic", "class", "data", "ident_version", "type", "machine", "version",
                  "ehsize">>

TableEnd(file) == file.phoff + file.phnum * PHDR_SIZE
MalformedTable(file) ==
    file.phnum = PN_XNUM \/ (file.phnum # 0 /\ file.phentsize # PHDR_SIZE)

(* header, of the first len bytes of the file. *)
header(file, len) ==
    FirstFailure(
        <<<<len < EHDR_SIZE, "MalformedHeader">>>>
        \o [f \in DOMAIN HeaderFields |-> <<HeaderFields[f] \in file.bad, HeaderFields[f]>>]
        \o <<<<MalformedTable(file) \/ TableEnd(file) > len, "MalformedProgramHeaders">>>>)

(* The indices of the PT_LOAD headers that occupy memory. *)
Loads(file) == {i \in 1..file.phnum : file.phdrs[i].load /\ file.phdrs[i].memsz # 0}

End(ph) == ph.vaddr + ph.memsz

(* A mutant: a segment may have more file bytes than memory. *)
SizeChecksRangeOnly(file, ph) ==
    <<<<ph.load /\ ph.offset + ph.filesz > file.len, "FileRangeOutsideFile">>>>

(* The checks on the sizes of a PT_LOAD header, common to both loaders. *)
SizeChecks(file, ph) ==
    <<<<ph.load /\ ph.filesz > ph.memsz, "FileSizeExceedsMemSize">>,
      <<ph.load /\ ph.offset + ph.filesz > file.len, "FileRangeOutsideFile">>>>

---------------------------------------------------------------------------
(* lib.rs *)

(* The memory of segment i: its file bytes, then zeros. *)
SegmentBytes(ph) ==
    [b \in 1..ph.memsz |-> IF b <= ph.filesz THEN FileByte(ph.offset + b - 1) ELSE 0]

Covers(ph, address) == address \in ph.vaddr..(End(ph) - 1)

load_elf32(file, base, size) ==
    LET Checked(ph) ==
            LET placed == ph.load /\ ph.memsz # 0
            IN  FirstFailure(SizeChecks(file, ph) \o
                    <<<<placed /\ ph.vaddr # ph.paddr, "AddressMismatch">>,
                      <<placed /\ End(ph) > TOP, "AddressOverflow">>,
                      <<placed /\ (ph.vaddr < base \/ End(ph) > base + size),
                        "SegmentOutsideRam">>>>)
        sorted == SortedBy(Loads(file), LAMBDA i : file.phdrs[i].vaddr)
        At(k)  == file.phdrs[sorted[k]]
        error  == FirstOf(
            <<FirstFailure(<<<<size = 0 \/ base + size > TOP, "InvalidRamRegion">>>>),
              header(file, file.len)>>)
        body   == FirstOf(
            [i \in 1..file.phnum |-> Checked(file.phdrs[i])]
            \o <<FirstFailure(
                   Neighbours(sorted, LAMBDA i, j :
                       <<file.phdrs[j].vaddr < End(file.phdrs[i]), "OverlappingSegments">>)
                   \o <<<<file.entry % 4 # 0, "MisalignedEntry">>,
                        <<\A i \in Loads(file) : ~Covers(file.phdrs[i], file.entry),
                          "EntryOutsideSegments">>>>)>>)
    IN  IF error # <<>> THEN Err(error[1])
        ELSE IF body # <<>> THEN Err(body[1])
        ELSE Ok([entry    |-> file.entry,
                 segments |-> [k \in DOMAIN sorted |->
                                  [offset |-> At(k).vaddr - base,
                                   bytes  |-> SegmentBytes(At(k))]]])

---------------------------------------------------------------------------
(* user.rs *)

first_page(ph) == ph.vaddr \div PAGE
last_page(ph) == (End(ph) - 1) \div PAGE

(* Checked::pages: for each page the segment touches, the part of the file *)
(* range that lies in it.                                                  *)
pages(ph) ==
    [n \in 1..(last_page(ph) - first_page(ph) + 1) |->
        LET va   == (first_page(ph) + n - 1) * PAGE
            from == Max({ph.vaddr, va})
            to   == Min({ph.vaddr + ph.filesz, va + PAGE})
        IN  [va    |-> va,
             perms |-> ph.flags,
             copy  |-> IF from < to
                       THEN <<[file_offset |-> ph.offset + from - ph.vaddr,
                               page_offset |-> from - va,
                               len         |-> to - from]>>
                       ELSE <<>>]]

PrefixTooShort(needed) == <<"PrefixTooShort", needed>>
OtherError(name) == <<name, 0>>

(* checked_header: as an option, the error of a prefix of len bytes. *)
checked_header(file, len) ==
    LET found == header(file, len)
    IN  CASE len > file.len -> <<OtherError("PrefixLongerThanFile")>>
          [] len <= file.len /\ len < EHDR_SIZE ->
                 IF file.len < EHDR_SIZE THEN <<OtherError("MalformedHeader")>>
                 ELSE <<PrefixTooShort(EHDR_SIZE)>>
          [] len <= file.len /\ len >= EHDR_SIZE /\ found = <<>> ->
                 IF file.phnum > MAX_PHDRS THEN <<OtherError("PhdrCountExceeded")>> ELSE <<>>
          [] len <= file.len /\ len >= EHDR_SIZE /\ found = <<"MalformedProgramHeaders">> ->
                 (CASE MalformedTable(file) -> <<OtherError(found[1])>>
                    [] ~MalformedTable(file) /\ file.phnum > MAX_PHDRS ->
                           <<OtherError("PhdrCountExceeded")>>
                    [] OTHER -> IF TableEnd(file) <= file.len
                                THEN <<PrefixTooShort(TableEnd(file))>>
                                ELSE <<OtherError(found[1])>>)
          [] OTHER -> <<OtherError(found[1])>>

UserChecks(file, range, ph) ==
    LET placed == ph.load /\ ph.memsz # 0
    IN  FirstFailure(SizeChecks(file, ph) \o
            <<<<placed /\ ph.flags = {}, "NoPermission">>,
              <<placed /\ "W" \in ph.flags /\ "R" \notin ph.flags, "WriteWithoutRead">>,
              <<placed /\ (ph.vaddr < range.start \/ End(ph) > range.end),
                "SegmentOutsideUserRange">>>>)

(* A mutant: segments may share a page as long as they do not overlap. *)
PairChecksOverlapOnly(a, b) == <<<<b.vaddr < End(a), "SegmentOverlap">>>>

(* The checks on neighbours in the order of their addresses. *)
PairChecks(a, b) ==
    <<<<b.vaddr < End(a), "SegmentOverlap">>,
      <<first_page(b) <= last_page(a), "SharedPage">>>>

parse_user_elf32(file, len, range) ==
    LET short  == checked_header(file, len)
        sorted == SortedBy(Loads(file), LAMBDA i : file.phdrs[i].vaddr)
        At(k)  == file.phdrs[sorted[k]]
        body   == FirstOf(
            [i \in 1..file.phnum |-> UserChecks(file, range, file.phdrs[i])]
            \o Neighbours(sorted, LAMBDA i, j :
                   FirstFailure(PairChecks(file.phdrs[i], file.phdrs[j])))
            \o <<FirstFailure(
                   <<<<file.entry % 4 # 0, "MisalignedEntry">>,
                     <<\A i \in Loads(file) : ~("X" \in file.phdrs[i].flags
                                                /\ Covers(file.phdrs[i], file.entry)),
                       "EntryNotExecutable">>>>)>>)
    IN  CASE \/ range.start >= range.end
             \/ range.start % PAGE # 0 \/ range.end % PAGE # 0 ->
                 Err(OtherError("InvalidUserRange"))
          [] OTHER ->
                 IF short # <<>> THEN Err(short[1])
                 ELSE IF body # <<>> THEN Err(OtherError(body[1]))
                 ELSE Ok([entry    |-> file.entry,
                          segments |-> [k \in DOMAIN sorted |->
                                           [perms |-> At(k).flags, pages |-> pages(At(k))]]])

=============================================================================
