---------------------------- MODULE SparseStore -----------------------------
(***************************************************************************)
(* The storage of the RAM and of the block media: a map from an index to   *)
(* the bytes of a page (src/components/platform/src/ram.rs) or of a block  *)
(* (media.rs), holding no entry that is all zero, so that equal contents   *)
(* have equal maps and equal snapshots whatever history made them.         *)
(***************************************************************************)
EXTENDS SnapshotLists

Zeros(size) == [b \in 0..(size - 1) |-> 0]

AllZero(bytes) == \A b \in DOMAIN bytes : bytes[b] = 0

---------------------------------------------------------------------------
(* The RAM: pages of PAGE bytes. *)

ByteAt(pages, PAGE, at) ==
    IF at \div PAGE \in DOMAIN pages THEN pages[at \div PAGE][at % PAGE] ELSE 0

ram_load(pages, PAGE, offset, len) == [n \in 1..len |-> ByteAt(pages, PAGE, offset + n - 1)]

(* A mutant: a page that becomes zero is kept. *)
store_chunkKeepsZeros(pages, PAGE, i, offset, data) ==
    LET chunk == {b \in 0..(PAGE - 1) : i * PAGE + b - offset + 1 \in DOMAIN data}
        old   == IF i \in DOMAIN pages THEN pages[i] ELSE Zeros(PAGE)
        page  == [b \in 0..(PAGE - 1) |-> IF b \in chunk THEN data[i * PAGE + b - offset + 1]
                                          ELSE old[b]]
    IN  IF i \in DOMAIN pages \/ \E b \in chunk : page[b] # 0 THEN Put(pages, i, page) ELSE pages

(* One turn of store's loop: the chunk of data in page i.  An occupied     *)
(* entry is overwritten, and removed if that leaves it all zero; a vacant  *)
(* one is filled only if the chunk holds something.                        *)
store_chunk(pages, PAGE, i, offset, data) ==
    LET chunk == {b \in 0..(PAGE - 1) : i * PAGE + b - offset + 1 \in DOMAIN data}
        old   == IF i \in DOMAIN pages THEN pages[i] ELSE Zeros(PAGE)
        page  == [b \in 0..(PAGE - 1) |-> IF b \in chunk THEN data[i * PAGE + b - offset + 1]
                                          ELSE old[b]]
    IN  IF i \in DOMAIN pages
        THEN IF AllZero(page) THEN Drop(pages, i) ELSE Put(pages, i, page)
        ELSE IF \E b \in chunk : page[b] # 0 THEN Put(pages, i, page) ELSE pages

(* The pages that data at offset touches, in order. *)
Touched(PAGE, offset, data) ==
    LET indexes == {at \div PAGE : at \in offset..(offset + Len(data) - 1)}
    IN  [n \in 1..Cardinality(indexes) |-> offset \div PAGE + n - 1]

ram_store(pages, PAGE, offset, data) ==
    FoldLeft(LAMBDA stored, i : store_chunk(stored, PAGE, i, offset, data),
             pages, Touched(PAGE, offset, data))

(* Ram::new: the segments in bounds, and no two of them overlapping, which *)
(* is decided on neighbours in the order of their offsets.  <<>> is a      *)
(* refusal.                                                                *)
ram_new(size, PAGE, segments) ==
    LET End(i) == segments[i].offset + Len(segments[i].bytes)
        spans  == {<<segments[i].offset, End(i), i>> :
                      i \in {j \in DOMAIN segments : segments[j].bytes # <<>>}}
        sorted == SetToSortSeq(spans, LAMBDA a, b :
                      \E k \in 1..3 : a[k] < b[k] /\ \A j \in 1..(k - 1) : a[j] = b[j])
        Overlap(n) == sorted[n + 1][1] < sorted[n][2]
    IN  IF \/ size = 0
           \/ \E i \in DOMAIN segments : End(i) > size
           \/ \E n \in 1..(Len(sorted) - 1) : Overlap(n)
        THEN <<>>
        ELSE <<FoldLeft(LAMBDA pages, s : ram_store(pages, PAGE, s.offset, s.bytes),
                        <<>>, segments)>>

(* Ram::restore. *)
ram_restore(size, PAGE, list) ==
    LET Start(n) == list[n][1] * PAGE
    IN  IF \/ ~Ascending(list)
           \/ \E n \in 1..Len(list) :
                 \/ Start(n) >= size
                 \/ DOMAIN list[n][2] # 0..(PAGE - 1)
                 \/ AllZero(list[n][2])
                 \/ \E b \in DOMAIN list[n][2] : Start(n) + b >= size /\ list[n][2][b] # 0
        THEN <<>> ELSE <<MapOf(list)>>

---------------------------------------------------------------------------
(* The media: blocks of BLOCK bytes, always replaced whole. *)

media_load(blocks, BLOCK, lba) == IF lba \in DOMAIN blocks THEN blocks[lba] ELSE Zeros(BLOCK)

media_store(blocks, lba, data) ==
    IF AllZero(data) THEN Drop(blocks, lba) ELSE Put(blocks, lba, data)

(* SimpleBlockMedia::new, of an image of raw bytes. *)
media_new(capacity, BLOCK, bytes) ==
    LET count      == Len(bytes) \div BLOCK
        chunk(lba) == [b \in 0..(BLOCK - 1) |-> bytes[lba * BLOCK + b + 1]]
    IN  IF capacity = 0 \/ Len(bytes) % BLOCK # 0 \/ count > capacity THEN <<>>
        ELSE <<FoldLeft(LAMBDA blocks, n : media_store(blocks, n - 1, chunk(n - 1)),
                        <<>>, [n \in 1..count |-> n])>>

(* SimpleBlockMedia::restore. *)
media_restore(capacity, BLOCK, list) ==
    IF \/ ~Ascending(list)
       \/ \E n \in 1..Len(list) : \/ list[n][1] >= capacity
                                  \/ DOMAIN list[n][2] # 0..(BLOCK - 1)
                                  \/ AllZero(list[n][2])
    THEN <<>> ELSE <<MapOf(list)>>
=============================================================================
