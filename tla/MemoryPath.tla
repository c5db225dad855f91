----------------------------- MODULE MemoryPath -----------------------------
(***************************************************************************)
(* The single-initiator memory path of the platform: the address bus       *)
(* (src/components/platform/src/bus.rs) in front of a RAM (ram.rs) and a   *)
(* UART (uart.rs), and the block media (media.rs) beside them, each        *)
(* accepting one request per event and answering after its latency.        *)
(*                                                                         *)
(* A response on its way holds the data sampled when the request was       *)
(* accepted; responses come in any order, which covers every latency.      *)
(* The variables asked, flat, sent, disk and want are history: what was    *)
(* requested, and what a memory map of single bytes makes of it.           *)
(***************************************************************************)
EXTENDS SparseStore

CONSTANTS
  Maps,        \* the memory maps offered to AddressBus::new: <<[name, base, size], ...>>
  RamSize, PAGE, Images,
  Capacity, BLOCK, BadBlocks, DiskImages,
  Txns,        \* the transaction numbers an initiator uses
  MemRequests, DiskRequests,   \* what the initiators ask
  MaxRequests, \* bound on requests
  AddrMax      \* the last address, u64::MAX in the code

VARIABLES
  regions, outstanding,   \* the bus
  pages, output, blocks,  \* the RAM, the UART and the media
  msgs, session, requests,
  asked, flat, sent, disk, want

bus_vars == <<regions, outstanding>>
history  == <<asked, flat, sent, disk, want>>
vars     == <<bus_vars, pages, output, blocks, msgs, session, requests, history>>

Fault       == [kind |-> "Fault", data |-> <<>>]
Done        == [kind |-> "Done", data |-> <<>>]
Data(bytes) == [kind |-> "Data", data |-> bytes]

(* A request: op, addr and len, data of a write, and the phase it is sent  *)
(* for.  access() of it, as <<first, last>>.                               *)
Empty(req)      == req.len = 0
OutOfRange(req) == req.addr + req.len - 1 > AddrMax
last(req)       == req.addr + req.len - 1

Message(to, port, txn, req) == [to |-> to, port |-> port, txn |-> txn, req |-> req]
Answer(to, port, txn, op, result) ==
    [to |-> to, port |-> port, txn |-> txn, op |-> op, result |-> result]
To(who) == {m \in msgs : m.to = who}

---------------------------------------------------------------------------
(* AddressBus::new. *)

region_last(region) == region.base + region.size - 1
Shared(r, s) == r.base <= region_last(s) /\ s.base <= region_last(r)

accepted(map) ==
    \A i \in DOMAIN map :
        /\ map[i].size > 0 /\ region_last(map[i]) <= AddrMax /\ map[i].name # "cpu"
        /\ \A j \in 1..(i - 1) : map[j].name # map[i].name /\ ~Shared(map[j], map[i])

(* A mutant: only the first byte is looked up. *)
routeByFirst(first, end) ==
    {i \in DOMAIN regions : regions[i].base <= first /\ first <= region_last(regions[i])}

(* The one region that holds every byte of the access, or none. *)
route(first, end) ==
    {i \in DOMAIN regions : /\ regions[i].base <= first /\ first <= region_last(regions[i])
                            /\ end <= region_last(regions[i])}

---------------------------------------------------------------------------
(* The reference: single bytes at their own addresses. *)

Window(name) == UNION {regions[i].base..region_last(regions[i]) : i \in {j \in DOMAIN regions :
                                                                    regions[j].name = name}}
Bytes(req)   == req.addr..last(req)
Base(name)   == (CHOOSE r \in Range(regions) : r.name = name).base
Within(req, name) == ~OutOfRange(req) /\ Bytes(req) \subseteq Window(name)
Status(req)  == req.addr = Base("uart") + 4 /\ req.len \in {1, 2, 4}

RamBytes    == Window("ram") \cap (Base("ram")..(Base("ram") + RamSize - 1))
Expected(req) ==
    IF Within(req, "ram") /\ Bytes(req) \subseteq RamBytes THEN
       IF req.op = "read" THEN Data([n \in 1..req.len |-> flat[req.addr + n - 1]]) ELSE Done
    ELSE IF Within(req, "uart") /\ req.op = "read" /\ Status(req) THEN
       Data([n \in 1..req.len |-> IF n = 1 THEN 1 ELSE 0])
    ELSE IF Within(req, "uart") /\ req.op = "write" /\ req.addr = Base("uart") /\ req.len = 1 THEN
       Done
    ELSE Fault

ExpectedDisk(req) ==
    IF req.lba >= Capacity THEN [kind |-> "OutOfRange", data |-> <<>>]
    ELSE IF req.lba \in BadBlocks THEN [kind |-> "BadBlock", data |-> <<>>]
    ELSE IF req.op = "read" THEN Data(disk[req.lba]) ELSE Done

Asked(who, txn, req, expected) ==
    /\ asked' = Put(asked, <<who, txn>>, req) /\ want' = Put(want, <<who, txn>>, expected)

(* The flat memory, the transmitted bytes and the disk after req is served.*)
Applied(req) ==
    LET done == req.op = "write" /\ Expected(req) = Done
    IN  /\ flat' = IF done /\ Within(req, "ram")
                   THEN [a \in DOMAIN flat |-> IF a \in Bytes(req) THEN req.data[a - req.addr + 1]
                                               ELSE flat[a]]
                   ELSE flat
        /\ sent' = IF done /\ Within(req, "uart") THEN Append(sent, req.data[1]) ELSE sent
        /\ UNCHANGED disk

---------------------------------------------------------------------------
Init ==
    \E map \in Maps, image \in Images, raw \in DiskImages :
        LET ram   == ram_new(RamSize, PAGE, image)
            media == media_new(Capacity, BLOCK, raw)
        IN  /\ accepted(map) /\ ram # <<>> /\ media # <<>>
            /\ regions = map /\ outstanding = <<>>
            /\ pages = ram[1] /\ output = <<>> /\ blocks = media[1]
            /\ msgs = {} /\ session = "running" /\ requests = 0
            /\ asked = <<>> /\ want = <<>> /\ sent = <<>>
            /\ flat = [a \in RamBytes |->
                         LET At(seg) == a - Base("ram") - seg.offset + 1
                             over    == {seg \in Range(image) : At(seg) \in DOMAIN seg.bytes}
                         IN  IF over = {} THEN 0
                             ELSE LET seg == CHOOSE seg \in over : TRUE IN seg.bytes[At(seg)]]
            /\ disk = [lba \in 0..(Capacity - 1) |->
                         [b \in 0..(BLOCK - 1) |-> IF lba * BLOCK + b + 1 \in DOMAIN raw
                                                   THEN raw[lba * BLOCK + b + 1] ELSE 0]]

Running      == session = "running"
SessionFault == session' = "faulted" /\ UNCHANGED <<bus_vars, pages, output, blocks, msgs, history>>
(* An initiator uses a transaction number again once it has the answer. *)
Unanswered(who, txn) == \E m \in To(who) : m.txn = txn
Counted == requests < MaxRequests /\ requests' = requests + 1

---------------------------------------------------------------------------
(* The bus: request, and fault when no region takes it. *)

at_offset(req, i) == [req EXCEPT !.addr = @ - regions[i].base]

(* A mutant: nobody is told. *)
bus_faultSilent(txn, req) == {}

bus_fault(txn, req) == {Answer("cpu", 0, txn, req.op, Fault)}

BusRequest ==
    \E txn \in Txns, req \in MemRequests :
        LET routed == IF OutOfRange(req) THEN {} ELSE route(req.addr, last(req))
            held   == \E i \in DOMAIN regions : Within(req, regions[i].name)
        IN  /\ Running /\ Counted /\ ~Unanswered("cpu", txn)
            /\ IF req.phase # "Request" \/ txn \in DOMAIN outstanding \/ Empty(req)
               THEN SessionFault
               ELSE /\ Asked("cpu", txn, req, IF held THEN Done ELSE Fault)
                    /\ \/ \E i \in routed :
                            /\ outstanding' = Put(outstanding, txn, [region |-> i, op |-> req.op])
                            /\ msgs' = msgs \cup {Message(regions[i].name, i, txn, at_offset(req, i))}
                       \/ /\ routed = {}
                          /\ msgs' = msgs \cup bus_fault(txn, req)
                          /\ UNCHANGED outstanding
                    /\ UNCHANGED <<regions, pages, output, blocks, session, flat, sent, disk>>

(* response: relayed when it is the one the bus waits for. *)
BusResponse ==
    \E msg \in To("bus") :
        /\ Running
        /\ IF \/ msg.txn \notin DOMAIN outstanding
              \/ outstanding[msg.txn] # [region |-> msg.port, op |-> msg.op]
           THEN SessionFault
           ELSE /\ outstanding' = Drop(outstanding, msg.txn)
                /\ msgs' = (msgs \ {msg}) \cup {[msg EXCEPT !.to = "cpu"]}
                /\ UNCHANGED <<regions, pages, output, blocks, session, history>>
        /\ UNCHANGED requests

---------------------------------------------------------------------------
(* The RAM and the UART. *)

(* What is common to both: the answer is sent, the history goes on. *)
Serve(msg, result) ==
    /\ msgs' = (msgs \ {msg}) \cup {Answer("bus", msg.port, msg.txn, msg.req.op, result)}
    /\ want' = [want EXCEPT ![<<"cpu", msg.txn>>] = Expected(asked[<<"cpu", msg.txn>>])]
    /\ Applied(asked[<<"cpu", msg.txn>>])
    /\ UNCHANGED <<bus_vars, blocks, session, asked>>

ram_in_range(req) == ~OutOfRange(req) /\ last(req) < RamSize

RamAccept ==
    \E msg \in To("ram") :
        LET req == msg.req
        IN  /\ Running
            /\ IF Empty(req) THEN SessionFault
               ELSE /\ pages' = IF req.op = "write" /\ ram_in_range(req)
                                THEN ram_store(pages, PAGE, req.addr, req.data) ELSE pages
                    /\ Serve(msg, IF ~ram_in_range(req) THEN Fault
                                  ELSE IF req.op = "write" THEN Done
                                  ELSE Data(ram_load(pages, PAGE, req.addr, req.len)))
                    /\ UNCHANGED output
            /\ UNCHANGED requests

TX == 0
STATUS == 4
status_read(req) == req.op = "read" /\ req.addr = STATUS /\ req.len \in {1, 2, 4}
tx_write(req)    == req.op = "write" /\ req.addr = TX /\ req.len = 1

UartAccept ==
    \E msg \in To("uart") :
        LET req == msg.req
            ok  == ~OutOfRange(req)
        IN  /\ Running
            /\ IF Empty(req) THEN SessionFault
               ELSE /\ output' = IF ok /\ tx_write(req) THEN output \o req.data ELSE output
                    /\ Serve(msg, IF ok /\ tx_write(req) THEN Done
                                  ELSE IF ok /\ status_read(req) THEN
                                       Data(SubSeq(<<1, 0, 0, 0>>, 1, req.len))
                                  ELSE Fault)
                    /\ UNCHANGED pages
            /\ UNCHANGED requests

---------------------------------------------------------------------------
(* The media. *)

check(lba) == IF lba >= Capacity THEN "OutOfRange"
              ELSE IF lba \in BadBlocks THEN "BadBlock" ELSE "ok"

MediaAccept ==
    \E txn \in Txns, req \in DiskRequests :
        LET error == check(req.lba)
        IN  /\ Running /\ Counted /\ ~Unanswered("host", txn)
            /\ IF \/ req.phase # "Request"
                  \/ req.op = "write" /\ DOMAIN req.data # 0..(BLOCK - 1)
               THEN SessionFault
               ELSE /\ blocks' = IF req.op = "write" /\ error = "ok"
                                 THEN media_store(blocks, req.lba, req.data) ELSE blocks
                    /\ msgs' = msgs \cup {Answer("host", 0, txn, req.op,
                                   IF error # "ok" THEN [kind |-> error, data |-> <<>>]
                                   ELSE IF req.op = "write" THEN Done
                                   ELSE Data(media_load(blocks, BLOCK, req.lba)))}
                    /\ Asked("host", txn, req, ExpectedDisk(req))
                    /\ disk' = IF req.op = "write" /\ ExpectedDisk(req) = Done
                               THEN [disk EXCEPT ![req.lba] = req.data] ELSE disk
                    /\ UNCHANGED <<bus_vars, pages, output, session, flat, sent>>

(* An initiator has its answer. *)
Receive ==
    \E msg \in To("cpu") \cup To("host") :
        /\ Running
        /\ msgs' = msgs \ {msg}
        /\ asked' = Drop(asked, <<msg.to, msg.txn>>) /\ want' = Drop(want, <<msg.to, msg.txn>>)
        /\ UNCHANGED <<bus_vars, pages, output, blocks, session, requests, flat, sent, disk>>

Deliver == RamAccept \/ UartAccept \/ BusResponse \/ Receive
Next    == BusRequest \/ MediaAccept \/ Deliver

(* The run loop delivers what is on its way. *)
Spec == Init /\ [][Next]_vars /\ WF_vars(Deliver)

---------------------------------------------------------------------------
(* Properties. *)

(* End to end: every answer on its way to an initiator is what the flat    *)
(* memory map gives, byte by byte: an access fault when no one region      *)
(* holds every byte or the device refuses, and otherwise the bytes as they *)
(* were when the device accepted the request; and the UART has sent the    *)
(* bytes written to TX, in order.                                          *)
Served == /\ \A msg \in To("cpu") \cup To("host") : msg.result = want[<<msg.to, msg.txn>>]
          /\ output = sent

bus_restore(list) ==
    IF ~Ascending(list) \/ \E n \in 1..Len(list) : list[n][2].region \notin DOMAIN regions
    THEN <<>> ELSE <<MapOf(list)>>

(* Every snapshot is accepted and gives the component back.  For the RAM   *)
(* and the media that means no history leaves an all-zero page or block in *)
(* the map, or a byte past the end.                                        *)
RestoreAccepts == /\ bus_restore(Listed(outstanding)) = <<outstanding>>
                  /\ ram_restore(RamSize, PAGE, Listed(pages)) = <<pages>>
                  /\ media_restore(Capacity, BLOCK, Listed(blocks)) = <<blocks>>

(* Whatever the bounded initiators ask, in the end nothing is unanswered,  *)
(* unless the session faults.                                              *)
Answered == []<>(asked = <<>> \/ ~Running)
=============================================================================
