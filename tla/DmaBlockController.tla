------------------------ MODULE DmaBlockController ------------------------
(***************************************************************************)
(* components/platform/src/dma.rs: the block controller, with the media    *)
(* (media.rs) and the memory (ram.rs, reached through the bus) it moves    *)
(* blocks between, and a driver that writes its registers at any time.     *)
(*                                                                         *)
(* Requests and responses in flight are sets, and a wake is a count, so    *)
(* they may be handled in any order: every timing of bus and media is      *)
(* covered.  A beat's 16 bytes are one datum; an address is in units of    *)
(* which BEAT_SIZE make a beat; reads of registers change nothing and are  *)
(* left out.                                                               *)
(***************************************************************************)
EXTENDS Integers, Sequences, FiniteSets

CONSTANTS
  BEATS_PER_BLOCK, BEAT_SIZE,
  capacity_blocks, dma_base, dma_size,   \* the controller's configuration
  media_capacity, bad_blocks,            \* the media's configuration
  RamBeats,          \* addresses of the beats that some memory answers for
  Data, InitialRam, InitialMedia,
  MaxTxn,            \* u64::MAX: the txn never allocated
  Commands, Lbas, Addrs, Counts,         \* what the driver writes
  MaxCommands,       \* bound: writes to COMMAND
  Conformant,        \* whether memory and media answer each request once
  MaxWire,           \* bound: levels under way when the driver sends another
  None               \* `None`

Block == [1 .. BEATS_PER_BLOCK -> Data]
MediaBlocks == 0 .. media_capacity - 1
BLOCK_BYTES == BEATS_PER_BLOCK * BEAT_SIZE

ASSUME DmaAssumption ==
  /\ BEATS_PER_BLOCK \in Nat \ {0} /\ BEAT_SIZE \in Nat \ {0}
  /\ capacity_blocks \in Nat \ {0}
  /\ dma_base \in Nat /\ dma_size \in Nat \ {0}
  /\ media_capacity \in Nat \ {0}
  /\ RamBeats \subseteq Nat /\ RamBeats # {}
  /\ InitialRam \in [RamBeats -> Data]
  /\ InitialMedia \in [MediaBlocks -> Block]
  /\ MaxTxn \in Nat
  /\ Commands \subseteq Nat /\ Lbas \subseteq Nat
  /\ Addrs \subseteq Nat /\ Counts \subseteq Nat
  /\ None \notin [op : {"read", "write"}, lba : Nat, addr : Nat, count : Nat]
  /\ None \notin Nat
  /\ Conformant \in BOOLEAN

VARIABLES
  lba, mem_addr, block_count, irq_enable,   \* registers
  busy, done, rejected, error,              \* STATUS
  latched,           \* the command being carried out, or None
  engine,            \* Idle, Issue, WaitMedia or WaitBeat
  awaited,           \* the txn WaitMedia or WaitBeat waits for, or None
  block, beat,       \* position of the engine in the command
  buffer,            \* the beats of the block at hand
  dma_txn, blk_txn,  \* the next txns
  irq_level,         \* the last level sent on irq
  faulted,           \* a handler returned ComponentFault
  wakes,             \* ISSUE wakes pending
  dma_link,          \* requests and responses in flight on dma
  blk_link,          \* requests and results in flight on blk
  irq_wire, line,    \* levels in flight on irq; the level last received
  ram, media,
  commands           \* writes to COMMAND so far

registers == <<lba, mem_addr, block_count, irq_enable>>
status == <<busy, done, rejected, error>>
position == <<latched, engine, awaited, block, beat, buffer>>
txns == <<dma_txn, blk_txn>>
irq == <<irq_level, irq_wire>>
links == <<wakes, dma_link, blk_link>>
stores == <<ram, media>>
vars == <<registers, status, position, txns, irq, line, faulted, links, stores,
          commands>>

-----------------------------------------------------------------------------
Init ==
  /\ lba = 0 /\ mem_addr = 0 /\ block_count = 0 /\ irq_enable = FALSE
  /\ busy = FALSE /\ done = FALSE /\ rejected = FALSE /\ error = 0
  /\ latched = None /\ engine = "Idle" /\ awaited = None
  /\ block = 0 /\ beat = 0 /\ buffer = <<>>
  /\ dma_txn = 0 /\ blk_txn = 0
  /\ irq_level = FALSE /\ irq_wire = <<>> /\ line = FALSE
  /\ faulted = FALSE
  /\ wakes = 0 /\ dma_link = {} /\ blk_link = {}
  /\ ram = InitialRam /\ media = InitialMedia
  /\ commands = 0

\* The checks of `validate` that fail, by error code; the first one is reported.
BAD_COMMAND == 1
BAD_COUNT   == 2
LBA_RANGE   == 3
DMA_ALIGN   == 4
DMA_RANGE   == 5
DMA_FAULT   == 6
MEDIA_ERROR == 7

Fails(code, command, l, a, c) ==
  \/ code = BAD_COMMAND /\ command \notin {1, 2}
  \/ code = BAD_COUNT /\ c = 0
  \/ code = LBA_RANGE /\ l + c > capacity_blocks
  \/ code = DMA_ALIGN /\ a % BEAT_SIZE # 0
  \/ code = DMA_RANGE /\ (a < dma_base \/ a + c * BLOCK_BYTES > dma_base + dma_size)

Valid(command, l, a, c) ==
  \A code \in BAD_COMMAND .. DMA_RANGE : ~Fails(code, command, l, a, c)

IsFirstFailure(code, command, l, a, c) ==
  /\ Fails(code, command, l, a, c)
  /\ \A other \in BAD_COMMAND .. code - 1 : ~Fails(other, command, l, a, c)

\* Mutant: the level is compared with the one received, not with the one sent last.
UpdateIrqAgainstLine ==
  LET level == done' /\ irq_enable'
  IN  /\ irq_level' = level
      /\ irq_wire' = IF level = line THEN irq_wire ELSE Append(irq_wire, level)

\* update_irq, after `done` and `irq_enable` changed.
UpdateIrq ==
  LET level == done' /\ irq_enable'
  IN  /\ irq_level' = level
      /\ irq_wire' = IF level = irq_level THEN irq_wire ELSE Append(irq_wire, level)

\* complete: the command, or a failed validation, ends with `code`.
CompleteWith(code) ==
  /\ busy' = FALSE /\ done' = TRUE /\ error' = code
  /\ latched' = None /\ engine' = "Idle" /\ awaited' = None
  /\ block' = 0 /\ beat' = 0 /\ buffer' = <<>>
  /\ UNCHANGED <<registers, rejected>>
  /\ UpdateIrq

\* Mutant: the wake is forgotten.
NoWake == engine' = "Issue" /\ awaited' = None /\ wakes' = wakes

\* The engine's next request is due in the next cycle.
WakeNextCycle == engine' = "Issue" /\ awaited' = None /\ wakes' = wakes + 1

Fault == faulted' = TRUE

-----------------------------------------------------------------------------
\* The driver writes a register.

Running == ~faulted

\* A bound, on the writes that may send a level: the driver does not outrun the line
\* by more than MaxWire of them.
LineFree == Len(irq_wire) < MaxWire

WriteLba(v) ==
  /\ Running
  /\ lba' = v
  /\ UNCHANGED <<mem_addr, block_count, irq_enable, status, position, txns, irq, line,
                 faulted, links, stores, commands>>

WriteMemAddr(v) ==
  /\ Running
  /\ mem_addr' = v
  /\ UNCHANGED <<lba, block_count, irq_enable, status, position, txns, irq, line,
                 faulted, links, stores, commands>>

WriteBlockCount(v) ==
  /\ Running
  /\ block_count' = v
  /\ UNCHANGED <<lba, mem_addr, irq_enable, status, position, txns, irq, line,
                 faulted, links, stores, commands>>

WriteIrqEnable(v) ==
  /\ Running /\ LineFree
  /\ irq_enable' = v
  /\ UNCHANGED <<lba, mem_addr, block_count, status>>
  /\ UpdateIrq
  /\ UNCHANGED <<position, txns, line, faulted, links, stores, commands>>

ClearRejected ==
  /\ Running
  /\ rejected' = FALSE
  /\ UNCHANGED <<registers, busy, done, error, position, txns, irq, line, faulted,
                 links, stores, commands>>

WriteAck ==
  /\ Running /\ LineFree
  /\ done
  /\ done' = FALSE /\ error' = 0
  /\ UNCHANGED <<registers, busy, rejected>>
  /\ UpdateIrq
  /\ UNCHANGED <<position, txns, line, faulted, links, stores, commands>>

\* A COMMAND write is refused while a command runs or waits for its acknowledgement.
Refuses == busy \/ done

WriteCommand(c) ==
  /\ Running
  /\ commands < MaxCommands
  /\ commands' = commands + 1
  /\ UNCHANGED <<txns, line, faulted, dma_link, blk_link, stores>>
  /\ \/ /\ Refuses
        /\ rejected' = TRUE
        /\ UNCHANGED <<registers, busy, done, error, position, irq, wakes>>
     \/ /\ ~Refuses
        /\ Valid(c, lba, mem_addr, block_count)
        /\ busy' = TRUE
        /\ latched' = [op |-> IF c = 1 THEN "read" ELSE "write", lba |-> lba,
                       addr |-> mem_addr, count |-> block_count]
        /\ WakeNextCycle
        /\ UNCHANGED <<registers, done, rejected, error, block, beat, buffer, irq>>
     \/ /\ ~Refuses
        /\ \E code \in BAD_COMMAND .. DMA_RANGE :
             /\ IsFirstFailure(code, c, lba, mem_addr, block_count)
             /\ CompleteWith(code)
        /\ wakes' = wakes

-----------------------------------------------------------------------------
\* Wake(ISSUE): the latched command's next request.

block_lba == latched.lba + block

\* Mutant: every block lands on the first one.
BeatAddrOfFirstBlock == latched.addr + beat * BEAT_SIZE

beat_addr == latched.addr + block * BLOCK_BYTES + beat * BEAT_SIZE

SendBlock(msg) ==
  IF blk_txn = MaxTxn
    THEN Fault /\ UNCHANGED <<position, txns, dma_link, blk_link>>
    ELSE /\ blk_link' = blk_link \cup {msg}
         /\ blk_txn' = blk_txn + 1
         /\ engine' = "WaitMedia" /\ awaited' = blk_txn
         /\ UNCHANGED <<latched, block, beat, dma_txn, dma_link, faulted>>

SendBeat(msg) ==
  IF dma_txn = MaxTxn
    THEN Fault /\ UNCHANGED <<position, txns, dma_link, blk_link>>
    ELSE /\ dma_link' = dma_link \cup {msg}
         /\ dma_txn' = dma_txn + 1
         /\ engine' = "WaitBeat" /\ awaited' = dma_txn
         /\ UNCHANGED <<latched, block, beat, buffer, blk_txn, blk_link, faulted>>

IssueReadBlock ==
  /\ latched.op = "read" /\ buffer = <<>>
  /\ buffer' = buffer
  /\ SendBlock([kind |-> "ReadBlock", txn |-> blk_txn, lba |-> block_lba])

IssueWriteBeat ==
  /\ latched.op = "read" /\ buffer # <<>>
  /\ SendBeat([kind |-> "WriteReq", txn |-> dma_txn, addr |-> beat_addr,
               data |-> buffer[beat + 1]])

IssueWriteBlock ==
  /\ latched.op = "write" /\ beat = BEATS_PER_BLOCK
  /\ buffer' = IF blk_txn = MaxTxn THEN buffer ELSE <<>>
  /\ SendBlock([kind |-> "WriteBlock", txn |-> blk_txn, lba |-> block_lba,
                data |-> buffer])

IssueReadBeat ==
  /\ latched.op = "write" /\ beat < BEATS_PER_BLOCK
  /\ SendBeat([kind |-> "ReadReq", txn |-> dma_txn, addr |-> beat_addr])

Issue ==
  /\ ~faulted
  /\ wakes > 0
  /\ wakes' = wakes - 1
  /\ UNCHANGED <<registers, status, irq, line, stores, commands>>
  /\ \/ /\ engine # "Issue" \/ latched = None
        /\ Fault
        /\ UNCHANGED <<position, txns, dma_link, blk_link>>
     \/ /\ engine = "Issue" /\ latched # None
        /\ IssueReadBlock \/ IssueWriteBeat \/ IssueWriteBlock \/ IssueReadBeat

-----------------------------------------------------------------------------
\* The memory and the media accept a request: a read is sampled and a write
\* applied at once, the answer follows.

RamServes(q) ==
  LET ok == q.addr \in RamBeats
  IN  /\ ~faulted
      /\ q \in dma_link
      /\ \/ /\ q.kind = "WriteReq"
            /\ ram' = IF ok THEN [ram EXCEPT ![q.addr] = q.data] ELSE ram
            /\ dma_link' = (dma_link \ {q}) \cup
                 {[kind |-> "WriteResp", txn |-> q.txn, ok |-> ok]}
         \/ /\ q.kind = "ReadReq"
            /\ ram' = ram
            /\ dma_link' = (dma_link \ {q}) \cup
                 {[kind |-> "ReadResp", txn |-> q.txn, ok |-> ok,
                   data |-> IF ok THEN ram[q.addr] ELSE None]}
      /\ UNCHANGED <<registers, status, position, txns, irq, line, faulted, wakes,
                     blk_link, media, commands>>

\* media.rs: check
Accessible(b) == b < media_capacity /\ b \notin bad_blocks

MediaServes(q) ==
  LET ok == Accessible(q.lba)
  IN  /\ ~faulted
      /\ q \in blk_link
      /\ \/ /\ q.kind = "ReadBlock"
            /\ media' = media
            /\ blk_link' = (blk_link \ {q}) \cup
                 {[kind |-> "ReadResult", txn |-> q.txn, ok |-> ok,
                   data |-> IF ok THEN media[q.lba] ELSE <<>>]}
            /\ faulted' = faulted
         \/ /\ q.kind = "WriteBlock"
            /\ faulted' = (Len(q.data) # BEATS_PER_BLOCK)
            /\ media' = IF ok THEN [media EXCEPT ![q.lba] = q.data] ELSE media
            /\ blk_link' = (blk_link \ {q}) \cup
                 {[kind |-> "WriteResult", txn |-> q.txn, ok |-> ok]}
      /\ UNCHANGED <<registers, status, position, txns, irq, line, wakes, dma_link, ram,
                     commands>>

\* A memory or a media that breaks the protocol answers what it was not asked.
StrayBeat ==
  /\ ~Conformant /\ ~faulted
  /\ Cardinality(dma_link) + Cardinality(blk_link) < 2
  /\ \E t \in {dma_txn - 1, dma_txn} \cap Nat, ok \in BOOLEAN :
       \E m \in {[kind |-> "WriteResp", txn |-> t, ok |-> ok],
                [kind |-> "ReadResp", txn |-> t, ok |-> ok,
                 data |-> IF ok THEN ram[CHOOSE a \in RamBeats : TRUE] ELSE None]} :
         dma_link' = dma_link \cup {m}
  /\ UNCHANGED <<registers, status, position, txns, irq, line, faulted, wakes,
                 blk_link, stores, commands>>

StrayBlock ==
  /\ ~Conformant /\ ~faulted
  /\ Cardinality(dma_link) + Cardinality(blk_link) < 2
  /\ \E t \in {blk_txn - 1, blk_txn} \cap Nat, ok \in BOOLEAN :
       \E m \in {[kind |-> "WriteResult", txn |-> t, ok |-> ok],
                [kind |-> "ReadResult", txn |-> t, ok |-> FALSE, data |-> <<>>],
                [kind |-> "ReadResult", txn |-> t, ok |-> TRUE, data |-> media[0]]} :
         blk_link' = blk_link \cup {m}
  /\ UNCHANGED <<registers, status, position, txns, irq, line, faulted, wakes,
                 dma_link, stores, commands>>

-----------------------------------------------------------------------------
\* Results arriving at the controller, in COMPLETE or, from a peer that breaks the
\* protocol, in another phase.

\* Mutant: the beat index is kept.
NextBlockKeepsBeat ==
  IF block + 1 = latched.count
    THEN CompleteWith(0) /\ wakes' = wakes
    ELSE /\ block' = block + 1 /\ beat' = beat /\ buffer' = <<>>
         /\ WakeNextCycle
         /\ UNCHANGED <<registers, status, latched, irq>>

NextBlock ==
  IF block + 1 = latched.count
    THEN CompleteWith(0) /\ wakes' = wakes
    ELSE /\ block' = block + 1 /\ beat' = 0 /\ buffer' = <<>>
         /\ WakeNextCycle
         /\ UNCHANGED <<registers, status, latched, irq>>

\* A result that is not the one outstanding faults the session.
Unexpected == Fault /\ UNCHANGED <<registers, status, position, irq, wakes>>

MediaResult(m, in_complete) ==
  LET expected == /\ engine = "WaitMedia" /\ m.txn = awaited /\ in_complete
                  /\ m.kind = IF latched.op = "read" THEN "ReadResult" ELSE "WriteResult"
                  /\ m.kind = "ReadResult" /\ m.ok => Len(m.data) = BEATS_PER_BLOCK
  IN  /\ ~faulted
      /\ m \in blk_link /\ m.kind \in {"ReadResult", "WriteResult"}
      /\ Conformant => in_complete
      /\ blk_link' = blk_link \ {m}
      /\ UNCHANGED <<txns, line, dma_link, stores, commands>>
      /\ \/ ~expected /\ Unexpected
         \/ expected /\ ~m.ok /\ CompleteWith(MEDIA_ERROR)
              /\ UNCHANGED <<wakes, faulted>>
         \/ /\ expected /\ m.ok /\ latched.op = "read"
            /\ buffer' = m.data
            /\ WakeNextCycle
            /\ UNCHANGED <<registers, status, latched, block, beat, irq, faulted>>
         \/ expected /\ m.ok /\ latched.op = "write" /\ NextBlock
              /\ faulted' = faulted

BeatResult(m, in_complete) ==
  LET expected == /\ engine = "WaitBeat" /\ m.txn = awaited /\ in_complete
                  /\ m.kind = IF latched.op = "read" THEN "WriteResp" ELSE "ReadResp"
  IN  /\ ~faulted
      /\ m \in dma_link /\ m.kind \in {"WriteResp", "ReadResp"}
      /\ Conformant => in_complete
      /\ dma_link' = dma_link \ {m}
      /\ UNCHANGED <<txns, line, blk_link, stores, commands>>
      /\ \/ ~expected /\ Unexpected
         \/ expected /\ ~m.ok /\ CompleteWith(DMA_FAULT)
              /\ UNCHANGED <<wakes, faulted>>
         \/ expected /\ m.ok /\ latched.op = "read" /\ beat + 1 = BEATS_PER_BLOCK
              /\ NextBlock /\ faulted' = faulted
         \/ /\ expected /\ m.ok
            /\ latched.op = "read" => beat + 1 < BEATS_PER_BLOCK
            /\ beat' = beat + 1
            /\ buffer' = IF latched.op = "read" THEN buffer ELSE Append(buffer, m.data)
            /\ WakeNextCycle
            /\ UNCHANGED <<registers, status, latched, block, irq, faulted>>

\* The interrupt controller takes the next level.
IrqDelivered ==
  /\ ~faulted
  /\ irq_wire # <<>>
  /\ line' = Head(irq_wire)
  /\ irq_wire' = Tail(irq_wire)
  /\ UNCHANGED <<registers, status, position, txns, irq_level, faulted, links, stores,
                 commands>>

-----------------------------------------------------------------------------
Driver ==
  \/ \E v \in Lbas : WriteLba(v)
  \/ \E v \in Addrs : WriteMemAddr(v)
  \/ \E v \in Counts : WriteBlockCount(v)
  \/ \E v \in BOOLEAN : WriteIrqEnable(v)
  \/ ClearRejected
  \/ WriteAck
  \/ \E c \in Commands : WriteCommand(c)

Engine ==
  \/ Issue
  \/ \E q \in dma_link : RamServes(q) \/ \E in_complete \in BOOLEAN : BeatResult(q, in_complete)
  \/ \E q \in blk_link :
       MediaServes(q) \/ \E in_complete \in BOOLEAN : MediaResult(q, in_complete)

Next == Driver \/ Engine \/ IrqDelivered \/ StrayBeat \/ StrayBlock

\* Pending events are dispatched: wakes, requests, results and levels.
Spec == Init /\ [][Next]_vars /\ WF_vars(Engine) /\ WF_vars(IrqDelivered)

-----------------------------------------------------------------------------
(* Properties *)

Job == [op : {"read", "write"}, lba : Nat, addr : Nat, count : Nat]

MediaMessage ==
  [kind : {"ReadBlock"}, txn : Nat, lba : Nat]
    \cup [kind : {"WriteBlock"}, txn : Nat, lba : Nat, data : Block]
    \cup [kind : {"ReadResult"}, txn : Nat, ok : {TRUE}, data : Block]
    \cup [kind : {"ReadResult"}, txn : Nat, ok : {FALSE}, data : {<<>>}]
    \cup [kind : {"WriteResult"}, txn : Nat, ok : BOOLEAN]

BeatMessage ==
  [kind : {"WriteReq"}, txn : Nat, addr : Nat, data : Data]
    \cup [kind : {"ReadReq"}, txn : Nat, addr : Nat]
    \cup [kind : {"WriteResp"}, txn : Nat, ok : BOOLEAN]
    \cup [kind : {"ReadResp"}, txn : Nat, ok : {TRUE}, data : Data]
    \cup [kind : {"ReadResp"}, txn : Nat, ok : {FALSE}, data : {None}]

RegisterTypes ==
  /\ lba \in Nat /\ mem_addr \in Nat /\ block_count \in Nat /\ irq_enable \in BOOLEAN
  /\ busy \in BOOLEAN /\ done \in BOOLEAN /\ rejected \in BOOLEAN
  /\ error \in 0 .. MEDIA_ERROR

EngineTypes ==
  /\ latched \in Job \cup {None}
  /\ engine \in {"Idle", "Issue", "WaitMedia", "WaitBeat"}
  /\ awaited \in Nat \cup {None}
  /\ block \in Nat /\ beat \in 0 .. BEATS_PER_BLOCK /\ buffer \in Seq(Data)

CounterTypes ==
  /\ dma_txn \in 0 .. MaxTxn /\ blk_txn \in 0 .. MaxTxn
  /\ faulted \in BOOLEAN /\ wakes \in Nat /\ commands \in Nat

LineTypes == irq_level \in BOOLEAN /\ irq_wire \in Seq(BOOLEAN) /\ line \in BOOLEAN

LinkTypes == dma_link \subseteq BeatMessage /\ blk_link \subseteq MediaMessage

StoreTypes == ram \in [RamBeats -> Data] /\ media \in [MediaBlocks -> Block]

\* The type invariant: registers, engine, messages in flight, and that memory
\* and media only ever hold whole beats and whole blocks.
TypeOK ==
  RegisterTypes /\ EngineTypes /\ CounterTypes /\ LineTypes /\ LinkTypes /\ StoreTypes

\* The engine and what is in flight agree: an idle engine has nothing pending, one
\* that is to issue has exactly its wake, one that waits has exactly its request or
\* that request's answer, under the txn it waits for.
OnePending ==
  /\ wakes = IF engine = "Issue" THEN 1 ELSE 0
  /\ engine # "WaitMedia" => blk_link = {}
  /\ engine # "WaitBeat" => dma_link = {}
  /\ engine = "WaitMedia" => \E m \in blk_link :
       /\ blk_link = {m} /\ m.txn = awaited
       /\ m.kind \in IF latched.op = "read" THEN {"ReadBlock", "ReadResult"}
                                          ELSE {"WriteBlock", "WriteResult"}
  /\ engine = "WaitBeat" => \E m \in dma_link :
       /\ dma_link = {m} /\ m.txn = awaited
       /\ m.kind \in IF latched.op = "read" THEN {"WriteReq", "WriteResp"}
                                          ELSE {"ReadReq", "ReadResp"}

\* Peers that answer each request once never fault the session, whatever the driver
\* does: only an exhausted txn counter ends it.
Undisturbed == IF faulted THEN MaxTxn \in {dma_txn, blk_txn} ELSE OnePending

\* engine_ok of `restore`, for each operation.
WritePositionOk ==
  /\ beat <= BEATS_PER_BLOCK
  /\ \/ engine = "Issue" /\ Len(buffer) = beat
     \/ engine = "WaitBeat" /\ beat < BEATS_PER_BLOCK /\ Len(buffer) = beat
          /\ awaited = dma_txn - 1
     \/ engine = "WaitMedia" /\ beat = BEATS_PER_BLOCK /\ buffer = <<>>
          /\ awaited = blk_txn - 1

ReadPositionOk ==
  LET full == Len(buffer) = BEATS_PER_BLOCK
      start == buffer = <<>> /\ beat = 0
  IN  /\ beat < BEATS_PER_BLOCK
      /\ \/ engine = "Issue" /\ (full \/ start)
         \/ engine = "WaitMedia" /\ start /\ awaited = blk_txn - 1
         \/ engine = "WaitBeat" /\ full /\ awaited = dma_txn - 1

RestoreOk ==
  /\ ~(busy /\ done)
  /\ ~done => error = 0
  /\ busy <=> latched # None
  /\ latched = None => engine = "Idle" /\ block = 0 /\ beat = 0 /\ buffer = <<>>
  /\ latched # None =>
       /\ Valid(IF latched.op = "read" THEN 1 ELSE 2,
                latched.lba, latched.addr, latched.count)
       /\ block < latched.count
       /\ IF latched.op = "read" THEN ReadPositionOk ELSE WritePositionOk
  /\ irq_level = (done /\ irq_enable)

\* Every state of a session can be saved and restored: what `restore` demands of a
\* snapshot, and the types of its fields, hold in every reachable state.
RestoreAccepts == TypeOK /\ (~faulted => RestoreOk)

\* The levels under way on irq end in DONE && IRQ_ENABLE, and once they are delivered
\* that is the line the interrupt controller sees.
LineFollows ==
  (done /\ irq_enable) = IF irq_wire = <<>> THEN line ELSE irq_wire[Len(irq_wire)]

\* A write that memory or media has carried out and the engine has not yet counted.
Applied(link, kind) == \E m \in link : m.kind = kind /\ m.ok

Moved ==
  IF latched = None THEN 0
  ELSE IF latched.op = "read"
    THEN block * BEATS_PER_BLOCK + beat + (IF Applied(dma_link, "WriteResp") THEN 1 ELSE 0)
    ELSE block + (IF Applied(blk_link, "WriteResult") THEN 1 ELSE 0)

ValidJobs ==
  {j \in [op : {"read", "write"}, lba : Lbas \cup {0}, addr : Addrs \cup {0},
          count : Counts \cup {0}] :
     Valid(1, j.lba, j.addr, j.count)}

Transfer == INSTANCE BlockTransfer WITH
  Beats <- BEATS_PER_BLOCK, BeatSize <- BEAT_SIZE, NoJob <- None, Jobs <- ValidJobs,
  job <- latched, moved <- Moved,
  result <- IF ~done THEN "none" ELSE IF error = 0 THEN "ok" ELSE "error"

=============================================================================
