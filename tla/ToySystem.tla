----------------------------- MODULE ToySystem ------------------------------
(***************************************************************************)
(* The toy components wired as the M0 reference scenario wires them        *)
(* (src/components/toy/src): a seeded CPU and a burst DMA issue memory     *)
(* traffic over a two-port round-robin bus to one memory.  The CPU keeps a *)
(* shadow of what it has committed and faults the session when a read does *)
(* not match it.                                                           *)
(*                                                                         *)
(* Random draws are free choices, and so are think times, gaps and         *)
(* latencies: a wake or response due in a later tick comes at any time     *)
(* after this tick's own events.  Data is a value per slot and the         *)
(* checksums are left out.                                                 *)
(***************************************************************************)
EXTENDS SnapshotLists

CONSTANTS CpuConfig,   \* ops, max_outstanding, slots
          DmaConfig,   \* ops, max_outstanding, max_burst, slots, base
          MemorySize,  \* in slots: an address is a slot number
          Values       \* what a write may write; memory starts at 0

VARIABLES cpu, dma, bus, memory,
          wakes,       \* the wakes the runtime holds: how many of each token
          msgs,        \* the messages on their way
          session      \* "running" or "faulted"

vars == <<cpu, dma, bus, memory, wakes, msgs, session>>

Tokens     == {"cpu.ISSUE", "cpu.COMMIT", "dma.ISSUE", "bus.ARBITRATE"}
Ports      == {"cpu", "dma"}
CpuSlots   == 0..(CpuConfig.slots - 1)
Addresses  == 0..(MemorySize - 1)

Read(addr)        == [kind |-> "Read", addr |-> addr, data |-> 0]
Write(addr, data) == [kind |-> "Write", addr |-> addr, data |-> data]
Request(to, port, phase, txn, op) ==
    [to |-> to, port |-> port, phase |-> phase, class |-> "request", txn |-> txn, op |-> op]
Response(to, txn, op) ==
    [to |-> to, port |-> to, phase |-> "Complete", class |-> "response", txn |-> txn, op |-> op]

(* ToyCpu::new, ToyDma::new and ToyBus::new, after init has scheduled the  *)
(* first wakes.                                                            *)
CpuValid == CpuConfig.max_outstanding \in 1..(CpuConfig.slots - 1)
DmaValid == DmaConfig.max_outstanding > 0 /\ DmaConfig.slots > 0

CpuNew == [issued |-> 0, committed |-> 0, next_txn |-> 0,
           issue_scheduled |-> CpuConfig.ops > 0, commit_scheduled |-> FALSE,
           outstanding |-> <<>>, arrived |-> <<>>, shadow |-> <<>>]
DmaNew == [issued |-> 0, completed |-> 0, next_txn |-> 0, burst_slot |-> 0, burst_left |-> 0,
           wake_scheduled |-> DmaConfig.ops > 0, outstanding |-> <<>>]
BusNew == [queues |-> [port \in Ports |-> <<>>], priority |-> "cpu",
           arbitration_scheduled |-> FALSE, next_downstream |-> 0, routes |-> <<>>]
MemoryNew == [a \in Addresses |-> 0]

Init ==
    /\ CpuValid /\ DmaValid
    /\ cpu = CpuNew /\ dma = DmaNew /\ bus = BusNew /\ memory = MemoryNew
    /\ wakes = [t \in Tokens |-> IF \/ t = "cpu.ISSUE" /\ CpuNew.issue_scheduled
                                    \/ t = "dma.ISSUE" /\ DmaNew.wake_scheduled
                                 THEN 1 ELSE 0]
    /\ msgs = {}
    /\ session = "running"

Running == session = "running"
Fault   == session' = "faulted" /\ UNCHANGED <<cpu, dma, bus, memory, wakes, msgs>>

(* The phases of a tick, Request, Transfer, Complete, Commit: an event of  *)
(* a phase comes when those sent Now for an earlier phase of the tick have *)
(* been delivered, and none of a later phase shows that the tick has       *)
(* passed it.                                                              *)
To(who)       == {m \in msgs : m.to = who}
Requested     == {m \in To("bus") : m.phase = "Request"}
Completed     == To("cpu") # {} \/ To("dma") # {} \/ wakes["cpu.COMMIT"] > 0
InRequest     == Running /\ To("memory") = {} /\ ~Completed
InTransfer    == Running /\ Requested = {} /\ ~Completed
InComplete    == Running /\ Requested = {} /\ To("memory") = {}
InCommit      == InComplete /\ To("cpu") = {} /\ To("dma") = {}

(* A message is delivered in the phase it was sent for. *)
Due(msg) == \/ msg.phase = "Request" /\ InRequest
            \/ msg.phase = "Transfer" /\ InTransfer
            \/ msg.phase = "Complete" /\ InComplete

(* A handler that took the wake taken and schedules the tokens in new. *)
Wakes(taken, new) ==
    wakes' = [t \in Tokens |-> wakes[t] - (IF t \in taken THEN 1 ELSE 0)
                                        + (IF t \in new THEN 1 ELSE 0)]

---------------------------------------------------------------------------
(* The CPU. *)

can_issue(c) == /\ c.issued < CpuConfig.ops
                /\ Cardinality(DOMAIN c.outstanding) < CpuConfig.max_outstanding

busy(c, addr) == \E t \in DOMAIN c.outstanding : c.outstanding[t].addr = addr

(* The first slot with nothing in flight, probing on from start. *)
Probe(c, start) ==
    LET Slot(i) == (start + i) % CpuConfig.slots
        free    == {i \in 0..(CpuConfig.slots - 1) : ~busy(c, Slot(i))}
    IN  IF free = {} THEN {} ELSE {Slot(CHOOSE i \in free : \A j \in free : i <= j)}

Issued(c, op) == [c EXCEPT !.next_txn = @ + 1, !.issued = @ + 1,
                           !.outstanding = Put(@, c.next_txn, op)]

(* Wake ISSUE: issue while there is room, and come back while there is. *)
CpuIssue ==
    LET woken == [cpu EXCEPT !.issue_scheduled = FALSE]
        Again(c) == /\ cpu' = [c EXCEPT !.issue_scheduled = can_issue(c)]
                    /\ Wakes({"cpu.ISSUE"}, IF can_issue(c) THEN {"cpu.ISSUE"} ELSE {})
    IN  /\ InRequest /\ wakes["cpu.ISSUE"] > 0
        /\ IF ~can_issue(woken) THEN Again(woken) /\ UNCHANGED <<dma, bus, memory, msgs, session>>
           ELSE \E start \in 0..(CpuConfig.slots - 1) :
                  IF Probe(woken, start) = {} THEN Fault
                  ELSE \E addr \in Probe(woken, start) :
                         \E op \in {Read(addr)} \cup {Write(addr, v) : v \in Values} :
                            /\ Again(Issued(woken, op))
                            /\ msgs' = msgs \cup {Request("bus", "cpu", "Request", cpu.next_txn, op)}
                            /\ UNCHANGED <<dma, bus, memory, session>>

(* commit: the arrived responses in order.  <<>> when one of them is for   *)
(* an unknown transaction, of the wrong kind, or not what the shadow says. *)
CommitOne(c, arrival) ==
    LET op       == c.outstanding[arrival.txn]
        expected == IF op.addr \in DOMAIN c.shadow THEN c.shadow[op.addr] ELSE 0
        done     == [c EXCEPT !.outstanding = Drop(@, arrival.txn), !.committed = @ + 1]
    IN  IF \/ arrival.txn \notin DOMAIN c.outstanding
           \/ op.kind # arrival.op.kind
           \/ op.kind = "Read" /\ arrival.op.data # expected
        THEN <<>>
        ELSE <<IF op.kind = "Read" THEN done
               ELSE [done EXCEPT !.shadow = Put(@, op.addr, op.data)]>>

CommitAll(c) == FoldLeft(LAMBDA done, arrival : IF done = <<>> THEN <<>>
                                                ELSE CommitOne(done[1], arrival),
                         <<[c EXCEPT !.arrived = <<>>]>>, c.arrived)

(* Wake COMMIT: everything that arrived in this tick, then room to issue. *)
CpuCommit ==
    LET done   == CommitAll([cpu EXCEPT !.commit_scheduled = FALSE])
        resume == ~done[1].issue_scheduled /\ can_issue(done[1])
    IN  /\ InCommit /\ wakes["cpu.COMMIT"] > 0
        /\ IF done = <<>> THEN Fault
           ELSE /\ cpu' = [done[1] EXCEPT !.issue_scheduled = @ \/ resume]
                /\ Wakes({"cpu.COMMIT"}, IF resume THEN {"cpu.ISSUE"} ELSE {})
                /\ UNCHANGED <<dma, bus, memory, msgs, session>>

(* A response is kept for COMMIT. *)
CpuReceive ==
    \E msg \in To("cpu") :
        /\ Due(msg)
        /\ IF msg.class = "request" THEN Fault
           ELSE /\ cpu' = [cpu EXCEPT !.arrived = Append(@, msg), !.commit_scheduled = TRUE]
                /\ Wakes({}, IF cpu.commit_scheduled THEN {} ELSE {"cpu.COMMIT"})
                /\ msgs' = msgs \ {msg}
                /\ UNCHANGED <<dma, bus, memory, session>>

---------------------------------------------------------------------------
(* The DMA. *)

full(d)  == Cardinality(DOMAIN d.outstanding) >= DmaConfig.max_outstanding
more(d)  == d.issued < DmaConfig.ops
Bursts(d) == IF d.burst_left > 0 THEN {<<d.burst_left, d.burst_slot>>}
             ELSE {<<IF len < DmaConfig.ops - d.issued THEN len ELSE DmaConfig.ops - d.issued, slot>>
                      : len \in 1..DmaConfig.max_burst, slot \in 0..(DmaConfig.slots - 1)}

NextSlot(slot) == (slot + 1) % DmaConfig.slots

(* A mutant: the slot is not put into the DMA's own region. *)
DmaAddrUnbased(slot) == slot

DmaAddr(slot) == DmaConfig.base + slot

(* issue: one write of the burst, or the first of a new one. *)
DmaIssued(d, burst) ==
    [d EXCEPT !.burst_left = burst[1] - 1, !.burst_slot = NextSlot(burst[2]),
              !.issued = @ + 1, !.next_txn = @ + 1,
              !.outstanding = Put(@, d.next_txn, DmaAddr(burst[2]))]

(* Wake ISSUE. *)
DmaIssue ==
    LET woken == [dma EXCEPT !.wake_scheduled = FALSE]
        Again(d) == /\ dma' = [d EXCEPT !.wake_scheduled = more(d) /\ ~full(d)]
                    /\ Wakes({"dma.ISSUE"}, IF more(d) /\ ~full(d) THEN {"dma.ISSUE"} ELSE {})
    IN  /\ InRequest /\ wakes["dma.ISSUE"] > 0
        /\ IF ~more(woken) \/ full(woken) THEN Again(woken) /\ UNCHANGED msgs
           ELSE \E burst \in Bursts(woken), value \in Values :
                  /\ Again(DmaIssued(woken, burst))
                  /\ msgs' = msgs \cup {Request("bus", "dma", "Request", dma.next_txn,
                                                Write(DmaAddr(burst[2]), value))}
        /\ UNCHANGED <<cpu, bus, memory, session>>

(* A mutant: it stays paused. *)
resumesNever(d) == FALSE

(* After a response: a DMA paused on its limit goes on. *)
resumes(d) == ~d.wake_scheduled /\ more(d)

DmaReceive ==
    \E msg \in To("dma") :
        /\ Due(msg)
        /\ IF \/ msg.class # "response" \/ msg.op.kind # "Write"
              \/ msg.txn \notin DOMAIN dma.outstanding
           THEN Fault
           ELSE LET d == [dma EXCEPT !.outstanding = Drop(@, msg.txn), !.completed = @ + 1]
                IN  /\ dma' = [d EXCEPT !.wake_scheduled = @ \/ resumes(d)]
                    /\ Wakes({}, IF resumes(d) THEN {"dma.ISSUE"} ELSE {})
                    /\ msgs' = msgs \ {msg}
                    /\ UNCHANGED <<cpu, bus, memory, session>>

---------------------------------------------------------------------------
(* The bus. *)

Other(port) == IF port = "cpu" THEN "dma" ELSE "cpu"
waiting(b)  == {port \in Ports : b.queues[port] # <<>>}

BusReceive ==
    \E msg \in {m \in To("bus") : m.port \in Ports} :
        /\ Due(msg)
        /\ IF msg.class # "request" \/ msg.phase # "Request" THEN Fault
           ELSE /\ bus' = [bus EXCEPT !.queues[msg.port] = Append(@, msg),
                                      !.arbitration_scheduled = TRUE]
                /\ Wakes({}, IF bus.arbitration_scheduled THEN {} ELSE {"bus.ARBITRATE"})
                /\ msgs' = msgs \ {msg}
                /\ UNCHANGED <<cpu, dma, memory, session>>

(* arbitrate: one grant, and the pointer moves to the other port. *)
arbitrate(b, winner) ==
    LET msg == Head(b.queues[winner])
    IN  [b EXCEPT !.queues[winner] = Tail(@), !.priority = Other(winner),
                  !.next_downstream = @ + 1,
                  !.routes = Put(@, b.next_downstream,
                                 [port |-> winner, txn |-> msg.txn, kind |-> msg.op.kind])]

BusArbitrate ==
    LET winner == IF waiting(bus) = Ports THEN bus.priority
                  ELSE CHOOSE port \in waiting(bus) : TRUE
        granted == IF waiting(bus) = {} THEN bus ELSE arbitrate(bus, winner)
        again   == waiting(granted) # {}
    IN  /\ InTransfer /\ wakes["bus.ARBITRATE"] > 0
        /\ bus' = [granted EXCEPT !.arbitration_scheduled = again]
        /\ Wakes({"bus.ARBITRATE"}, IF again THEN {"bus.ARBITRATE"} ELSE {})
        /\ msgs' = IF waiting(bus) = {} THEN msgs
                   ELSE msgs \cup {Request("memory", "memory", "Transfer", bus.next_downstream,
                                           Head(bus.queues[winner]).op)}
        /\ UNCHANGED <<cpu, dma, memory, session>>

(* route: the response goes back under the initiator's own TxnId. *)
BusRoute ==
    \E msg \in {m \in To("bus") : m.port = "bus"} :
        /\ Due(msg)
        /\ IF \/ msg.class # "response" \/ msg.txn \notin DOMAIN bus.routes
              \/ bus.routes[msg.txn].kind # msg.op.kind
           THEN Fault
           ELSE LET route == bus.routes[msg.txn]
                IN  /\ bus' = [bus EXCEPT !.routes = Drop(@, msg.txn)]
                    /\ msgs' = (msgs \ {msg}) \cup {Response(route.port, route.txn, msg.op)}
                    /\ UNCHANGED <<cpu, dma, memory, wakes, session>>

---------------------------------------------------------------------------
(* The memory applies a request when it arrives, and answers later. *)

MemoryReceive ==
    \E msg \in To("memory") :
        /\ Due(msg)
        /\ IF msg.class # "request" \/ msg.op.addr \notin Addresses THEN Fault
           ELSE LET op == msg.op
                    answer == IF op.kind = "Read" THEN [op EXCEPT !.data = memory[op.addr]] ELSE op
                IN  /\ memory' = IF op.kind = "Write" THEN [memory EXCEPT ![op.addr] = op.data]
                                 ELSE memory
                    /\ msgs' = (msgs \ {msg}) \cup {Response("bus", msg.txn, answer)}
                    /\ UNCHANGED <<cpu, dma, bus, wakes, session>>

---------------------------------------------------------------------------
Next == \/ CpuIssue \/ CpuCommit \/ CpuReceive
        \/ DmaIssue \/ DmaReceive
        \/ BusReceive \/ BusArbitrate \/ BusRoute
        \/ MemoryReceive

(* The run loop dispatches while an event is pending. *)
Spec == Init /\ [][Next]_vars /\ WF_vars(Next)

---------------------------------------------------------------------------
(* Snapshots; <<>> is a refusal. *)

cpu_snapshot == [cpu EXCEPT !.outstanding = Listed(@), !.shadow = Listed(@)]
cpu_restore(s) ==
    IF ~Ascending(s.outstanding) \/ ~Ascending(s.shadow) THEN <<>>
    ELSE <<[s EXCEPT !.outstanding = MapOf(@), !.shadow = MapOf(@)]>>

dma_snapshot == [dma EXCEPT !.outstanding = Listed(@)]
dma_restore(s) ==
    IF \/ s.burst_slot >= DmaConfig.slots \/ ~Ascending(s.outstanding)
       \/ \E i \in 1..Len(s.outstanding) : s.outstanding[i][1] >= s.next_txn
    THEN <<>> ELSE <<[s EXCEPT !.outstanding = MapOf(@)]>>

bus_snapshot == [bus EXCEPT !.routes = Listed(@)]
bus_restore(s) ==
    IF \/ s.priority \notin Ports \/ ~Ascending(s.routes)
       \/ \E port \in Ports : \E i \in 1..Len(s.queues[port]) : s.queues[port][i].class # "request"
       \/ \E i \in 1..Len(s.routes) : \/ s.routes[i][1] >= s.next_downstream
                                      \/ s.routes[i][2].port \notin Ports
    THEN <<>> ELSE <<[s EXCEPT !.routes = MapOf(@)]>>

---------------------------------------------------------------------------
(* Properties. *)

(* Every component restored from a snapshot taken between any two events   *)
(* accepts it and is the component that wrote it; and the restored CPU's   *)
(* shadow is exact: a slot with no write of the CPU between being applied  *)
(* by the memory and being committed holds what the shadow says, zero when *)
(* it was never written, whatever the DMA writes and however the responses *)
(* are ordered (src/components/toy/src/cpu.rs).                            *)
RestoredShadowIsMemory ==
    LET restored == cpu_restore(cpu_snapshot)
        writing  == {restored[1].outstanding[t].addr :
                       t \in {u \in DOMAIN restored[1].outstanding :
                                 restored[1].outstanding[u].kind = "Write"}}
        shadow   == restored[1].shadow
    IN  /\ restored = <<cpu>>
        /\ dma_restore(dma_snapshot) = <<dma>>
        /\ bus_restore(bus_snapshot) = <<bus>>
        /\ \A addr \in CpuSlots \ writing :
               memory[addr] = IF addr \in DOMAIN shadow THEN shadow[addr] ELSE 0

(* The session never faults and never runs dry: every operation of both    *)
(* initiators is issued and answered, although each stops issuing on its   *)
(* outstanding limit and only a response starts it again.                  *)
AllDone == <>(/\ Running /\ msgs = {} /\ \A t \in Tokens : wakes[t] = 0
                /\ cpu.committed = CpuConfig.ops /\ dma.completed = DmaConfig.ops)
=============================================================================
