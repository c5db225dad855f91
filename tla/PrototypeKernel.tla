-------------------------- MODULE PrototypeKernel --------------------------
(***************************************************************************)
(* The modeled kernel in prototype mode (os/src/core.rs, with the gate and *)
(* the engine of os/src/kernel.rs).  An ENTER of the trap frame's address  *)
(* runs the script: read the frame, write it back with sepc stepped, write *)
(* one byte to the UART.  Any other value writes a shutdown into the frame.*)
(* Frame and sizes are counted in words: every offset of the code is a     *)
(* multiple of four and the frame is word-aligned.                         *)
(***************************************************************************)
EXTENDS Integers, Sequences, SequencesExt, FiniteSetsExt

CONSTANTS
  TrapFrames,    \* the addresses the frame may be configured at
  FRAME_WORDS,   \* its size ...
  FRAME_SEPC,    \* ... and the offsets of sepc and of action; reason is next
  FRAME_ACTION,
  MAX_ACCESS,    \* words of the largest access
  PAGE,          \* words of a page
  UartTx,        \* the UART's TX register
  WordMod,       \* the number of values of a word
  MaxTxn,        \* the last TxnId
  MaxStrays      \* the messages a peer out of protocol sends

VARIABLES
  config,    \* trap_frame; wild: a peer does not follow the protocol
  strays,    \* the messages it still sends
  engine,    \* State: "Idle", "Issue" or "Wait"
  stage,     \* the operation: "none", "Script" or "Shutdown"
  step,      \* its accesses completed
  data,      \* its working data
  held,      \* an ENTER is held
  txn,       \* the outstanding access's TxnId, while waiting
  next_txn,  \* the next TxnId
  wakes,     \* ISSUE wakes under way
  gate,      \* requests under way to the gate
  link,      \* what is under way on mem: << >>, or a request or response
  fault,     \* a handler failed: the session has stopped
  frame,     \* the trap frame in memory, from its base
  tx,        \* the bytes written to UART TX
  hart,      \* the hart's mode: "running", "blocked", "released" or "halted"
  entry      \* history: the value, the frame and tx of the last ENTER

kernel == <<engine, stage, step, data, held, txn, next_txn>>
memory == <<frame, tx>>
vars == <<config, strays, kernel, wakes, gate, link, fault, memory, hart, entry>>

-----------------------------------------------------------------------------
(* The pure core *)

chunks(base, len) ==
  LET end == base + len
      from[a \in base .. end] ==
        LET next == Min({end, (a \div PAGE + 1) * PAGE, a + MAX_ACCESS})
        IN  IF a = end THEN << >> ELSE <<[addr |-> a, len |-> next - a]>> \o from[next]
  IN  from[base]

frame_chunks == chunks(config.trap_frame, FRAME_WORDS)
shutdown_chunks == chunks(config.trap_frame + FRAME_ACTION, 2)

Steps(op) == IF op = "Script" THEN 2 * Len(frame_chunks) + 1 ELSE Len(shutdown_chunks)

\* The words the first n chunks hold.
Covered(n) == FoldSeq(LAMBDA c, sum : c.len + sum, 0, SubSeq(frame_chunks, 1, n))

data_len(op, s) ==
  LET n == Len(frame_chunks)
  IN  CASE op = "Script" /\ s < n -> Covered(s)
        [] op = "Script" /\ s \in n .. 2 * n - 1 -> FRAME_WORDS
        [] OTHER -> 0

Read(addr, len) == [kind |-> "Read", addr |-> addr, len |-> len]
Write(addr, words) == [kind |-> "Write", addr |-> addr, len |-> Len(words), words |-> words]

\* The part of words, which start at base, that chunk c writes.
WriteChunk(c, base, words) ==
  Write(c.addr, SubSeq(words, c.addr - base + 1, c.addr - base + c.len))

Stepped(words) == [words EXCEPT ![FRAME_SEPC + 1] = (@ + 1) % WordMod]

access(op, s, words) ==
  LET n == Len(frame_chunks)
  IN  CASE op = "Script" /\ s < n -> Read(frame_chunks[s + 1].addr, frame_chunks[s + 1].len)
        [] op = "Script" /\ s \in n .. 2 * n - 1 ->
             WriteChunk(frame_chunks[s - n + 1], config.trap_frame, Stepped(words))
        [] op = "Script" /\ s = 2 * n -> Write(UartTx, <<1>>)
        [] op = "Shutdown" ->
             WriteChunk(shutdown_chunks[s + 1], config.trap_frame + FRAME_ACTION, <<1, 1>>)

Access == access(stage, step, data)

\* The working data once the access is answered with the words got: only the
\* last frame write of a script drops the frame.
DataAfter(got) ==
  IF Len(data \o got) = data_len(stage, step + 1) THEN data \o got ELSE << >>

\* KernelConfig::permits, of the ranges a prototype operation uses.
permits(a) ==
  \/ a.addr >= config.trap_frame /\ a.addr + a.len <= config.trap_frame + FRAME_WORDS
  \/ a.addr = UartTx /\ a.len = 1

-----------------------------------------------------------------------------
(* The component's handlers *)

Fault == fault' = TRUE /\ UNCHANGED <<kernel, wakes>>

WakeNextCycle == engine' = "Issue" /\ wakes' = wakes + 1

\* The gate.  "frame" and "other" are ENTER writes of the frame's address and of
\* another value, "refused" is answered with AccessFault, "malformed" is a
\* zero-length request or a response.
GateMessages == {"frame", "other", "refused", "malformed"}

GateRequest(msg) ==
  /\ ~fault /\ msg \in gate
  /\ gate' = gate \ {msg}
  /\ UNCHANGED <<config, strays, link, memory, hart, entry>>
  /\ \/ msg = "refused" /\ UNCHANGED <<kernel, wakes, fault>>
     \/ (msg = "malformed" \/ (msg # "refused" /\ held)) /\ Fault
     \/ /\ msg \in {"frame", "other"} /\ ~held
        /\ held' = TRUE
        /\ stage' = IF msg = "frame" THEN "Script" ELSE "Shutdown"
        /\ step' = 0 /\ data' = << >>
        /\ WakeNextCycle
        /\ UNCHANGED <<txn, next_txn, fault>>

MaySend == engine = "Issue" /\ step < Steps(stage) /\ permits(Access) /\ next_txn < MaxTxn

Issue ==
  /\ ~fault /\ wakes > 0
  /\ wakes' = wakes - 1
  /\ UNCHANGED <<config, strays, gate, memory, hart, entry>>
  /\ \/ ~MaySend /\ fault' = TRUE /\ UNCHANGED <<kernel, link>>
     \/ /\ MaySend
        /\ link' = Append(link, [to |-> "memory", txn |-> next_txn, access |-> Access])
        /\ engine' = "Wait" /\ txn' = next_txn /\ next_txn' = next_txn + 1
        /\ UNCHANGED <<stage, step, data, held, fault>>

Response(t, kind, words, phase) ==
  [to |-> "kernel", txn |-> t, kind |-> kind, words |-> words, phase |-> phase]

\* What mem_response accepts: the outstanding access's answer, of its kind, in
\* Complete, and with the data a read asked for.
Answers(r) ==
  /\ engine = "Wait" /\ r.txn = txn /\ r.phase = "Complete"
  /\ \/ Access.kind = "Write" /\ r.kind = "Done"
     \/ Access.kind = "Read" /\ r.kind = "Data" /\ Len(r.words) = Access.len

Release ==
  /\ engine' = "Idle" /\ stage' = "none" /\ held' = FALSE
  /\ step' = 0 /\ data' = << >>
  /\ hart' = [mode |-> IF hart.mode = "blocked" THEN "released" ELSE hart.mode]
  /\ UNCHANGED wakes

NextAccess(got) ==
  /\ step' = step + 1 /\ data' = DataAfter(got)
  /\ WakeNextCycle
  /\ UNCHANGED <<stage, held, hart>>

MemResponse ==
  /\ ~fault /\ link # << >> /\ Head(link).to = "kernel"
  /\ link' = Tail(link)
  /\ UNCHANGED <<config, strays, gate, memory, entry>>
  /\ \/ ~Answers(Head(link)) /\ Fault /\ UNCHANGED hart
     \/ /\ Answers(Head(link))
        /\ UNCHANGED <<txn, next_txn, fault>>
        /\ IF step + 1 = Steps(stage) THEN Release ELSE NextAccess(Head(link).words)

-----------------------------------------------------------------------------
(* The environment *)

\* The index in the frame of the word at addr.
At(addr) == addr - config.trap_frame + 1

\* The memory and the UART behind the bus serve the access.
MemServe ==
  /\ ~fault /\ link # << >> /\ Head(link).to = "memory"
  /\ LET a == Head(link).access
         here == At(a.addr) .. At(a.addr) + a.len - 1
         Answer(kind, words) ==
           link' = <<Response(Head(link).txn, kind, words, "Complete")>> \o Tail(link)
     IN  \/ /\ a.kind = "Read" /\ Answer("Data", SubSeq(frame, Min(here), Max(here)))
            /\ UNCHANGED memory
         \/ /\ a.kind = "Write" /\ Answer("Done", << >>)
            /\ tx' = IF a.addr = UartTx THEN tx + 1 ELSE tx
            /\ frame' = [i \in DOMAIN frame |->
                           IF i \in here THEN a.words[i - Min(here) + 1] ELSE frame[i]]
  /\ UNCHANGED <<config, strays, kernel, wakes, gate, fault, hart, entry>>

\* The stub saves a context in the frame, its first word and sepc, and enters.
HartEnter(value, x1, sepc) ==
  /\ ~fault /\ hart.mode = "running"
  /\ frame' = [frame EXCEPT ![1] = x1, ![FRAME_SEPC + 1] = sepc]
  /\ gate' = gate \cup {value}
  /\ hart' = [mode |-> "blocked"]
  /\ entry' = [value |-> value, frame |-> frame', tx |-> tx]
  /\ UNCHANGED <<config, strays, kernel, wakes, link, fault, tx>>

\* Its ENTER is answered: the frame's action is resume (0) or shutdown (1).
HartResume ==
  /\ ~fault /\ hart.mode = "released"
  /\ hart' = [mode |-> IF frame[FRAME_ACTION + 1] = 0 THEN "running" ELSE "halted"]
  /\ UNCHANGED <<config, strays, kernel, wakes, gate, link, fault, memory, entry>>

\* Peers that do not follow the protocol send a gate request, or the response to
\* this or to no access, of any kind, length and phase, at any time.
StrayResponses ==
  {Response(t, "Data", [i \in 1 .. n |-> 0], phase) :
     t \in {txn, next_txn}, n \in 1 .. MAX_ACCESS, phase \in {"Request", "Complete"}}
  \cup {Response(t, kind, << >>, phase) :
          t \in {txn, next_txn}, kind \in {"Done", "Fault"}, phase \in {"Request", "Complete"}}

Stray ==
  /\ ~fault /\ strays > 0
  /\ strays' = strays - 1
  /\ \/ gate' \in {gate \cup {msg} : msg \in GateMessages \ gate} /\ UNCHANGED link
     \/ link' \in {<<r>> \o link : r \in StrayResponses} /\ UNCHANGED gate
  /\ UNCHANGED <<config, kernel, wakes, fault, memory, hart, entry>>

Init ==
  /\ config \in [trap_frame : TrapFrames, wild : BOOLEAN]
  /\ strays = IF config.wild THEN MaxStrays ELSE 0
  /\ engine = "Idle" /\ stage = "none" /\ step = 0 /\ data = << >>
  /\ held = FALSE /\ txn = 0 /\ next_txn = 0
  /\ wakes = 0 /\ gate = {} /\ link = << >> /\ fault = FALSE
  /\ frame = [i \in 1 .. FRAME_WORDS |-> 0] /\ tx = 0
  /\ hart = [mode |-> "running"]
  /\ entry = [value |-> "none", frame |-> frame, tx |-> 0]

Next ==
  \/ \E msg \in GateMessages : GateRequest(msg)
  \/ Issue
  \/ MemResponse
  \/ MemServe
  \/ \E value \in {"frame", "other"}, x1, sepc \in 0 .. WordMod - 1 :
       HartEnter(value, x1, sepc)
  \/ HartResume
  \/ Stray

\* Every event is dispatched, the memory answers and the stub goes on.
Progress ==
  \/ \E msg \in {"frame", "other"} : GateRequest(msg)
  \/ Issue \/ MemResponse \/ MemServe \/ HartResume

Spec == Init /\ [][Next]_vars /\ WF_vars(Progress)

-----------------------------------------------------------------------------
(* Properties *)

\* Whatever arrives and whenever, restore accepts the state: from_parts finds
\* the step and the working data reachable, the pending access is inside the
\* whitelist, and the outstanding TxnId is the latest issued.  The restored state
\* goes on: a wake is under way exactly when one is due.
RestoreAccepts ==
  /\ held <=> engine # "Idle"
  /\ engine # "Idle" => /\ step < Steps(stage) /\ Len(data) = data_len(stage, step)
                        /\ permits(Access)
  /\ engine = "Wait" => txn = next_txn - 1
  /\ ~fault => wakes = IF engine = "Issue" THEN 1 ELSE 0

\* When the ENTER is answered, the script has stepped sepc, written one byte and
\* changed nothing else of the frame, and a shutdown has changed action and
\* reason only.  However the frame lies, no access crosses a page; and between
\* peers that follow the protocol only the last TxnId ends in a fault.
OperationApplied ==
  /\ engine # "Idle" => /\ Access.len \in 1 .. MAX_ACCESS
                        /\ Access.addr \div PAGE = (Access.addr + Access.len - 1) \div PAGE
  /\ ~config.wild =>
       /\ fault => next_txn = MaxTxn
       /\ hart.mode = "released" =>
            IF entry.value = "frame"
            THEN frame = Stepped(entry.frame) /\ tx = entry.tx + 1
            ELSE /\ tx = entry.tx
                 /\ frame = [i \in DOMAIN frame |-> IF i > FRAME_ACTION THEN 1 ELSE entry.frame[i]]

=============================================================================
