--------------------------- MODULE IrqController ---------------------------
(***************************************************************************)
(* components/platform/src/irqc.rs: the interrupt controller between the   *)
(* devices' level lines and the hart's external interrupt input.  Every    *)
(* line is a FIFO of levels sent and not yet delivered; the driver writes  *)
(* ENABLE at any time.  A register is the set of its bits.                 *)
(***************************************************************************)
EXTENDS Naturals, Sequences

CONSTANTS
  Sources,    \* valid_mask: the bits of the configured sources
  OtherBits,  \* bits of ENABLE that have no source
  MaxWire     \* bound: levels under way on one line

ASSUME IrqAssumption == Sources \cap OtherBits = {} /\ MaxWire \in Nat

\* irq.v0's Level { asserted }.
Levels == {"high", "low"}
Asserted(b) == IF b THEN "high" ELSE "low"

VARIABLES
  level,      \* level[s]: the level device s last sent
  src_wire,   \* src_wire[s]: levels under way from device s
  pending, enable, out,
  cpu_wire,   \* levels under way to the hart
  irq_level   \* the level the hart last received

vars == <<level, src_wire, pending, enable, out, cpu_wire, irq_level>>

Init ==
  /\ level = [s \in Sources |-> "low"]
  /\ src_wire = [s \in Sources |-> <<>>]
  /\ pending = {} /\ enable = {} /\ out = "low"
  /\ cpu_wire = <<>>
  /\ irq_level = "low"

\* A device sends its level; nothing forbids sending the same one again.
Send(s, v) ==
  /\ Len(src_wire[s]) < MaxWire
  /\ level' = [level EXCEPT ![s] = v]
  /\ src_wire' = [src_wire EXCEPT ![s] = Append(@, v)]
  /\ UNCHANGED <<pending, enable, out, cpu_wire, irq_level>>

\* Mutant: the last level sent is not remembered.
UpdateOutputForgets ==
  LET meip == Asserted(pending' \cap enable' # {})
  IN  /\ out' = out
      /\ cpu_wire' = IF meip = out THEN cpu_wire ELSE Append(cpu_wire, meip)

\* update_output, after `pending` or `enable` changed.
UpdateOutput ==
  LET meip == Asserted(pending' \cap enable' # {})
  IN  /\ out' = meip
      /\ cpu_wire' = IF meip = out THEN cpu_wire ELSE Append(cpu_wire, meip)

\* The next level of source s arrives.
Level(s) ==
  /\ Len(cpu_wire) < MaxWire
  /\ src_wire[s] # <<>>
  /\ src_wire' = [src_wire EXCEPT ![s] = Tail(@)]
  /\ pending' = IF Head(src_wire[s]) = "high" THEN pending \cup {s} ELSE pending \ {s}
  /\ enable' = enable
  /\ IF pending' = pending THEN UNCHANGED <<out, cpu_wire>> ELSE UpdateOutput
  /\ UNCHANGED <<level, irq_level>>

\* Mutant: the output waits for the next level.
WriteEnableSilent(value) ==
  /\ Len(cpu_wire) < MaxWire
  /\ enable' = value \cap Sources
  /\ UNCHANGED <<level, src_wire, pending, out, cpu_wire, irq_level>>

WriteEnable(value) ==
  /\ Len(cpu_wire) < MaxWire
  /\ enable' = value \cap Sources
  /\ pending' = pending
  /\ UpdateOutput
  /\ UNCHANGED <<level, src_wire, irq_level>>

\* cpu.rs, irq: the hart takes the level.
Irq ==
  /\ cpu_wire # <<>>
  /\ irq_level' = Head(cpu_wire)
  /\ cpu_wire' = Tail(cpu_wire)
  /\ UNCHANGED <<level, src_wire, pending, enable, out>>

Next ==
  \/ \E s \in Sources, v \in Levels : Send(s, v)
  \/ \E s \in Sources : Level(s)
  \/ \E value \in SUBSET (Sources \cup OtherBits) : WriteEnable(value)
  \/ Irq

\* Levels sent are delivered.
Spec ==
  /\ Init /\ [][Next]_vars
  /\ \A s \in Sources : WF_vars(Level(s))
  /\ WF_vars(Irq)

-----------------------------------------------------------------------------
(* Properties *)

\* The type invariant of the lines and registers.
TypeOK ==
  /\ level \in [Sources -> Levels]
  /\ src_wire \in [Sources -> Seq(Levels)]
  /\ pending \subseteq Sources /\ enable \subseteq Sources
  /\ out \in Levels
  /\ cpu_wire \in Seq(Levels)
  /\ irq_level \in Levels

\* The level the receiver of a line ends up with.
Settled(wire, received) == IF wire = <<>> THEN received ELSE wire[Len(wire)]

\* What restore demands of a snapshot.
RestoreOk ==
  /\ pending \subseteq Sources /\ enable \subseteq Sources
  /\ out = Asserted(pending \cap enable # {})

\* `restore` accepts every reachable state: no bit without a source, and the output
\* is what pending and enable make it.
RestoreAccepts == RestoreOk

\* No edge is lost on either side of the controller: every line ends in its sender's
\* level, whatever is still under way on the others.
LinesFollow ==
  /\ \A s \in Sources : level[s] = Settled(src_wire[s], Asserted(s \in pending))
  /\ out = Settled(cpu_wire, irq_level)

\* The property of the whole path: with nothing under way, the hart's input is
\* asserted exactly when some enabled device asserts its line.
EndToEnd ==
  (\A s \in Sources : src_wire[s] = <<>>) /\ cpu_wire = <<>> =>
    irq_level = Asserted(\E s \in enable : level[s] = "high")

\* An enabled device that keeps its line up interrupts the hart.
Interrupts ==
  \A s \in Sources :
    (level[s] = "high" /\ s \in enable)
      ~> (irq_level = "high" \/ level[s] = "low" \/ s \notin enable)

============================================================================
