------------------------ MODULE IrqControllerProofs ------------------------
(***************************************************************************)
(* Proofs about the interrupt path.  The inductive invariant says of every *)
(* line that it ends in its sender's level; EndToEnd is that statement     *)
(* with all lines empty.                                                   *)
(***************************************************************************)
EXTENDS IrqController, SequenceTheorems, TLAPS

\* The inductive invariant: types, restore's conditions, and where every line ends.
IInv == TypeOK /\ RestoreAccepts /\ LinesFollow

\* Appending to a line settles it at the new level.
LEMMA SettledAppend ==
  ASSUME NEW S, NEW w \in Seq(S), NEW r \in S, NEW v \in S
  PROVE  /\ Append(w, v) \in Seq(S)
         /\ Settled(Append(w, v), r) = v
<1>1. /\ Append(w, v) \in Seq(S) /\ Append(w, v) # <<>>
      /\ Append(w, v)[Len(Append(w, v))] = v
  BY AppendProperties
<1> QED  BY <1>1 DEF Settled

\* Delivering the head of a line does not change where it settles.
LEMMA SettledTail ==
  ASSUME NEW S, NEW w \in Seq(S), w # <<>>, NEW r \in S
  PROVE  /\ Head(w) \in S
         /\ Tail(w) \in Seq(S)
         /\ Settled(Tail(w), Head(w)) = Settled(w, r)
<1>1. /\ Head(w) \in S /\ Tail(w) \in Seq(S)
      /\ Len(Tail(w)) = Len(w) - 1
      /\ \A i \in 1 .. Len(Tail(w)) : Tail(w)[i] = w[i + 1]
  BY HeadTailProperties
<1>2. Len(w) \in Nat /\ Len(w) > 0
  BY EmptySeq
<1>3. CASE Tail(w) = <<>>
  <2>0. Len(<<>>) = 0  BY EmptySeq
  <2>1. Len(Tail(w)) = 0  BY <1>3, <2>0, Zenon
  <2> DEFINE n == Len(w)  m == Len(Tail(w))
  <2> HIDE DEF n, m
  <2>2. n = 1
    <3>1. n \in Nat /\ m = n - 1 /\ m = 0  BY <1>1, <1>2, <2>1, Zenon DEF n, m
    <3> QED  BY <3>1
  <2> QED  BY <1>1, <1>3, <2>2 DEF Settled, n
<1>4. CASE Tail(w) # <<>>
  <2>1. Len(Tail(w)) \in Nat /\ Len(Tail(w)) > 0  BY <1>1, <1>4, EmptySeq
  <2>2. Tail(w)[Len(Tail(w))] = w[Len(w)]  BY <1>1, <1>2, <2>1
  <2> QED  BY <1>1, <1>4, <2>2 DEF Settled
<1> QED  BY <1>3, <1>4

\* update_output leaves out, and where the line to the hart settles, at the new output.
LEMMA UpdateOutputFollows ==
  ASSUME TypeOK, out = Settled(cpu_wire, irq_level), irq_level' = irq_level,
         UpdateOutput
  PROVE  /\ out' \in Levels /\ cpu_wire' \in Seq(Levels)
         /\ out' = Asserted(pending' \cap enable' # {})
         /\ out' = Settled(cpu_wire', irq_level')
<1> DEFINE meip == Asserted(pending' \cap enable' # {})
<1>1. meip \in Levels  BY DEF Asserted, Levels
<1>2. /\ out' = meip
      /\ cpu_wire' = IF meip = out THEN cpu_wire ELSE Append(cpu_wire, meip)
  BY DEF UpdateOutput
<1>3. cpu_wire \in Seq(Levels) /\ irq_level \in Levels  BY DEF TypeOK
<1> HIDE DEF meip
<1>4. /\ Append(cpu_wire, meip) \in Seq(Levels)
      /\ Settled(Append(cpu_wire, meip), irq_level) = meip
  BY <1>1, <1>3, SettledAppend
<1>5. out' \in Levels /\ cpu_wire' \in Seq(Levels) /\ out' = Settled(cpu_wire', irq_level')
  BY <1>1, <1>2, <1>3, <1>4
<1> QED  BY <1>2, <1>5 DEF meip

\* Every step of the interrupt path preserves the inductive invariant.
LEMMA StepPreserves == IInv /\ [Next]_vars => IInv'
<1> SUFFICES ASSUME IInv, [Next]_vars PROVE IInv'
  OBVIOUS
<1> USE DEF IInv, RestoreAccepts
<1>0. \A b : Asserted(b) \in Levels  BY DEF Asserted, Levels
<1>1. ASSUME NEW s \in Sources, NEW v \in Levels, Send(s, v)
      PROVE  IInv'
  <2>1. src_wire[s] \in Seq(Levels)  BY DEF TypeOK
  <2>2. /\ Append(src_wire[s], v) \in Seq(Levels)
        /\ Settled(Append(src_wire[s], v), Asserted(s \in pending)) = v
    BY <1>0, <2>1, SettledAppend
  <2>3. TypeOK'
    BY <1>1, <2>2 DEF Send, TypeOK
  <2>4. \A t \in Sources : level'[t] = Settled(src_wire'[t], Asserted(t \in pending'))
    BY <1>1, <2>2 DEF Send, TypeOK, LinesFollow
  <2>5. RestoreOk' /\ out' = Settled(cpu_wire', irq_level')
    BY <1>1 DEF Send, RestoreOk, LinesFollow
  <2> QED  BY <2>3, <2>4, <2>5 DEF LinesFollow
<1>2. ASSUME NEW s \in Sources, Level(s)
      PROVE  IInv'
  <2>1. src_wire[s] \in Seq(Levels) /\ src_wire[s] # <<>>
    BY <1>2 DEF Level, TypeOK
  <2>2. /\ Head(src_wire[s]) \in Levels /\ Tail(src_wire[s]) \in Seq(Levels)
        /\ Settled(Tail(src_wire[s]), Head(src_wire[s]))
             = Settled(src_wire[s], Asserted(s \in pending))
    BY <1>0, <2>1, SettledTail
  <2>3. /\ pending' \subseteq Sources
        /\ Asserted(s \in pending') = Head(src_wire[s])
        /\ \A t \in Sources : t # s => (t \in pending' <=> t \in pending)
    BY <1>2, <2>2 DEF Level, TypeOK, Asserted, Levels
  <2>4. /\ src_wire' \in [Sources -> Seq(Levels)]
        /\ src_wire'[s] = Tail(src_wire[s])
        /\ \A t \in Sources : t # s => src_wire'[t] = src_wire[t]
    BY <1>2, <2>2 DEF Level, TypeOK
  <2>5. \A t \in Sources : level'[t] = Settled(src_wire'[t], Asserted(t \in pending'))
    <3> TAKE t \in Sources
    <3>1. level'[t] = Settled(src_wire[t], Asserted(t \in pending))
      BY <1>2 DEF Level, LinesFollow
    <3>2. CASE t = s  BY <2>2, <2>3, <2>4, <3>1, <3>2
    <3>3. CASE t # s
      <4>1. Asserted(t \in pending') = Asserted(t \in pending)
        BY <2>3, <3>3 DEF Asserted
      <4> QED  BY <2>4, <3>1, <3>3, <4>1
    <3> QED  BY <3>2, <3>3
  <2>6. /\ out' \in Levels /\ cpu_wire' \in Seq(Levels)
        /\ out' = Asserted(pending' \cap enable' # {})
        /\ out' = Settled(cpu_wire', irq_level')
    <3>1. CASE pending' = pending
      BY <1>2, <3>1 DEF Level, TypeOK, RestoreOk, LinesFollow
    <3>2. CASE pending' # pending
      BY <1>2, <3>2, UpdateOutputFollows DEF Level, LinesFollow
    <3> QED  BY <3>1, <3>2
  <2>7. TypeOK' /\ RestoreOk'
    BY <1>2, <2>3, <2>4, <2>6 DEF Level, TypeOK, RestoreOk
  <2> QED  BY <2>5, <2>6, <2>7 DEF LinesFollow
<1>3. ASSUME NEW value, WriteEnable(value)
      PROVE  IInv'
  <2>1. /\ out' \in Levels /\ cpu_wire' \in Seq(Levels)
        /\ out' = Asserted(pending' \cap enable' # {})
        /\ out' = Settled(cpu_wire', irq_level')
    BY <1>3, UpdateOutputFollows DEF WriteEnable, LinesFollow
  <2>2. TypeOK' /\ RestoreOk'
    BY <1>3, <2>1 DEF WriteEnable, TypeOK, RestoreOk
  <2> QED  BY <1>3, <2>1, <2>2 DEF WriteEnable, LinesFollow
<1>4. CASE Irq
  <2>1. /\ irq_level' \in Levels /\ cpu_wire' \in Seq(Levels)
        /\ Settled(cpu_wire', irq_level') = Settled(cpu_wire, irq_level)
    BY <1>4, SettledTail DEF Irq, TypeOK
  <2>2. TypeOK' /\ RestoreOk'
    BY <1>4, <2>1 DEF Irq, TypeOK, RestoreOk
  <2> QED  BY <1>4, <2>1, <2>2 DEF Irq, LinesFollow
<1>5. CASE UNCHANGED vars
  BY <1>5 DEF vars, TypeOK, RestoreOk, LinesFollow
<1> QED  BY <1>1, <1>2, <1>3, <1>4, <1>5 DEF Next

\* The initial state satisfies the inductive invariant.
LEMMA InitHolds == Init => IInv
<1> SUFFICES ASSUME Init PROVE IInv
  OBVIOUS
<1>1. TypeOK
  <2>1. <<>> \in Seq(Levels)  BY EmptySeq
  <2> QED  BY <2>1 DEF Init, TypeOK, Levels
<1>2. RestoreAccepts  BY DEF Init, RestoreAccepts, RestoreOk, Asserted
<1>3. LinesFollow  BY DEF Init, LinesFollow, Settled, Asserted
<1> QED  BY <1>1, <1>2, <1>3 DEF IInv

\* The inductive invariant holds in every reachable state.
THEOREM Invariance == Spec => []IInv
<1>1. IInv /\ [Next]_vars => IInv'  BY StepPreserves
<1> QED  BY <1>1, InitHolds, PTL DEF Spec

\* restore accepts every state the controller reaches.
THEOREM RestoreAcceptsHolds == Spec => []RestoreAccepts
<1>1. IInv => RestoreAccepts  BY DEF IInv
<1> QED  BY <1>1, Invariance, PTL

\* With nothing under way the hart sees exactly the enabled devices' lines.
THEOREM EndToEndHolds == Spec => []EndToEnd
<1>1. IInv => EndToEnd
  <2> SUFFICES ASSUME IInv, \A s \in Sources : src_wire[s] = <<>>, cpu_wire = <<>>
               PROVE  irq_level = Asserted(\E s \in enable : level[s] = "high")
    BY DEF EndToEnd
  <2>1. \A s \in Sources : level[s] = "high" <=> s \in pending
    BY DEF IInv, LinesFollow, Settled, Asserted
  <2>2. irq_level = Asserted(pending \cap enable # {})
    BY DEF IInv, LinesFollow, RestoreAccepts, RestoreOk, Settled
  <2>3. (pending \cap enable # {}) <=> \E s \in enable : level[s] = "high"
    BY <2>1 DEF IInv, TypeOK
  <2> QED  BY <2>2, <2>3 DEF Asserted
<1> QED  BY <1>1, Invariance, PTL

============================================================================
