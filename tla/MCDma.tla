------------------------------- MODULE MCDma -------------------------------
(***************************************************************************)
(* Two settings of the block controller, one of which is chosen initially: *)
(* memory and media that answer each request once, with a driver that      *)
(* writes anything, and memory and media that break the protocol.  Every   *)
(* beat of memory and media is distinct.                                   *)
(***************************************************************************)
EXTENDS DmaBlockController

VARIABLE scene   \* "conformant" or "unruly"

MCRamBeats == {0, 2, 4, 6}
MCInitialRam == [a \in MCRamBeats |-> <<"ram", a>>]
MCInitialMedia == [b \in 0 .. 2 |-> [j \in 1 .. 2 |-> <<"media", 2 * b + j>>]]
MCData == {<<"ram", a>> : a \in MCRamBeats} \cup {<<"media", i>> : i \in 1 .. 6}

Unruly == INSTANCE DmaBlockController WITH
  bad_blocks <- {}, MaxTxn <- 4, Commands <- {1, 2}, Lbas <- {0}, Addrs <- {0},
  Counts <- {2}, MaxCommands <- 1, Conformant <- FALSE

In(s) == scene = s

SceneInit ==
  \/ scene = "conformant" /\ Init
  \/ scene = "unruly" /\ Unruly!Init

SceneNext ==
  /\ \/ In("conformant") /\ Next
     \/ In("unruly") /\ Unruly!Next
  /\ UNCHANGED scene

sceneVars == <<vars, scene>>

\* Pending events are dispatched: wakes, requests, results and levels.
SceneSpec ==
  /\ SceneInit /\ [][SceneNext]_sceneVars
  /\ WF_sceneVars(In("conformant") /\ Engine /\ UNCHANGED scene)
  /\ WF_sceneVars(In("conformant") /\ IrqDelivered /\ UNCHANGED scene)

-----------------------------------------------------------------------------
\* Whatever memory and media answer, every state is accepted by restore.  With peers
\* that answer once it also has exactly the wake or the message pending that it has to
\* be resumed by, whatever the driver writes and however wakes and results are
\* ordered; and the session faults only when a txn counter is exhausted.
Resumable ==
  IF In("unruly") THEN Unruly!RestoreAccepts
  ELSE RestoreAccepts /\ Undisturbed

\* With peers that answer once, the controller implements BlockTransfer: a command
\* that ends with error 0 copied exactly its blocks, in order, one that ends with an
\* error copied a prefix of them, and nothing else in memory or on the media changes,
\* whatever the driver does to the registers meanwhile.
Transfers == Transfer!Init /\ [][In("conformant") => Transfer!Next]_(Transfer!vars)

\* Every accepted command ends.
EveryCommandEnds == []<>(In("unruly") \/ ~busy \/ faulted)

============================================================================
