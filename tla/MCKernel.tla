------------------------------ MODULE MCKernel ------------------------------
(***************************************************************************)
(* Four settings of the modeled kernel, one of which is chosen initially:  *)
(* processes of a plan that take turns, a boot from a disk with all its    *)
(* errors, a plan with images that are skipped while anybody writes to the *)
(* gate and the trap frame, and the prototype mode.  A page of an image is *)
(* its va and whether it is readable; the stack is the last page.          *)
(***************************************************************************)
EXTENDS ModeledKernel

VARIABLES
  scene,   \* "turns", "disk", "stray" or "prototype"
  config, strays, data, txn, next_txn, tx, entry   \* of the prototype mode only

ofPrototype == <<config, strays, data, txn, next_txn, tx, entry>>
ofProcesses == <<life, entries, procs, ptes, blk, resume>>

Page(va, read) == [va |-> va, read |-> read]
File(pages, elf, reads) == [pages |-> pages, elf |-> elf, reads |-> reads]

\* Two pages in different slots, an unreadable page in between.
Spread == File(<<Page(0, TRUE), Page(1, FALSE), Page(2, TRUE)>>, TRUE, 1)

\* One page in one slot.
Small == File(<<Page(1, TRUE)>>, TRUE, 1)

\* A page in the kernel's megapage.
Conflicting == File(<<Page(4, TRUE)>>, TRUE, 1)

\* An executable whose headers take two reads, and one that does not parse.
LongHeaders == File(<<Page(1, TRUE)>>, TRUE, 2)
BadElf == File(<<Page(1, TRUE)>>, FALSE, 1)

\* The second image is skipped, the fourth does not fit after the others.
SkippedImages == <<Spread, Conflicting, Small, Small>>

\* Three processes that take turns, one with unreadable memory.
TurnImages == <<Spread, Small, Small>>

\* What a disk may hold.
DiskImages == <<LongHeaders, BadElf, Spread>>

Booted == INSTANCE ModeledKernel WITH
  NFrames <- 9, Images <- DiskImages, Disk <- TRUE, BadTables <- TRUE, DiskErrors <- TRUE,
  Causes <- {"simple", "write", "yield", "exit0", "fault"}

Disturbed == INSTANCE ModeledKernel WITH
  MaxPid <- 4, NFrames <- 9, Contexts <- {0}, PcMod <- 1, Images <- SkippedImages,
  Causes <- {"simple", "yield", "exit0", "smode"}, Conformant <- FALSE

\* A frame that begins at the end of a page, and one whose action and reason lie in
\* two pages; the TxnIds last for two scripts.
Prototype == INSTANCE PrototypeKernel WITH
  TrapFrames <- {3, 4}, FRAME_WORDS <- 5, FRAME_SEPC <- 2, FRAME_ACTION <- 3,
  MAX_ACCESS <- 2, PAGE <- 4, UartTx <- 20, WordMod <- 2, MaxTxn <- 15, MaxStrays <- 1

In(s) == scene = s

NoPrototype ==
  /\ config = "none" /\ strays = 0 /\ data = << >> /\ txn = 0 /\ next_txn = 0
  /\ tx = 0 /\ entry = "none"

NoProcesses ==
  /\ life = "AwaitBoot" /\ entries = 0 /\ procs = EmptyTable
  /\ ptes = << >> /\ blk = "idle" /\ resume = << >>

SceneInit ==
  \/ scene = "turns" /\ Init /\ NoPrototype
  \/ scene = "disk" /\ Booted!Init /\ NoPrototype
  \/ scene = "stray" /\ Disturbed!Init /\ NoPrototype
  \/ scene = "prototype" /\ Prototype!Init /\ NoProcesses

SceneNext ==
  /\ \/ In("turns") /\ Next /\ UNCHANGED ofPrototype
     \/ In("disk") /\ Booted!Next /\ UNCHANGED ofPrototype
     \/ In("stray") /\ Disturbed!Next /\ UNCHANGED ofPrototype
     \/ In("prototype") /\ Prototype!Next /\ UNCHANGED ofProcesses
  /\ UNCHANGED scene

sceneVars == <<vars, scene, ofPrototype>>

\* The fairness of the settings but the third: a disturbed kernel may fault.
SceneSpec ==
  /\ SceneInit /\ [][SceneNext]_sceneVars
  /\ WF_sceneVars(In("turns") /\ Progress /\ UNCHANGED <<scene, ofPrototype>>)
  /\ WF_sceneVars(In("disk") /\ Booted!Progress /\ UNCHANGED <<scene, ofPrototype>>)
  /\ WF_sceneVars(In("disk") /\ Booted!BlkFinish /\ UNCHANGED <<scene, ofPrototype>>)
  /\ WF_sceneVars(In("prototype") /\ Prototype!Progress /\ UNCHANGED <<scene, ofProcesses>>)

-----------------------------------------------------------------------------
\* Whoever writes to the gate and to the trap frame, and whatever the disk holds, a
\* session that has not faulted is in a state restore accepts.
Restorable ==
  CASE In("turns") -> RestoreAccepts
    [] In("disk") -> Booted!RestoreAccepts
    [] In("stray") -> Disturbed!RestoreAccepts
    [] In("prototype") -> Prototype!RestoreAccepts

\* A process continues in its own address space, right after the system call it made;
\* and the engine has exactly one wake or access under way.  In prototype mode, the frame
\* the hart returns to is the one it saved with sepc stepped.
Continues ==
  CASE In("turns") -> ResumesInPlace /\ OneThingUnderWay
    [] In("disk") -> Booted!ResumesInPlace /\ Booted!OneThingUnderWay
    [] In("stray") -> TRUE
    [] In("prototype") -> Prototype!OperationApplied

\* The hart is told of a clean shutdown exactly when every image became a process that
\* exited with status 0.
Honest ==
  CASE In("turns") -> ShutdownHonest
    [] In("disk") -> Booted!ShutdownHonest
    [] scene \in {"stray", "prototype"} -> TRUE

\* Every ENTER is answered: boot, traps, scripts and shutdown end.  The prototype's
\* TxnIds may run out.
EnterAnswered == []<>(In("stray") \/ hart.mode # "blocked" \/ (In("prototype") /\ fault))

\* If the running processes keep giving up the hart, every waiting one gets it.
EveryoneRuns ==
  []<>(In("turns") /\ Relinquishing) =>
    \A p \in Pids : []<>(procs.state[p] # "Ready")

=============================================================================
