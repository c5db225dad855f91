------------------------------- MODULE MCBus -------------------------------
(***************************************************************************)
(* Two buses, one of which is chosen initially: masters and targets that   *)
(* follow the protocol compete for one region of the first, and break it   *)
(* on the second, which has two regions and a downstream counter that runs *)
(* out.                                                                    *)
(***************************************************************************)
EXTENDS MultiMasterBus

VARIABLE scene   \* "contended" or "unruly"

Unruly == INSTANCE MultiMasterBus WITH
  Masters <- 2, Regions <- 2, Txns <- {0, 1}, Gaps <- {1}, Latencies <- {0, 1},
  Writes <- {TRUE}, Budget <- 3, MaxDownstream <- 2, Conformant <- FALSE

In(s) == scene = s

SceneInit ==
  \/ scene = "contended" /\ Init
  \/ scene = "unruly" /\ Unruly!Init

\* Only one of the unruly masters uses both txns.
OneTxn == sent'[1] \subseteq {0}

SceneNext ==
  /\ \/ In("contended") /\ Next
     \/ In("unruly") /\ Unruly!Next /\ OneTxn
  /\ UNCHANGED scene

\* The driver keeps dispatching while events are pending; liveness is asked of the
\* first bus only, as the second may fault at any time.
SceneSpec ==
  /\ SceneInit /\ [][SceneNext]_<<vars, scene>>
  /\ WF_<<vars, scene>>(In("contended") /\ Dispatch /\ UNCHANGED scene)

-----------------------------------------------------------------------------
\* While a master waits for a region, the others are granted at most once each; and
\* after the first arbitration wake of a phase nothing is left to grant.
Arbitration ==
  IF In("contended") THEN RoundRobin /\ FirstWakeGrantsAll
                     ELSE Unruly!RoundRobin /\ Unruly!FirstWakeGrantsAll

\* Whoever breaks the protocol, every state of the bus is accepted by restore.
Restorable == IF In("contended") THEN RestoreAccepts ELSE Unruly!RestoreAccepts

\* Every request is live or has its answer on its way exactly once, a master's requests
\* to one region are answered in the order they arrived, and a region's active
\* transaction is exactly one event in flight when targets answer once.
Accounted ==
  IF In("contended") THEN AnsweredOnce /\ HeldInOrder /\ ActiveInFlight
                     ELSE Unruly!AnsweredOnce /\ Unruly!HeldInOrder

\* Every request that arrives is answered: however the masters go on, there comes a
\* time when none is waiting.
EveryAnswer == []<>(In("unruly") \/ \A m \in Master : waiting[m] = <<>>)

============================================================================
