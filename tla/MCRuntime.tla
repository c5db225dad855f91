----------------------------- MODULE MCRuntime -----------------------------
(***************************************************************************)
(* Two settings of a session, one of which is chosen initially: sessions   *)
(* that are saved, dropped and restored, with one event per tick, and a    *)
(* single session whose components send into two phases of a tick, so that *)
(* a handler adds an event to the tick it runs in, watched at two points.  *)
(***************************************************************************)
EXTENDS Runtime

VARIABLE scene   \* "restored" or "watched"

Watched == INSTANCE Runtime WITH
  SendPhases <- {Request, Transfer}, Points <- {0, 1}, MaxSessions <- 1

In(s) == scene = s

SceneInit == scene \in {"restored", "watched"} /\ RInit

SceneNext ==
  /\ \/ In("restored") /\ RNext
     \/ In("watched") /\ Watched!RNext
  /\ UNCHANGED scene

sceneVars == <<rvars, scene>>

\* A call in progress is executed by the driver's own thread: it keeps going.
SceneSpec ==
  /\ SceneInit /\ [][SceneNext]_sceneVars
  /\ WF_sceneVars(Progress /\ UNCHANGED scene)

============================================================================
