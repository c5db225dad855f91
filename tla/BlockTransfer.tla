--------------------------- MODULE BlockTransfer ---------------------------
(***************************************************************************)
(* What the block controller promises its driver: a command copies whole   *)
(* blocks between the media and memory, in order, one beat at a time into  *)
(* memory (READ) or one block at a time onto the media (WRITE); it ends    *)
(* when everything is copied, or earlier with an error that leaves a       *)
(* prefix copied; and nothing else is ever written.                        *)
(***************************************************************************)
EXTENDS Integers

CONSTANTS Beats, BeatSize, Jobs, NoJob

VARIABLES
  ram, media,
  job,     \* the command being carried out, or NoJob
  moved,   \* beats (READ) or blocks (WRITE) copied so far
  result   \* "none", "ok" or "error": what the driver has not acknowledged

vars == <<ram, media, job, moved, result>>

Init == job = NoJob /\ moved = 0 /\ result = "none"

Start ==
  /\ job = NoJob /\ result = "none"
  /\ job' \in Jobs
  /\ UNCHANGED <<ram, media, moved, result>>

\* A command that fails validation is answered at once.
Refuse ==
  /\ job = NoJob /\ result = "none"
  /\ result' = "error"
  /\ UNCHANGED <<ram, media, job, moved>>

CopyBeat ==
  /\ job # NoJob /\ job.op = "read"
  /\ moved < job.count * Beats
  /\ job.addr + moved * BeatSize \in DOMAIN ram
  /\ job.lba + (moved \div Beats) \in DOMAIN media
  /\ ram' = [ram EXCEPT ![job.addr + moved * BeatSize] =
               media[job.lba + (moved \div Beats)][1 + (moved % Beats)]]
  /\ moved' = moved + 1
  /\ UNCHANGED <<media, job, result>>

CopyBlock ==
  /\ job # NoJob /\ job.op = "write"
  /\ moved < job.count
  /\ job.lba + moved \in DOMAIN media
  /\ \A j \in 1 .. Beats :
       job.addr + (moved * Beats + j - 1) * BeatSize \in DOMAIN ram
  /\ media' = [media EXCEPT ![job.lba + moved] =
                 [j \in 1 .. Beats |->
                    ram[job.addr + (moved * Beats + j - 1) * BeatSize]]]
  /\ moved' = moved + 1
  /\ UNCHANGED <<ram, job, result>>

Total(j) == IF j.op = "read" THEN j.count * Beats ELSE j.count

End(r) ==
  /\ job # NoJob
  /\ r = "ok" => moved = Total(job)
  /\ job' = NoJob /\ moved' = 0 /\ result' = r
  /\ UNCHANGED <<ram, media>>

Acknowledge ==
  /\ result # "none"
  /\ result' = "none"
  /\ UNCHANGED <<ram, media, job, moved>>

Next ==
  \/ Start
  \/ Refuse
  \/ CopyBeat
  \/ CopyBlock
  \/ \E r \in {"ok", "error"} : End(r)
  \/ Acknowledge

Spec == Init /\ [][Next]_vars

=============================================================================
