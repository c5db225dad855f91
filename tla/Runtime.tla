------------------------------ MODULE Runtime ------------------------------
(***************************************************************************)
(* A simulation session: runtime/src/runtime.rs with the session part of   *)
(* snapshot.rs and trace.rs, on top of the scheduler.                      *)
(*                                                                         *)
(* The driver makes one call at a time; a call that runs component code or *)
(* observer callbacks takes several steps, so a driver call is in progress *)
(* (`call`) from its first step to its return.  Inside it, `init` and      *)
(* `handle_event` are sequences of Ctx calls ended by the handler's        *)
(* result.  Components and observers are the environment: which events a   *)
(* component sends, whether a handler fails and whether an observer asks   *)
(* for a pause are chosen freely.                                          *)
(*                                                                         *)
(* A digest or a trace is modelled by what it covers: the BLAKE3 chain and *)
(* the recorded dispatch records are the sequence of events dispatched     *)
(* (the hash is taken to be injective).                                    *)
(***************************************************************************)
EXTENDS Scheduler, Sequences

CONSTANTS
  Components,   \* number of components; `init` runs them in id order
  SendPhases,   \* phases the components schedule into
  Observers,    \* whether any observer is attached
  Points,       \* ticks the driver passes to observe_at
  MaxSessions,  \* bound: sessions elaborated one after the other
  NoTrace       \* `None` where the code has an Option of a trace

ASSUME RuntimeAssumption ==
  /\ Components \in Nat \ {0}
  /\ SendPhases \subseteq Phase
  /\ Observers \in BOOLEAN
  /\ Points \subseteq Tick
  /\ MaxSessions \in Nat \ {0}

VARIABLES
  lifecycle,         \* Elaborated, Ready or Faulted
  fault,             \* whether `fault` holds an error
  freshly_restored,  \* restored and not yet stepped
  execution_digest,  \* the events chained into the digest so far
  trace,             \* the events of the recorded dispatch records, or NoTrace
  emitted,           \* records awaiting flush_records
  observe_points,    \* observe points that have not fired
  call,              \* the driver call in progress, with its place in the code
  ctx_error,         \* the sticky error of the latest Ctx
  taken,             \* the latest trace handed out by take_trace
  saved_digest,      \* the digest stored in the snapshot `saved`
  observed,          \* history: the points fired in this session
  sessions           \* history: sessions elaborated so far

session == <<lifecycle, fault, freshly_restored, execution_digest, trace,
             emitted, observe_points, call, ctx_error, observed>>
outside == <<taken, saved_digest, sessions>>
rvars == <<vars, session, outside>>

NoCall == [op |-> "none"]
Idle == call = NoCall

\* Places in a call: in a component's handler, firing observe points before or
\* after a dispatch, or about to look at the queue.
InHandler == ~Idle /\ call.at = "handler"
At(op, place) == ~Idle /\ call.op = op /\ call.at = place

-----------------------------------------------------------------------------
\* A freshly elaborated session, with nothing saved outside it.
FreshSession ==
  /\ lifecycle' = "Elaborated"
  /\ fault' = FALSE
  /\ freshly_restored' = FALSE
  /\ execution_digest' = <<>>
  /\ trace' = NoTrace
  /\ emitted' = <<>>
  /\ observe_points' = {}
  /\ call' = NoCall
  /\ ctx_error' = FALSE
  /\ observed' = {}

RInit ==
  /\ Init
  /\ lifecycle = "Elaborated"
  /\ fault = FALSE
  /\ freshly_restored = FALSE
  /\ execution_digest = <<>>
  /\ trace = NoTrace
  /\ emitted = <<>>
  /\ observe_points = {}
  /\ call = NoCall
  /\ ctx_error = FALSE
  /\ observed = {}
  /\ taken = NoTrace
  /\ saved_digest = <<>>
  /\ sessions = 1

\* The old session is dropped and the same topology elaborated again.
Elaborate ==
  /\ Idle
  /\ lifecycle # "Elaborated"
  /\ sessions < MaxSessions
  /\ sessions' = sessions + 1
  /\ last_dispatched' = NoKey
  /\ dispatched_in_phase' = 0
  /\ next_sequence' = 0
  /\ heap' = {}
  /\ dispatched' = {}
  /\ FreshSession
  /\ UNCHANGED <<saved, taken, saved_digest>>

EnterFault ==
  /\ lifecycle' = "Faulted"
  /\ fault' = TRUE
  /\ call' = NoCall

-----------------------------------------------------------------------------
\* Calls that only change driver state.

StartTrace ==
  /\ Idle
  /\ lifecycle = "Elaborated"
  /\ trace' = <<>>
  /\ UNCHANGED <<vars, outside, lifecycle, fault, freshly_restored, emitted,
                 execution_digest, observe_points, call, ctx_error, observed>>

TakeTrace ==
  /\ Idle
  /\ trace # NoTrace
  /\ taken' = trace
  /\ trace' = NoTrace
  /\ UNCHANGED <<vars, lifecycle, fault, freshly_restored, emitted,
                 execution_digest, observe_points, call, ctx_error, observed,
                 saved_digest, sessions>>

\* Mutant: only the last key of the prefix is compared.
CheckPrefixCursorOnly(prefix) ==
  prefix # <<>> => last_dispatched = KeyOf(prefix[Len(prefix)])

\* check_prefix: replaying the prefix must reproduce the digest and the cursor.
CheckPrefix(prefix) ==
  /\ prefix = execution_digest
  /\ IF prefix = <<>> THEN last_dispatched = NoKey
     ELSE last_dispatched = KeyOf(prefix[Len(prefix)])

ResumeTrace(prefix) ==
  /\ Idle
  /\ lifecycle = "Ready" /\ freshly_restored
  /\ CheckPrefix(prefix)
  /\ trace' = prefix
  /\ freshly_restored' = FALSE
  /\ UNCHANGED <<vars, outside, lifecycle, fault, emitted, execution_digest,
                 observe_points, call, ctx_error, observed>>

ObserveAt(t) ==
  /\ Idle
  /\ observe_points' = observe_points \cup {t}
  /\ UNCHANGED <<vars, outside, lifecycle, fault, freshly_restored, emitted,
                 execution_digest, trace, call, ctx_error, observed>>

-----------------------------------------------------------------------------
\* Snapshot and restore.

SaveSession ==
  /\ Idle
  /\ lifecycle = "Ready"
  /\ TakeSnapshot
  /\ saved_digest' = execution_digest
  /\ UNCHANGED <<session, taken, sessions>>

\* try_restore succeeds: the scheduler's checks pass, every component accepts its
\* bytes, and a digest without a dispatched event is the zero digest.
RestoreSession ==
  /\ Idle
  /\ lifecycle = "Elaborated"
  /\ trace = NoTrace
  /\ Restore
  /\ saved.last_dispatched = NoKey => saved_digest = <<>>
  /\ execution_digest' = saved_digest
  /\ lifecycle' = "Ready"
  /\ freshly_restored' = TRUE
  /\ UNCHANGED <<fault, trace, emitted, observe_points, call, ctx_error, observed,
                 outside>>

\* Any check of try_restore fails on the bytes given to it, possibly after some components took their
\* bytes: fail_restore.  The scheduler is replaced last, so it is untouched.
RestoreFails ==
  /\ Idle
  /\ lifecycle = "Elaborated"
  /\ trace = NoTrace
  /\ lifecycle' = "Faulted"
  /\ UNCHANGED <<vars, outside, fault, freshly_restored, execution_digest, trace,
                 emitted, observe_points, call, ctx_error, observed>>

-----------------------------------------------------------------------------
\* Inside a handler: the calls a component makes on its Ctx.

\* send and wake_self.  The time of an event is resolved forward from `now`, so
\* a component reaches neither S1 nor a wrong tick, only S2, S3 and S6.
CtxSend(t, p, x) ==
  /\ InHandler
  /\ ~ctx_error
  /\ t >= now
  /\ Schedule(t, p, x)
  /\ UNCHANGED <<session, outside>>

\* The first refused call is remembered (an unknown port, a protocol mismatch, a
\* tick past u64::MAX, or a rule of the scheduler); later calls return it again.
CtxRefused ==
  /\ InHandler
  /\ ~ctx_error
  /\ ctx_error' = TRUE
  /\ UNCHANGED <<vars, outside, lifecycle, fault, freshly_restored, trace, emitted,
                 execution_digest, observe_points, call, observed>>

FlushRecords ==
  /\ trace' = IF trace = NoTrace THEN NoTrace ELSE trace \o emitted
  /\ emitted' = <<>>

\* The handler returns `ok`; a sticky error overrides it and faults the session.
HandlerFails(ok) ==
  /\ InHandler
  /\ ~ok \/ ctx_error
  /\ FlushRecords
  /\ EnterFault
  /\ UNCHANGED <<vars, outside, freshly_restored, execution_digest,
                 observe_points, ctx_error, observed>>

-----------------------------------------------------------------------------
\* init: every component's `init`, in ComponentId order, each with its own Ctx.

CallInit ==
  /\ Idle
  /\ lifecycle = "Elaborated"
  /\ call' = [op |-> "init", at |-> "handler", component |-> 1]
  /\ ctx_error' = FALSE
  /\ UNCHANGED <<vars, outside, lifecycle, fault, freshly_restored, trace, emitted,
                 execution_digest, observe_points, observed>>

InitReturns ==
  /\ At("init", "handler")
  /\ ~ctx_error
  /\ FlushRecords
  /\ IF call.component < Components
       THEN /\ call' = [call EXCEPT !.component = @ + 1]
            /\ lifecycle' = lifecycle
       ELSE /\ call' = NoCall
            /\ lifecycle' = "Ready"
  /\ UNCHANGED <<vars, outside, fault, freshly_restored, execution_digest,
                 observe_points, ctx_error, observed>>

-----------------------------------------------------------------------------
\* step and run.

CallStep ==
  /\ Idle
  /\ lifecycle = "Ready"
  /\ call' = [op |-> "step", at |-> "points"]
  /\ UNCHANGED <<vars, outside, lifecycle, fault, freshly_restored, trace, emitted,
                 execution_digest, observe_points, ctx_error, observed>>

CallRun(until) ==
  /\ Idle
  /\ lifecycle = "Ready"
  /\ call' = [op |-> "run", at |-> "points", until |-> until]
  /\ UNCHANGED <<vars, outside, lifecycle, fault, freshly_restored, trace, emitted,
                 execution_digest, observe_points, ctx_error, observed>>

Firing == ~Idle /\ call.at \in {"points", "points again"}

Larger(a, b) == IF a >= b THEN a ELSE b

\* Mutant: the tick of the latest event counts as finished.
DueAtCurrentTick(point) ==
  IF heap = {}
    THEN point <= IF call.op = "run" THEN Larger(call.until, now) ELSE now
    ELSE point <= now \/ \A e \in heap : point < e.tick

\* A point is due once its tick is finished.
Due(point) ==
  IF heap = {}
    THEN point <= IF call.op = "run" THEN Larger(call.until, now) ELSE now
    ELSE \A e \in heap : point < e.tick

IsFirstPoint(point) ==
  point \in observe_points /\ \A other \in observe_points : point <= other

\* Mutant: a fired point stays registered.
FirePointKept(point, pause) ==
  /\ Firing
  /\ IsFirstPoint(point)
  /\ Due(point)
  /\ pause => Observers
  /\ observed' = observed \cup {point}
  /\ call' = IF pause /\ call.op = "run" THEN NoCall ELSE call
  /\ UNCHANGED <<vars, outside, lifecycle, fault, freshly_restored, trace, emitted,
                 execution_digest, observe_points, ctx_error>>

\* One turn of the loop of fire_observe_points; `pause` is what the observers
\* answer.  `run` stops at the first pause, `step` ignores pauses.
FirePoint(point, pause) ==
  /\ Firing
  /\ IsFirstPoint(point)
  /\ Due(point)
  /\ pause => Observers
  /\ observe_points' = observe_points \ {point}
  /\ observed' = observed \cup {point}
  /\ call' = IF pause /\ call.op = "run" THEN NoCall ELSE call
  /\ UNCHANGED <<vars, outside, lifecycle, fault, freshly_restored, trace, emitted,
                 execution_digest, ctx_error>>

NoneDue == \A point \in observe_points : IsFirstPoint(point) => ~Due(point)

\* `step` and `run` return without dispatching: the queue is empty (Drained), or
\* the next event is after `until` (Horizon).
ReturnWithoutDispatch ==
  /\ At("run", "points") \/ At("step", "points")
  /\ NoneDue
  /\ \/ heap = {}
     \/ call.op = "run" /\ \A e \in heap : e.tick > call.until
  /\ call' = NoCall
  /\ UNCHANGED <<vars, outside, lifecycle, fault, freshly_restored, trace, emitted,
                 execution_digest, observe_points, ctx_error, observed>>

\* `step` returns after the points that its event made due.
StepReturns ==
  /\ At("step", "points again")
  /\ NoneDue
  /\ call' = NoCall
  /\ UNCHANGED <<vars, outside, lifecycle, fault, freshly_restored, trace, emitted,
                 execution_digest, observe_points, ctx_error, observed>>

MayDispatch(e) ==
  /\ At("run", "points") \/ At("step", "points")
  /\ NoneDue
  /\ IsNext(e)
  /\ call.op = "run" => e.tick <= call.until

\* dispatch pops the event, chains it into the digest and starts its handler.
Dispatch(e) ==
  /\ MayDispatch(e)
  /\ Pop(e)
  /\ execution_digest' = Append(execution_digest, e)
  /\ freshly_restored' = FALSE
  /\ emitted' = IF trace # NoTrace \/ Observers THEN Append(emitted, e)
                ELSE emitted
  /\ call' = [call EXCEPT !.at = "handler"]
  /\ ctx_error' = FALSE
  /\ UNCHANGED <<outside, lifecycle, fault, trace, observe_points, observed>>

\* pop refuses the event with SameTickLivelock.
DispatchLivelock(e) ==
  /\ MayDispatch(e)
  /\ ~S5(e)
  /\ EnterFault
  /\ UNCHANGED <<vars, outside, freshly_restored, trace, emitted, execution_digest,
                 observe_points, ctx_error, observed>>

\* Mutant: the handler's Ok hides the error its Ctx remembered.
HandlerReturnsUnchecked(pause) ==
  /\ At("run", "handler") \/ At("step", "handler")
  /\ pause => Observers
  /\ FlushRecords
  /\ call' = IF call.op = "step" THEN [call EXCEPT !.at = "points again"]
             ELSE IF pause THEN NoCall
             ELSE [call EXCEPT !.at = "points"]
  /\ UNCHANGED <<vars, outside, lifecycle, fault, freshly_restored,
                 execution_digest, observe_points, ctx_error, observed>>

\* The handler succeeds and the observers see the event; in `run`, a pause they
\* ask for ends the call, otherwise the loop goes round.
HandlerReturns(pause) ==
  /\ At("run", "handler") \/ At("step", "handler")
  /\ ~ctx_error
  /\ pause => Observers
  /\ FlushRecords
  /\ call' = IF call.op = "step" THEN [call EXCEPT !.at = "points again"]
             ELSE IF pause THEN NoCall
             ELSE [call EXCEPT !.at = "points"]
  /\ UNCHANGED <<vars, outside, lifecycle, fault, freshly_restored,
                 execution_digest, observe_points, ctx_error, observed>>

-----------------------------------------------------------------------------
DriverCall ==
  \/ Elaborate
  \/ StartTrace
  \/ TakeTrace
  \/ taken # NoTrace /\ ResumeTrace(taken)
  \/ \E t \in Points : ObserveAt(t)
  \/ SaveSession
  \/ RestoreSession
  \/ RestoreFails
  \/ CallInit
  \/ CallStep
  \/ \E t \in Tick : CallRun(t)

\* What a call in progress does next.
Handler ==
  \/ \E t \in Tick, p \in SendPhases, x \in Payload : CtxSend(t, p, x)
  \/ CtxRefused

Progress ==
  \/ \E ok \in BOOLEAN : HandlerFails(ok)
  \/ InitReturns
  \/ \E point \in Tick, pause \in BOOLEAN : FirePoint(point, pause)
  \/ ReturnWithoutDispatch
  \/ StepReturns
  \/ \E e \in heap : Dispatch(e) \/ DispatchLivelock(e)
  \/ \E pause \in BOOLEAN : HandlerReturns(pause)

RNext == DriverCall \/ Handler \/ Progress

\* A call in progress is executed by the driver's own thread: it keeps going.
RSpec == RInit /\ [][RNext]_rvars /\ WF_rvars(Progress)

-----------------------------------------------------------------------------
\* Events and observe points keep their order, however steps, runs, pauses and late
\* observe_at calls are interleaved: once the observers were shown tick T as finished
\* (on_observe(T)) no event at or before T is dispatched, and no event runs while an
\* observe point of an earlier tick is still waiting.
PointsBetweenEvents ==
  [][\A e \in heap : Dispatch(e) =>
       /\ \A point \in observed : point < e.tick
       /\ \A point \in observe_points : point >= e.tick]_rvars

\* A recorded trace has exactly one dispatch record per event chained into the
\* digest, in order, including after a restore and a resume_trace.
TraceMatchesDigest ==
  trace # NoTrace => trace \o emitted = execution_digest

\* A Ctx call that was refused faults the session, even when the handler ignored
\* the error and returned Ok.
RefusedSendFaults ==
  Idle /\ ctx_error => lifecycle = "Faulted"

\* Every driver call returns: run reaches its horizon, an empty queue, a pause or
\* a fault.
CallsReturn == ~Idle ~> Idle

=============================================================================
