--------------------------- MODULE MultiMasterBus ---------------------------
(***************************************************************************)
(* components/platform/src/mmbus.rs: a bus with a FIFO per (region,        *)
(* master), one active transaction per region and round-robin arbitration, *)
(* between masters that issue requests and targets that answer them.       *)
(*                                                                         *)
(* A request names the region that `route` finds for its bytes, or         *)
(* Unmapped; addresses and data are left out.  Masters and targets are the *)
(* environment.  When Conformant, a master posts requests in the REQUEST   *)
(* phase, with a txn it has not in use, and a target answers each request  *)
(* once, with its txn and kind, in COMPLETE, after one of Latencies.       *)
(* Otherwise a master may also reuse a txn, send an empty request or send  *)
(* in another phase, and a target may answer twice, with the wrong kind or *)
(* in another phase.                                                       *)
(***************************************************************************)
EXTENDS EventQueue

CONSTANTS
  Masters,         \* number of masters; they are 0 .. Masters - 1
  Regions,         \* number of regions, 1 .. Regions, in arbitration order
  Txns,            \* transaction ids a master uses
  Gaps,            \* delays after which a master's request arrives
  Latencies,       \* delays after which a target answers
  Writes,          \* the kinds of request issued: whether it is a write
  Budget,          \* bound: requests issued by all masters together
  MaxDownstream,   \* u64::MAX: the downstream txn never allocated
  Conformant,      \* whether masters and targets follow the protocol
  Empty,           \* the "region" of a zero-length request
  Unmapped,        \* the "region" of a request that no region contains
  NoTxn            \* `None` for RegionState::active

Master == 0 .. Masters - 1
Region == 1 .. Regions

ASSUME BusAssumption ==
  /\ Masters \in Nat \ {0}
  /\ Regions \in Nat
  /\ Budget \in Nat
  /\ Writes \subseteq BOOLEAN
  /\ MaxDownstream \in Nat
  /\ {Unmapped, Empty} \cap Region = {}
  /\ Conformant \in BOOLEAN

VARIABLES
  active,           \* active[r]: the downstream transaction of r, or NoTxn
  queues,           \* queues[r][m]: FIFO of [txn, write]
  rr_cursor,        \* rr_cursor[r]: the next master to consider
  next_downstream,  \* the next downstream txn to allocate
  queue,            \* pending events
  phase,            \* phase of the event being handled
  faulted,          \* the bus returned ComponentFault
  left,             \* requests that may still be issued
  waiting,          \* waiting[m]: m's unanswered requests, in order of arrival
  sent,             \* sent[m]: m's requests that are still on their way
  bypassed,         \* bypassed[r][m]: grants of r while m waited at a FIFO's head
  arbitrated        \* whether the TRANSFER phase at hand has had a wake

bus == <<active, queues, rr_cursor, next_downstream>>
env == <<left, waiting, sent>>
vars == <<bus, queue, phase, faulted, env, bypassed, arbitrated>>

-----------------------------------------------------------------------------
\* Events: a master's request, the arbitration wake, a granted request on a
\* region's port, the target's response, and the bus's response to the master.
ReqEvent(at, p, m, txn, r, write) ==
  [at |-> at, phase |-> p, kind |-> "req", master |-> m, txn |-> txn,
   region |-> r, write |-> write]
WakeEvent(at) == [at |-> at, phase |-> Transfer, kind |-> "wake"]
GrantEvent(r, down, write) ==
  [at |-> 0, phase |-> Transfer, kind |-> "grant", region |-> r, txn |-> down,
   write |-> write]
RespEvent(at, p, r, down, write) ==
  [at |-> at, phase |-> p, kind |-> "resp", region |-> r, txn |-> down,
   write |-> write]
DoneEvent(m, txn) ==
  [at |-> 0, phase |-> Complete, kind |-> "done", master |-> m, txn |-> txn]

Init ==
  /\ active = [r \in Region |-> NoTxn]
  /\ queues = [r \in Region |-> [m \in Master |-> <<>>]]
  /\ rr_cursor = [r \in Region |-> 0]
  /\ next_downstream = 0
  /\ queue = <<>>
  /\ phase = Request
  /\ faulted = FALSE
  /\ left = Budget
  /\ waiting = [m \in Master |-> <<>>]
  /\ sent = [m \in Master |-> {}]
  /\ bypassed = [r \in Region |-> [m \in Master |-> 0]]
  /\ arbitrated = FALSE

InUse(m) == sent[m] \cup {waiting[m][i].txn : i \in DOMAIN waiting[m]}

\* A master issues a request that will arrive after `gap`, in phase p.
Issue(m, txn, r, write, gap, p) ==
  /\ ~faulted
  /\ left > 0
  /\ Conformant => txn \notin InUse(m) /\ r # Empty /\ p = Request
  /\ MayPost(phase, gap, p)
  /\ queue' = Post(queue, ReqEvent(gap, p, m, txn, r, write))
  /\ left' = left - 1
  /\ sent' = [sent EXCEPT ![m] = @ \cup {txn}]
  /\ UNCHANGED <<bus, phase, faulted, waiting, bypassed, arbitrated>>

-----------------------------------------------------------------------------
\* Dispatch of the next event: what every handler has in common.
Delivers(kind) ==
  /\ ~faulted
  /\ queue # <<>>
  /\ Head(queue).kind = kind
  /\ phase' = Head(queue).phase

\* The handler returns ComponentFault: the session stops where it stands.
Fault ==
  /\ faulted' = TRUE
  /\ queue' = Advance(queue)
  /\ UNCHANGED <<bus, env, bypassed, arbitrated>>

\* Mutant: only the FIFOs are searched for the txn.
IsLiveQueued(m, txn) ==
  \E r \in Region : \E i \in DOMAIN queues[r][m] : queues[r][m][i].txn = txn

IsLive(m, txn) ==
  \E r \in Region :
    \/ active[r] # NoTxn /\ active[r].master = m /\ active[r].txn = txn
    \/ \E i \in DOMAIN queues[r][m] : queues[r][m][i].txn = txn

\* Mutant: the newest request of a master goes to the front.
AcceptAtFront(e) ==
  /\ IF e.region = Unmapped
       THEN /\ queue' = Post(Advance(queue), DoneEvent(e.master, e.txn))
            /\ queues' = queues
       ELSE /\ queue' = Post(Advance(queue), WakeEvent(0))
            /\ queues' = [queues EXCEPT ![e.region][e.master] =
                            <<[txn |-> e.txn, write |-> e.write]>> \o @]
  /\ sent' = [sent EXCEPT ![e.master] = @ \ {e.txn}]
  /\ waiting' = [waiting EXCEPT ![e.master] =
                   Append(@, [txn |-> e.txn, region |-> e.region])]
  /\ arbitrated' = FALSE
  /\ UNCHANGED <<active, rr_cursor, next_downstream, faulted, left, bypassed>>

\* The request is queued, and arbitration woken in this tick; or it is answered
\* with an access fault.
Accept(e) ==
  /\ IF e.region = Unmapped
       THEN /\ queue' = Post(Advance(queue), DoneEvent(e.master, e.txn))
            /\ queues' = queues
       ELSE /\ queue' = Post(Advance(queue), WakeEvent(0))
            /\ queues' = [queues EXCEPT ![e.region][e.master] =
                            Append(@, [txn |-> e.txn, write |-> e.write])]
  /\ sent' = [sent EXCEPT ![e.master] = @ \ {e.txn}]
  /\ waiting' = [waiting EXCEPT ![e.master] =
                   Append(@, [txn |-> e.txn, region |-> e.region])]
  /\ arbitrated' = FALSE
  /\ UNCHANGED <<active, rr_cursor, next_downstream, faulted, left, bypassed>>

HandleRequest ==
  LET e == Head(queue)
  IN  /\ Delivers("req")
      /\ IF e.phase # Request \/ IsLive(e.master, e.txn) \/ e.region = Empty
           THEN Fault ELSE Accept(e)

-----------------------------------------------------------------------------
\* Mutant: fixed priority.
SelectLowest(r) ==
  CHOOSE m \in Master : queues[r][m] # <<>> /\ \A k \in 0 .. m - 1 : queues[r][k] = <<>>

\* The first master with a queued request, scanning circularly from the cursor.
Select(r) ==
  LET distance(m) == (m + Masters - rr_cursor[r]) % Masters
      queued == {m \in Master : queues[r][m] # <<>>}
  IN  CHOOSE m \in queued : \A other \in queued : distance(m) <= distance(other)

HasQueued(r) == \E m \in Master : queues[r][m] # <<>>

Grantable == {r \in Region : active[r] = NoTxn /\ HasQueued(r)}

\* Regions are granted in order, so the k-th gets the k-th downstream txn.
DownstreamTxn(r) == next_downstream + Cardinality({s \in Grantable : s < r})

\* Those granted before the downstream txns run out.
Granted == {r \in Grantable : DownstreamTxn(r) < MaxDownstream}

NextCursor(m) == (m + 1) % Masters

\* arbitrate: one grant for every idle region with a queued request; the pass
\* faults at the first region it has no downstream txn for.
HandleWake ==
  LET request(r) == Head(queues[r][Select(r)])
      grants == [i \in 1 .. Cardinality(Granted) |->
                   LET r == CHOOSE s \in Granted :
                              Cardinality({t \in Granted : t <= s}) = i
                   IN  GrantEvent(r, DownstreamTxn(r), request(r).write)]
  IN  /\ Delivers("wake")
      /\ queue' = PostAll(Advance(queue), grants)
      /\ next_downstream' = next_downstream + Cardinality(Granted)
      /\ active' = [r \in Region |->
           IF r \in Granted
             THEN [master |-> Select(r), txn |-> request(r).txn,
                   downstream_txn |-> DownstreamTxn(r), write |-> request(r).write]
             ELSE active[r]]
      /\ queues' = [r \in Region |->
           IF r \in Granted THEN [queues[r] EXCEPT ![Select(r)] = Tail(@)]
           ELSE queues[r]]
      /\ rr_cursor' = [r \in Region |->
           IF r \in Granted THEN NextCursor(Select(r)) ELSE rr_cursor[r]]
      /\ bypassed' = [r \in Region |-> [m \in Master |->
           IF r \notin Granted THEN bypassed[r][m]
           ELSE IF m = Select(r) \/ queues[r][m] = <<>> THEN 0
           ELSE bypassed[r][m] + 1]]
      /\ arbitrated' = TRUE
      /\ faulted' = (\E r \in Grantable : DownstreamTxn(r) >= MaxDownstream)
      /\ UNCHANGED env

-----------------------------------------------------------------------------
\* A target accepts a request; its response follows after a latency, in phase p.
HandleTarget(latency, write, copies, p) ==
  LET e == Head(queue)
  IN  /\ Delivers("grant")
      /\ Conformant => write = e.write /\ copies = 1 /\ p = Complete
      /\ queue' = PostAll(Advance(queue),
                    [i \in 1 .. copies |-> RespEvent(latency, p, e.region, e.txn, write)])
      /\ UNCHANGED <<bus, faulted, env, bypassed, arbitrated>>

\* Mutant: nobody arbitrates again.
RelayWithoutWake(r) ==
  /\ queue' = Post(Advance(queue), DoneEvent(active[r].master, active[r].txn))
  /\ active' = [active EXCEPT ![r] = NoTxn]
  /\ arbitrated' = FALSE
  /\ UNCHANGED <<queues, rr_cursor, next_downstream, faulted, env, bypassed>>

\* response: relayed to the master; the freed region is arbitrated in the next
\* bus cycle if anything is queued for it.
Relay(r) ==
  LET done == Post(Advance(queue), DoneEvent(active[r].master, active[r].txn))
  IN  /\ queue' = IF HasQueued(r) THEN Post(done, WakeEvent(1)) ELSE done
      /\ active' = [active EXCEPT ![r] = NoTxn]
      /\ arbitrated' = FALSE
      /\ UNCHANGED <<queues, rr_cursor, next_downstream, faulted, env, bypassed>>

Matches(e) ==
  /\ active[e.region] # NoTxn
  /\ active[e.region].downstream_txn = e.txn
  /\ active[e.region].write = e.write

HandleResponse ==
  LET e == Head(queue)
  IN  /\ Delivers("resp")
      /\ IF e.phase = Complete /\ Matches(e) THEN Relay(e.region) ELSE Fault

\* The master takes the response to its oldest unanswered request with this txn.
HandleDone ==
  LET e == Head(queue)
  IN  /\ Delivers("done")
      /\ queue' = Advance(queue)
      /\ waiting' = [waiting EXCEPT ![e.master] =
                       RemoveFirstMatch(@, LAMBDA w : w.txn = e.txn)]
      /\ UNCHANGED <<bus, faulted, left, sent, bypassed, arbitrated>>

-----------------------------------------------------------------------------
IssueAny ==
  \E m \in Master, txn \in Txns, r \in Region \cup {Unmapped, Empty},
     write \in Writes, gap \in Gaps, p \in {Request, Complete} :
       Issue(m, txn, r, write, gap, p)

Dispatch ==
  \/ HandleRequest
  \/ HandleWake
  \/ \E latency \in Latencies, write \in BOOLEAN, copies \in {1, 2},
        p \in {Transfer, Complete} : HandleTarget(latency, write, copies, p)
  \/ HandleResponse
  \/ HandleDone

Next == IssueAny \/ Dispatch

\* The driver keeps dispatching while events are pending.
Spec == Init /\ [][Next]_vars /\ WF_vars(Dispatch)

-----------------------------------------------------------------------------
EventKinds == {"req", "wake", "grant", "resp", "done"}

Pending(kind) == {i \in DOMAIN queue : queue[i].kind = kind}

\* Types of the bus's fields.
TypeOK ==
  /\ \A r \in Region :
       active[r] = NoTxn
         \/ active[r] \in [master : Master, txn : Txns,
                           downstream_txn : 0 .. MaxDownstream, write : BOOLEAN]
  /\ queues \in [Region -> [Master -> Seq([txn : Txns, write : BOOLEAN])]]
  /\ rr_cursor \in [Region -> Master]
  /\ next_downstream \in 0 .. MaxDownstream
  /\ \A i \in DOMAIN queue : queue[i].kind \in EventKinds
  /\ faulted \in BOOLEAN

\* A region's active transaction is exactly one event in flight: the granted
\* request or its response, with the downstream txn and kind the bus expects.
ActiveInFlight ==
  \A r \in Region :
    LET inFlight == {i \in Pending("grant") \cup Pending("resp") :
                       queue[i].region = r}
    IN  IF active[r] = NoTxn THEN inFlight = {}
        ELSE \E i \in inFlight : inFlight = {i} /\ Matches(queue[i])

\* Round-robin fairness: while a master waits for a region, the others are
\* granted at most once each.
RoundRobin ==
  \A r \in Region, m \in Master : bypassed[r][m] < Masters

\* After the first arbitration wake of a TRANSFER phase nothing is left to
\* grant: the other wakes of that phase, whatever woke them, change nothing.
FirstWakeGrantsAll == arbitrated /\ ~faulted => Grantable = {}

\* What read_region accepts, on the state of one region.
RegionOk(r) ==
  /\ active[r] # NoTxn => active[r].downstream_txn < next_downstream
  /\ rr_cursor[r] < Masters

\* What `restore` accepts, on the state of the bus.
RestoreOk ==
  LET held(r) == IF active[r] = NoTxn THEN {}
                 ELSE {<<active[r].master, active[r].txn>>}
  IN  /\ \A r \in Region : RegionOk(r)
      /\ \A r, s \in Region :
           /\ r # s => held(r) \cap held(s) = {}
           /\ r # s /\ active[r] # NoTxn /\ active[s] # NoTxn =>
                active[r].downstream_txn # active[s].downstream_txn
           /\ \A m \in Master : \A i \in DOMAIN queues[r][m] :
                /\ <<m, queues[r][m][i].txn>> \notin held(s)
                /\ \A j \in DOMAIN queues[s][m] :
                     queues[r][m][i].txn = queues[s][m][j].txn => r = s /\ i = j

\* Every state of the bus, saved between two events, is accepted by restore: its
\* fields are in range, and (master, txn) pairs and downstream txns are live at
\* most once.
RestoreAccepts == TypeOK /\ RestoreOk

\* Every request that arrived is live in the bus or has its answer on its way,
\* exactly once: nothing is lost, and nothing is answered twice even by a target
\* that answers twice.
AnsweredOnce ==
  ~faulted => \A m \in Master, txn \in Txns :
    LET unanswered == {i \in DOMAIN waiting[m] : waiting[m][i].txn = txn}
        answers == {i \in Pending("done") : queue[i].master = m /\ queue[i].txn = txn}
    IN  Cardinality(unanswered) = Cardinality(answers) + (IF IsLive(m, txn) THEN 1 ELSE 0)

\* What a region holds of a master, oldest first: its active transaction, then its
\* FIFO.
HeldTxns(r, m) ==
  (IF active[r] # NoTxn /\ active[r].master = m THEN <<active[r].txn>> ELSE <<>>)
  \o [i \in DOMAIN queues[r][m] |-> queues[r][m][i].txn]

\* A master's requests to one region are answered in the order they arrived: those
\* the region still holds are the latest that arrived there, in that order.
HeldInOrder ==
  \A r \in Region, m \in Master :
    LET arrived == SelectSeq(waiting[m], LAMBDA w : w.region = r)
    IN  IsSuffix(HeldTxns(r, m), [i \in DOMAIN arrived |-> arrived[i].txn])

=============================================================================
