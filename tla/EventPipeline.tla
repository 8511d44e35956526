---------------------------- MODULE EventPipeline ----------------------------
(***************************************************************************)
(* The market pipeline of orchestrator.py around the SeasonEventQueue:     *)
(* producers (enqueue_event), the event worker, the heartbeat that asks    *)
(* for season handovers, and the market-source switch.                     *)
(*                                                                         *)
(* Producers, worker and switch are coroutines of one event loop: between  *)
(* two awaits a coroutine holds the loop, and the only thing that can      *)
(* interleave with it is the heartbeat's season tick, which runs in a      *)
(* thread.  The states in which a coroutine holds the loop are named by    *)
(* LoopFree.                                                               *)
(***************************************************************************)
EXTENDS SeasonEventQueue

CONSTANTS BatchSize,    \* settings.event_batch_size
          MaxEvents,    \* bound: sequences issued
          MaxSeasons,   \* bound: season handovers
          MaxSwitches   \* bound: market-source switches

ASSUME BoundsAssumption ==
    /\ BatchSize \in Nat \ {0}
    /\ MaxEvents \in Nat /\ MaxSeasons \in Nat /\ MaxSwitches \in Nat

VARIABLES
    eventSequence,  \* _event_sequence
    ppc, item,      \* what each producer is doing, and with which event
    cancelled,      \* producers whose wait has been cancelled
    critical,       \* mints whose Local AI outcome is pending
    wpc, todo, urgent, inFlight,  \* worker; inFlight is _event_batches_in_flight
    hpc, harg,      \* heartbeat season tick; the _event_sequence it read
    lock,           \* holder of _event_lock
    season,         \* handovers so far
    source, fence,  \* source generation; _source_event_boundary_sequence
    origin,         \* history: the source generation of each sequence
    misapplied,     \* history: sequences applied under another source than theirs
    outstanding     \* history: receipts pending when the last idle check began

producerVars == <<eventSequence, ppc, item, cancelled, critical, origin>>
workerVars == <<wpc, todo, urgent, inFlight, misapplied>>
heartbeatVars == <<hpc, harg>>
seasonVars == <<lock, season, source, fence, outstanding>>
vars == <<queueVars, producerVars, workerVars, heartbeatVars, seasonVars>>

Sequences == 1..MaxEvents
NoItem == [priority |-> 0, seq |-> 0, mint |-> CHOOSE m \in Mints : TRUE]

Init ==
    /\ QueueInit
    /\ eventSequence = 0
    /\ ppc = [t \in Tasks |-> "idle"]
    /\ item = [t \in Tasks |-> NoItem]
    /\ cancelled = {}
    /\ critical = {}
    /\ wpc = "top" /\ todo = {} /\ urgent = 0 /\ inFlight = 0
    /\ hpc = "idle" /\ harg = 0
    /\ lock = "free"
    /\ season = 0
    /\ source = 1 /\ fence = 0
    /\ origin = [s \in Sequences |-> 0]
    /\ misapplied = {}
    /\ outstanding = {}

\* No coroutine is between two awaits.
LoopFree ==
    /\ \A t \in Tasks : ppc[t] \notin {"numbered", "admitted"}
    /\ wpc \notin {"got", "prefetch", "done"}

-----------------------------------------------------------------------------
(* enqueue_event *)

\* An event of a mint with a pending outcome is critical; other routes to a
\* priority (positions, orders, learning) are the environment's choice.
Number(t, priority, m) ==
    /\ LoopFree
    /\ ppc[t] = "idle" /\ t \notin cancelled
    /\ lock # "switch"
    /\ eventSequence < MaxEvents
    /\ m \in critical => priority = 0
    /\ eventSequence' = eventSequence + 1
    /\ item' = [item EXCEPT ![t] = [priority |-> priority, seq |-> eventSequence + 1, mint |-> m]]
    /\ origin' = [origin EXCEPT ![eventSequence + 1] = source]
    /\ ppc' = [ppc EXCEPT ![t] = "numbered"]
    /\ UNCHANGED <<queueVars, cancelled, critical, workerVars, heartbeatVars, seasonVars>>

Admit(t) ==
    /\ ppc[t] = "numbered"
    /\ admit(item[t].seq)
    /\ ppc' = [ppc EXCEPT ![t] = "admitted"]
    /\ UNCHANGED <<eventSequence, item, cancelled, critical, origin>>
    /\ UNCHANGED <<workerVars, heartbeatVars, seasonVars>>

Leave(t) ==
    /\ ppc' = [ppc EXCEPT ![t] = "idle"]
    /\ item' = [item EXCEPT ![t] = NoItem]
    /\ UNCHANGED <<eventSequence, critical, origin>>
    /\ UNCHANGED <<workerVars, heartbeatVars, seasonVars>>

Put(t) ==
    /\ ppc[t] = "admitted"
    /\ put_nowait(t, item[t])
    /\ Leave(t) /\ UNCHANGED cancelled

Shed(t) ==
    /\ ppc[t] = "admitted"
    /\ item[t].priority # 0
    /\ Refused(item[t].seq)
    /\ forget(item[t].seq)
    /\ Leave(t) /\ UNCHANGED cancelled

Wait(t) ==
    /\ ppc[t] = "admitted"
    /\ item[t].priority = 0
    /\ put_wait(t, item[t])
    /\ ppc' = [ppc EXCEPT ![t] = "waiting"]
    /\ UNCHANGED <<eventSequence, item, cancelled, critical, origin>>
    /\ UNCHANGED <<workerVars, heartbeatVars, seasonVars>>

\* The woken producer retries; it may have to wait again.
ResumePut(t) ==
    /\ LoopFree
    /\ ppc[t] = "waiting" /\ t \in woken \ cancelled
    /\ put_nowait(t, item[t])
    /\ Leave(t) /\ UNCHANGED cancelled

ResumeWait(t) ==
    /\ LoopFree
    /\ ppc[t] = "waiting" /\ t \in woken \ cancelled
    /\ put_wait(t, item[t])
    /\ UNCHANGED <<producerVars, workerVars, heartbeatVars, seasonVars>>

\* The source task is cancelled: a future that is still pending becomes done,
\* so no later wake-up can reach it.
Cancel(t) ==
    /\ LoopFree
    /\ ppc[t] = "waiting" /\ t \notin cancelled
    /\ cancelled' = cancelled \cup {t}
    /\ putters' = Without(putters, t)
    /\ UNCHANGED <<rows, boundary, pending, dequeued, woken>>
    /\ UNCHANGED <<eventSequence, ppc, item, critical, origin>>
    /\ UNCHANGED <<workerVars, heartbeatVars, seasonVars>>

ResumeCancelled(t) ==
    /\ LoopFree
    /\ ppc[t] = "waiting" /\ t \in cancelled
    /\ put_cancelled(t, item[t])
    /\ cancelled' = cancelled \ {t}
    /\ Leave(t)

-----------------------------------------------------------------------------
(* _ai_pending_registered, called on the event loop; and the outcome's end *)

Promote(m) ==
    /\ LoopFree
    /\ m \notin critical
    /\ promote_mint(m)
    /\ critical' = critical \cup {m}
    /\ UNCHANGED <<eventSequence, ppc, item, cancelled, origin>>
    /\ UNCHANGED <<workerVars, heartbeatVars, seasonVars>>

Settle(m) ==
    /\ LoopFree
    /\ m \in critical
    /\ critical' = critical \ {m}
    /\ UNCHANGED <<queueVars, eventSequence, ppc, item, cancelled, origin>>
    /\ UNCHANGED <<workerVars, heartbeatVars, seasonVars>>

-----------------------------------------------------------------------------
(* _event_worker_loop *)

WorkerRest == UNCHANGED <<producerVars, heartbeatVars, seasonVars>>

\* Loop top: a one-second timeout brings an idle worker back here, so a missed
\* getter wake-up costs a second and getters need no state of their own.
Take(r) ==
    /\ LoopFree
    /\ wpc = "top" /\ ~boundary_ready
    /\ get_nowait(r)
    /\ wpc' = "got"
    /\ todo' = {r.seq}
    /\ UNCHANGED <<urgent, inFlight, misapplied>> /\ WorkerRest

StartBatch ==
    /\ wpc = "got"
    /\ inFlight' = inFlight + 1
    /\ wpc' = "sleep"
    /\ UNCHANGED <<queueVars, todo, urgent, misapplied>> /\ WorkerRest

BeginPrefetch ==
    /\ LoopFree
    /\ wpc = "sleep"
    /\ wpc' = "prefetch"
    /\ UNCHANGED <<queueVars, todo, urgent, inFlight, misapplied>> /\ WorkerRest

Prefetch(r) ==
    /\ wpc = "prefetch"
    /\ Len(dequeued) < BatchSize
    /\ get_nowait(r)
    /\ todo' = todo \cup {r.seq}
    /\ UNCHANGED <<wpc, urgent, inFlight, misapplied>> /\ WorkerRest

EndPrefetch ==
    /\ wpc = "prefetch"
    /\ Len(dequeued) = BatchSize \/ empty
    /\ wpc' = "process"
    /\ UNCHANGED <<queueVars, todo, urgent, inFlight, misapplied>> /\ WorkerRest

\* While candidates remain, a critical arrival of the same boundary jumps in.
TakeUrgent(r) ==
    /\ LoopFree
    /\ wpc = "process" /\ todo # {}
    /\ urgent < BatchSize
    /\ get_nowait_before(r, 1)
    /\ todo' = todo \cup {r.seq}
    /\ urgent' = urgent + 1
    /\ UNCHANGED <<wpc, inFlight, misapplied>> /\ WorkerRest

\* _handle_persisted_event under _event_lock.  The order inside a batch follows
\* priorities that change under it, so any remaining event may be next.
Handle(s) ==
    /\ LoopFree
    /\ wpc = "process" /\ s \in todo
    /\ lock = "free"
    /\ misapplied' = IF s > fence /\ origin[s] # source THEN misapplied \cup {s} ELSE misapplied
    /\ todo' = todo \ {s}
    /\ UNCHANGED <<queueVars, wpc, urgent, inFlight>> /\ WorkerRest

\* Terminal, expired or duplicate event: no handler runs.
Skip(s) ==
    /\ LoopFree
    /\ wpc = "process" /\ s \in todo
    /\ todo' = todo \ {s}
    /\ UNCHANGED <<queueVars, wpc, urgent, inFlight, misapplied>> /\ WorkerRest

\* The batch is complete, or an exception abandons the rest of it.
EndBatch ==
    /\ LoopFree
    /\ wpc = "process"
    /\ todo' = {}
    /\ wpc' = "done"
    /\ UNCHANGED <<queueVars, urgent, inFlight, misapplied>> /\ WorkerRest

TaskDone ==
    /\ wpc = "done"
    /\ task_done
    /\ UNCHANGED workerVars /\ WorkerRest

BatchDone ==
    /\ wpc = "done" /\ dequeued = <<>>
    /\ inFlight' = IF inFlight > 0 THEN inFlight - 1 ELSE 0
    /\ urgent' = 0
    /\ wpc' = "top"
    /\ UNCHANGED <<queueVars, todo, misapplied>> /\ WorkerRest

-----------------------------------------------------------------------------
(* Season handover: _rollover_pipeline_idle, _request_rollover_boundary,    *)
(* _finish_season_boundary and the heartbeat's tick                         *)

QueueIdle == qsize = 0 \/ boundary_ready

FinishRequested ==
    /\ LoopFree
    /\ wpc = "top" /\ boundary_ready
    /\ wpc' = "finish"
    /\ UNCHANGED <<queueVars, todo, urgent, inFlight, misapplied>> /\ WorkerRest

FinishLock ==
    /\ LoopFree
    /\ wpc = "finish" /\ lock = "free"
    /\ lock' = "worker"
    /\ wpc' = "tick"
    /\ outstanding' = pending
    /\ UNCHANGED <<queueVars, todo, urgent, inFlight, misapplied>>
    /\ UNCHANGED <<producerVars, heartbeatVars, season, source, fence>>

\* The tick asks again: idle means hand over, otherwise a boundary is begun.
FinishTick ==
    /\ wpc = "tick"
    /\ IF inFlight = 0 /\ QueueIdle
         THEN wpc' = "roll" /\ UNCHANGED queueVars
         ELSE wpc' = "end" /\ begin_boundary(eventSequence)
    /\ UNCHANGED <<todo, urgent, inFlight, misapplied>> /\ WorkerRest

FinishRoll ==
    /\ wpc = "roll"
    /\ season < MaxSeasons
    /\ season' = season + 1
    /\ wpc' = "end"
    /\ UNCHANGED <<queueVars, todo, urgent, inFlight, misapplied>>
    /\ UNCHANGED <<producerVars, heartbeatVars, lock, source, fence, outstanding>>

\* The finally clause: also after a tick that found nothing to hand over.
FinishEnd ==
    /\ LoopFree
    /\ wpc \in {"tick", "roll", "end"}
    /\ end_boundary
    /\ lock' = "free"
    /\ outstanding' = {}
    /\ wpc' = "top"
    /\ UNCHANGED <<todo, urgent, inFlight, misapplied>>
    /\ UNCHANGED <<producerVars, heartbeatVars, season, source, fence>>

HeartbeatRest == UNCHANGED <<producerVars, workerVars, source, fence>>

HeartbeatLock ==
    /\ LoopFree
    /\ hpc = "idle" /\ lock = "free"
    /\ season < MaxSeasons
    /\ lock' = "heartbeat"
    /\ hpc' = "batches"
    /\ outstanding' = pending
    /\ UNCHANGED <<queueVars, harg, season>> /\ HeartbeatRest

\* Two separate reads: the loop may run between them.
HeartbeatReadBatches ==
    /\ hpc = "batches"
    /\ hpc' = IF inFlight = 0 THEN "queue" ELSE "sequence"
    /\ UNCHANGED <<queueVars, harg, seasonVars>> /\ HeartbeatRest

HeartbeatReadQueue ==
    /\ hpc = "queue"
    /\ hpc' = IF QueueIdle THEN "roll" ELSE "sequence"
    /\ UNCHANGED <<queueVars, harg, seasonVars>> /\ HeartbeatRest

HeartbeatReadSequence ==
    /\ hpc = "sequence"
    /\ harg' = eventSequence
    /\ hpc' = "begin"
    /\ UNCHANGED <<queueVars, seasonVars>> /\ HeartbeatRest

HeartbeatBegin ==
    /\ hpc = "begin"
    /\ begin_boundary(harg)
    /\ harg' = 0
    /\ hpc' = "idle"
    /\ lock' = "free"
    /\ outstanding' = {}
    /\ UNCHANGED season /\ HeartbeatRest

HeartbeatRoll ==
    /\ hpc = "roll"
    /\ season' = season + 1
    /\ hpc' = "idle"
    /\ lock' = "free"
    /\ outstanding' = {}
    /\ UNCHANGED <<queueVars, harg>> /\ HeartbeatRest

-----------------------------------------------------------------------------
(* set_demo_mode *)

SwitchLock ==
    /\ LoopFree
    /\ lock = "free"
    /\ source <= MaxSwitches
    /\ lock' = "switch"
    /\ cancelled' = {t \in Tasks : ppc[t] = "waiting"}
    /\ putters' = <<>>
    /\ UNCHANGED <<rows, boundary, pending, dequeued, woken>>
    /\ UNCHANGED <<eventSequence, ppc, item, critical, origin>>
    /\ UNCHANGED <<workerVars, heartbeatVars, season, source, fence, outstanding>>

\* Mutant: in-flight batches of the old source are not fenced off.
SwitchSourceUnfenced ==
    /\ LoopFree
    /\ lock = "switch"
    /\ \A t \in Tasks : ppc[t] = "idle"
    /\ discard_queued
    /\ source' = source + 1
    /\ lock' = "free"
    /\ UNCHANGED <<producerVars, workerVars, heartbeatVars, season, fence, outstanding>>

SwitchSource ==
    /\ LoopFree
    /\ lock = "switch"
    /\ \A t \in Tasks : ppc[t] = "idle"
    /\ fence' = eventSequence
    /\ discard_queued
    /\ source' = source + 1
    /\ lock' = "free"
    /\ UNCHANGED <<producerVars, workerVars, heartbeatVars, season, outstanding>>

-----------------------------------------------------------------------------
Producer(t) ==
    \/ Admit(t) \/ Put(t) \/ Shed(t) \/ Wait(t)
    \/ ResumePut(t) \/ ResumeWait(t) \/ ResumeCancelled(t)

Worker ==
    \/ \E r \in rows : Take(r) \/ Prefetch(r) \/ TakeUrgent(r)
    \/ StartBatch \/ BeginPrefetch \/ EndPrefetch
    \/ \E s \in todo : Handle(s) \/ Skip(s)
    \/ EndBatch \/ TaskDone \/ BatchDone
    \/ FinishRequested \/ FinishLock \/ FinishTick \/ FinishRoll \/ FinishEnd

Heartbeat ==
    \/ HeartbeatReadBatches \/ HeartbeatReadQueue \/ HeartbeatReadSequence
    \/ HeartbeatBegin \/ HeartbeatRoll

Environment ==
    \/ \E t \in Tasks, p \in Priorities, m \in Mints : Number(t, p, m)
    \/ \E t \in Tasks : Cancel(t)
    \/ \E m \in Mints : Promote(m) \/ Settle(m)
    \/ HeartbeatLock \/ SwitchLock

Next ==
    \/ \E t \in Tasks : Producer(t)
    \/ Worker \/ Heartbeat \/ SwitchSource \/ Environment

Spec == Init /\ [][Next]_vars
-----------------------------------------------------------------------------
(* Properties *)

\* Producers holding an admitted receipt that is not in the queue yet.
Producers == {t \in Tasks : ppc[t] \in {"admitted", "waiting"}}
Held == {item[t].seq : t \in Producers}

\* Every variable keeps its type, and the queue stays inside its capacity
\* (settings.event_queue_max) whoever puts and whatever is parked.
TypeOK ==
    /\ QueueTypeOK
    /\ eventSequence \in 0..MaxEvents
    /\ ppc \in [Tasks -> {"idle", "numbered", "admitted", "waiting"}]
    /\ item \in [Tasks -> Item]
    /\ cancelled \subseteq Tasks /\ critical \subseteq Mints
    /\ wpc \in {"top", "got", "sleep", "prefetch", "process", "done",
                "finish", "tick", "roll", "end"}
    /\ todo \subseteq Nat /\ urgent \in Nat /\ inFlight \in Nat
    /\ hpc \in {"idle", "batches", "queue", "sequence", "begin", "roll"}
    /\ harg \in Nat
    /\ lock \in {"free", "worker", "heartbeat", "switch"}
    /\ season \in Nat /\ source \in Nat /\ fence \in Nat
    /\ origin \in [Sequences -> Nat] /\ misapplied \subseteq Nat
    /\ outstanding \subseteq Nat

\* Every receipt is held exactly once: by a queued row, by the worker's batch or
\* by the producer that still has to put it.  A receipt leaked by shedding,
\* cancellation, discard or task_done would keep a boundary from ever draining;
\* a receipt lost would let a season close over work in progress.
ReceiptsAccounted ==
    /\ pending = Seqs(rows) \cup Dequeued \cup Held
    /\ Seqs(rows) \cap Dequeued = {}
    /\ Held \cap (Seqs(rows) \cup Dequeued) = {}
    /\ \A r, q \in rows : r.seq = q.seq => r = q
    /\ \A i, j \in DOMAIN dequeued : dequeued[i] = dequeued[j] => i = j
    /\ \A t, u \in Producers : item[t].seq = item[u].seq => t = u

\* Parked arrivals never occupy the capacity owed to an old critical producer:
\* once rows are parked, all old producers fit beside what is queued.
ReservedCapacity ==
    (\E r \in rows : r.later = 1) => qsize + Cardinality(WaitingOld) <= MaxSize

\* While a boundary is active the worker holds no event of the next season,
\* whether taken first, prefetched or pulled in as urgent.
OldOnlyDequeued == boundary_active => \A s \in Dequeued : s <= boundary

\* The admission boundary is finite: the work it waits for only shrinks.  A
\* sequence numbered but not yet admitted when the boundary began is part of it.
Owed == {s \in pending : s <= boundary}
          \cup {item[t].seq : t \in {u \in Tasks : ppc[u] = "numbered" /\ item[u].seq <= boundary}}
OwedOnlyShrinks == [][boundary_active /\ boundary' = boundary => Owed' \subseteq Owed]_vars

\* The worker's own handover: nothing at or below its boundary is unfinished.
WorkerHandoverComplete ==
    [][season' # season /\ lock = "worker" /\ boundary_active =>
         \A s \in pending : s > boundary]_vars

\* Once a mint's outcome is pending, its queued ticks leave the queue oldest
\* first: a newer critical tick cannot overtake one queued before promotion.
PromotedInOrder ==
    [][\A r \in rows : r \notin rows' /\ r.seq \in Dequeued' /\ r.mint \in critical =>
         \A s \in rows : s.mint = r.mint /\ s.later = r.later => r.seq <= s.seq]_vars

\* No event of an earlier market source is applied after the source switched,
\* though the worker may be holding it in a batch when the switch happens.
SourceIsolation == misapplied = {}

\* What the season handover is documented to wait for: no receipt that was
\* admitted before its idle check began is still unfinished at the handover.
HandoverAfterAdmitted ==
    [][season' # season => \A s \in outstanding \cap pending : boundary_active /\ s > boundary]_vars

-----------------------------------------------------------------------------
(* Liveness.  Ready coroutines and threads run (weak fairness); _event_lock *)
(* is a FIFO asyncio.Lock, so a waiter that finds it free infinitely often  *)
(* gets it (strong fairness of FinishLock).  Arrivals, cancellations,       *)
(* promotions, heartbeat ticks and source switches are never forced.        *)

Fairness ==
    /\ \A t \in Tasks : WF_vars(Producer(t))
    /\ WF_vars(Worker) /\ SF_vars(FinishLock)
    /\ WF_vars(Heartbeat) /\ WF_vars(SwitchSource)

FairSpec == Spec /\ Fairness

\* A season boundary always drains: the handover cannot hang on a full queue,
\* a parked row or a producer nobody wakes.
BoundaryDrains == boundary_active ~> ~boundary_active

\* A critical producer under backpressure is eventually let in (or cancelled):
\* no wake-up is lost between producers, boundaries and cancellations.
CriticalAdmitted == \A t \in Tasks : ppc[t] = "waiting" ~> ppc[t] # "waiting"

\* Once a season boundary is begun what is owed to the closing season only shrinks, and the
\* worker hands over after all of it, while producers keep adding, waiting and giving up
\* (orchestrator.py 2288-2573, event_queue.py 145-166).
HandoverIsOrdered ==
    /\ OwedOnlyShrinks
    /\ WorkerHandoverComplete
=============================================================================
