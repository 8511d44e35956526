-------------------------- MODULE SeasonEventQueue --------------------------
(***************************************************************************)
(* The bounded priority queue between the market source and the event      *)
(* worker (event_queue.py).  A season boundary freezes the finite set of   *)
(* admitted sequences: rows above it are parked ("later") until the worker *)
(* has completed every sequence at or below it.                            *)
(*                                                                         *)
(* This module holds the queue's state and one operator per method; each   *)
(* runs under the queue's re-entrant lock, so each is one atomic step.     *)
(* EventPipeline composes it with its producers, worker and heartbeat.     *)
(***************************************************************************)
EXTENDS Integers, Sequences, FiniteSets

CONSTANTS Tasks,        \* producer tasks that may wait in put()
          Mints,        \* token identities
          Priorities,   \* 0 is critical and is never shed
          MaxSize       \* settings.event_queue_max

ASSUME MaxSizeAssumption == MaxSize \in Nat \ {0}
ASSUME MintsAssumption == Mints # {}
ASSUME PrioritiesAssumption == Priorities \subseteq Nat /\ 0 \in Priorities

VARIABLES rows,      \* _queue: heap rows, a set because sequences are unique
          boundary,  \* 0 stands for None: sequences start at 1
          pending,   \* _pending_sequences: every admitted, unfinished sequence
          dequeued,  \* _dequeued_sequences
          putters,   \* _putters: tasks whose future is not resolved, in order
          woken      \* tasks whose putter future resolved, not yet resumed

queueVars == <<rows, boundary, pending, dequeued, putters, woken>>

NoBoundary == 0
Item == [priority : Priorities, seq : Nat, mint : Mints]
Row == [later : {0, 1}, priority : Priorities, seq : Nat, mint : Mints]

Seqs(R) == {r.seq : r \in R}
Dequeued == {dequeued[i] : i \in DOMAIN dequeued}

QueueInit ==
    /\ rows = {}
    /\ boundary = NoBoundary
    /\ pending = {}
    /\ dequeued = <<>>
    /\ putters = <<>>
    /\ woken = {}

-----------------------------------------------------------------------------
\* Tuple order of heap rows; the sequence is unique, so events never compare.
Before(r, s) ==
    \/ r.later < s.later
    \/ r.later = s.later /\ r.priority < s.priority
    \/ r.later = s.later /\ r.priority = s.priority /\ r.seq < s.seq

IsHead(r) == r \in rows /\ \A s \in rows \ {r} : Before(r, s)

qsize == Cardinality(rows)
full == qsize >= MaxSize

\* Mutant: parked rows are not hidden from consumers.
emptyIgnoringParked == rows = {}

\* A parked head makes the queue look empty to every consumer.
empty == \A r \in rows : IsHead(r) => r.later = 1

boundary_active == boundary # NoBoundary
\* Mutant: receipts still held by a producer are overlooked.
boundary_readyQueuedOnly ==
    boundary_active /\ \A s \in Seqs(rows) \cup Dequeued : s > boundary
boundary_ready == boundary_active /\ \A s \in pending : s > boundary

\* Old receipts that still have to come through a producer.
WaitingOld == {s \in pending : s <= boundary /\ s \notin Seqs(rows) \cup Dequeued}

\* Mutants: no capacity is reserved; the base class's bound is lost.
RefusedUnreserved(seq) == full
RefusedReserveOnly(seq) ==
    boundary_active /\ seq > boundary /\ qsize >= MaxSize - Cardinality(WaitingOld)

\* put_nowait raises QueueFull: parked arrivals keep clear of the capacity owed
\* to old producers, and nobody passes the base class's bound.
Refused(seq) ==
    \/ /\ boundary_active
       /\ seq > boundary
       /\ LET owed == MaxSize - Cardinality(WaitingOld)
          IN  qsize >= (IF owed > 0 THEN owed ELSE 0)
    \/ full

RowOf(item) ==
    [later    |-> IF boundary_active /\ item.seq > boundary THEN 1 ELSE 0,
     priority |-> item.priority, seq |-> item.seq, mint |-> item.mint]

\* _wakeup_next on the waiting producers P, with W already woken.
Woken(P, W) == IF P = <<>> THEN W ELSE W \cup {Head(P)}
Unwoken(P) == IF P = <<>> THEN P ELSE Tail(P)

\* _putters.remove: a task waits at most once.
Without(P, t) ==
    IF \A i \in DOMAIN P : P[i] # t
      THEN P
      ELSE LET k == CHOOSE i \in DOMAIN P : P[i] = t
           IN  [i \in 1..(Len(P) - 1) |-> IF i < k THEN P[i] ELSE P[i + 1]]

Unpark(R) == {[r EXCEPT !.later = 0] : r \in R}

-----------------------------------------------------------------------------
admit(seq) ==
    /\ pending' = pending \cup {seq}
    /\ UNCHANGED <<rows, boundary, dequeued, putters, woken>>

\* put_nowait, accepted, by task t (which is resuming from a wait if it is woken).
put_nowait(t, item) ==
    /\ ~Refused(item.seq)
    /\ rows' = rows \cup {RowOf(item)}
    /\ pending' = pending \cup {item.seq}
    /\ woken' = woken \ {t}
    /\ UNCHANGED <<boundary, dequeued, putters>>

\* A refused low-priority arrival is forgotten by enqueue_event.
forget(seq) ==
    /\ pending' = pending \ {seq}
    /\ UNCHANGED <<rows, boundary, dequeued, putters, woken>>

\* put: refused, so pass the wake-up on when there is room, then queue behind it.
put_wait(t, item) ==
    /\ Refused(item.seq)
    /\ LET W == woken \ {t}
       IN  IF full THEN /\ putters' = Append(putters, t)
                        /\ woken' = W
                   ELSE /\ putters' = Append(Unwoken(putters), t)
                        /\ woken' = Woken(putters, W)
    /\ UNCHANGED <<rows, boundary, pending, dequeued>>

\* Mutants: the receipt is kept; a delivered wake-up dies with its task.
put_cancelledLeaky(t, item) ==
    /\ putters' = Without(putters, t)
    /\ woken' = woken \ {t}
    /\ UNCHANGED <<rows, boundary, pending, dequeued>>

put_cancelledSilent(t, item) ==
    /\ putters' = Without(putters, t)
    /\ woken' = woken \ {t}
    /\ pending' = pending \ {item.seq}
    /\ UNCHANGED <<rows, boundary, dequeued>>

\* put: the wait was cancelled.  A wake-up already delivered to this task is
\* passed on; enqueue_event then forgets the receipt.
put_cancelled(t, item) ==
    /\ IF t \in woken /\ ~full
         THEN /\ putters' = Unwoken(putters)
              /\ woken' = Woken(putters, woken \ {t})
         ELSE /\ putters' = Without(putters, t)
              /\ woken' = woken \ {t}
    /\ pending' = pending \ {item.seq}
    /\ UNCHANGED <<rows, boundary, dequeued>>

\* get_nowait: pop the head, keep its receipt, wake one waiting producer.
get_nowait(r) ==
    /\ ~empty
    /\ IsHead(r)
    /\ rows' = rows \ {r}
    /\ dequeued' = Append(dequeued, r.seq)
    /\ putters' = Unwoken(putters)
    /\ woken' = Woken(putters, woken)
    /\ UNCHANGED <<boundary, pending>>

get_nowait_before(r, priority) == r.priority < priority /\ get_nowait(r)

\* Mutant: queued rows keep the priority they were admitted with.
promote_mintNewOnly(m) == UNCHANGED queueVars

promote_mint(m) ==
    /\ rows' = {IF r.mint = m THEN [r EXCEPT !.priority = 0] ELSE r : r \in rows}
    /\ UNCHANGED <<boundary, pending, dequeued, putters, woken>>

task_done ==
    /\ dequeued # <<>>
    /\ pending' = pending \ {Head(dequeued)}
    /\ dequeued' = Tail(dequeued)
    /\ UNCHANGED <<rows, boundary, putters, woken>>

IsMax(b, S) == b \in S /\ \A s \in S : s <= b

\* Mutant: off by one.
begin_boundaryPastEnd(seq) ==
    IF boundary_active
      THEN UNCHANGED queueVars
      ELSE /\ \E b \in pending \cup {seq} : IsMax(b, pending \cup {seq}) /\ boundary' = b + 1
           /\ rows' = Unpark(rows)
           /\ UNCHANGED <<pending, dequeued, putters, woken>>

begin_boundary(seq) ==
    IF boundary_active
      THEN UNCHANGED queueVars
      ELSE /\ \E b \in pending \cup {seq} : IsMax(b, pending \cup {seq}) /\ boundary' = b
           /\ rows' = Unpark(rows)
           /\ UNCHANGED <<pending, dequeued, putters, woken>>

end_boundary ==
    /\ boundary' = NoBoundary
    /\ rows' = Unpark(rows)
    /\ putters' = Unwoken(putters)
    /\ woken' = Woken(putters, woken)
    /\ UNCHANGED <<pending, dequeued>>

discard_queued ==
    /\ pending' = pending \ Seqs(rows)
    /\ rows' = {}
    /\ boundary' = NoBoundary
    /\ woken' = woken \cup {putters[i] : i \in DOMAIN putters}
    /\ putters' = <<>>
    /\ UNCHANGED dequeued

-----------------------------------------------------------------------------
\* The queue's part of the type invariant, its capacity included.
QueueTypeOK ==
    /\ rows \in SUBSET Row /\ IsFiniteSet(rows)
    /\ qsize <= MaxSize
    /\ boundary \in Nat
    /\ pending \in SUBSET Nat
    /\ dequeued \in Seq(Nat)
    /\ putters \in Seq(Tasks)
    /\ woken \in SUBSET Tasks
=============================================================================
