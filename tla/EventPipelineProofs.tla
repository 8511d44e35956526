------------------------- MODULE EventPipelineProofs -------------------------
(***************************************************************************)
(* Machine-checked facts about EventPipeline, for every set of producers,  *)
(* mints and priorities and every capacity, batch size and bound.          *)
(***************************************************************************)
EXTENDS EventPipeline, FiniteSetTheorems, SequenceTheorems, TLAPS

-----------------------------------------------------------------------------
(* The deque of waiting producers *)

\* Waking the next producer keeps the deque a sequence of tasks.
LEMMA WakeType ==
    ASSUME NEW P \in Seq(Tasks), NEW W \in SUBSET Tasks
    PROVE  /\ Unwoken(P) \in Seq(Tasks)
           /\ Woken(P, W) \in SUBSET Tasks
BY HeadTailProperties DEF Unwoken, Woken

\* Removing a cancelled producer keeps the deque a sequence of tasks.
LEMMA WithoutType ==
    ASSUME NEW P \in Seq(Tasks), NEW t \in Tasks
    PROVE  Without(P, t) \in Seq(Tasks)
<1>1. CASE \A i \in DOMAIN P : P[i] # t
  BY <1>1 DEF Without
<1>2. CASE ~ \A i \in DOMAIN P : P[i] # t
  <2> DEFINE k == CHOOSE i \in DOMAIN P : P[i] = t
             f == [i \in 1..(Len(P) - 1) |-> IF i < k THEN P[i] ELSE P[i + 1]]
  <2>1. k \in DOMAIN P
    BY <1>2
  <2>2. Len(P) \in Nat /\ DOMAIN P = 1..Len(P) /\ \A i \in 1..Len(P) : P[i] \in Tasks
    BY LenProperties, ElementOfSeq
  <2>3. Len(P) - 1 \in Nat
    BY <2>1, <2>2
  <2>4. f \in [1..(Len(P) - 1) -> Tasks]
    BY <2>2, <2>3
  <2>5. f \in Seq(Tasks)
    BY <2>3, <2>4, SeqDef
  <2>6. Without(P, t) = f
    BY <1>2 DEF Without
  <2> QED BY <2>5, <2>6
<1> QED BY <1>1, <1>2

-----------------------------------------------------------------------------
(* Every method of the queue keeps the queue's types and its capacity *)

\* put_nowait: an accepted row finds room.
LEMMA PutType ==
    ASSUME QueueTypeOK, NEW t \in Tasks, NEW it \in Item, put_nowait(t, it)
    PROVE  QueueTypeOK'
<1>1. RowOf(it) \in Row
  BY DEF RowOf, Item, Row
<1>2. IsFiniteSet(rows') /\ qsize' <= qsize + 1
  <2>1. rows' = rows \cup {RowOf(it)} /\ IsFiniteSet(rows) /\ qsize \in Nat
    BY FS_CardinalityType DEF put_nowait, QueueTypeOK, qsize
    <2>2. IsFiniteSet(rows \cup {RowOf(it)})
    BY <2>1, FS_AddElement
  <2>3. \/ Cardinality(rows \cup {RowOf(it)}) = Cardinality(rows)
        \/ Cardinality(rows \cup {RowOf(it)}) = Cardinality(rows) + 1
    BY <2>1, FS_AddElement
  <2> QED BY <2>1, <2>2, <2>3 DEF qsize
<1>3. qsize \in Nat /\ qsize < MaxSize
  BY FS_CardinalityType, MaxSizeAssumption DEF put_nowait, QueueTypeOK, qsize, Refused, full
<1>4. qsize' \in Nat
  BY <1>2, FS_CardinalityType DEF qsize
<1>5. qsize' <= MaxSize
  BY <1>2, <1>3, <1>4, MaxSizeAssumption
<1>6. it.seq \in Nat
  BY DEF Item
<1> QED BY <1>1, <1>2, <1>5, <1>6 DEF put_nowait, QueueTypeOK

\* put, waiting: only the deque of producers and the woken set change.
LEMMA WaitType ==
    ASSUME QueueTypeOK, NEW t \in Tasks, NEW it \in Item, put_wait(t, it)
    PROVE  QueueTypeOK'
<1> DEFINE W == woken \ {t}
<1>1. W \in SUBSET Tasks /\ putters \in Seq(Tasks)
  BY DEF QueueTypeOK
<1>2. Unwoken(putters) \in Seq(Tasks) /\ Woken(putters, W) \in SUBSET Tasks
  BY <1>1, WakeType
<1>3. Append(putters, t) \in Seq(Tasks) /\ Append(Unwoken(putters), t) \in Seq(Tasks)
  BY <1>1, <1>2, AppendProperties
<1>4. putters' \in Seq(Tasks) /\ woken' \in SUBSET Tasks
  <2>1. CASE full
    BY <2>1, <1>1, <1>3 DEF put_wait
  <2>2. CASE ~full
    BY <2>2, <1>2, <1>3 DEF put_wait
  <2> QED BY <2>1, <2>2
<1>5. qsize' = qsize
  BY DEF put_wait, qsize
<1> QED BY <1>4, <1>5 DEF put_wait, QueueTypeOK

\* put, cancelled: the wake-up may move on; the receipt is forgotten.
LEMMA CancelledType ==
    ASSUME QueueTypeOK, NEW t \in Tasks, NEW it \in Item, put_cancelled(t, it)
    PROVE  QueueTypeOK'
<1> DEFINE W == woken \ {t}
<1>1. W \in SUBSET Tasks /\ putters \in Seq(Tasks)
  BY DEF QueueTypeOK
<1>2. Unwoken(putters) \in Seq(Tasks) /\ Woken(putters, W) \in SUBSET Tasks
  BY <1>1, WakeType
<1>3. Without(putters, t) \in Seq(Tasks)
  BY <1>1, WithoutType
<1>4. putters' \in Seq(Tasks) /\ woken' \in SUBSET Tasks
  BY <1>1, <1>2, <1>3 DEF put_cancelled
<1>5. qsize' = qsize
  BY DEF put_cancelled, qsize
<1> QED BY <1>4, <1>5 DEF put_cancelled, QueueTypeOK

\* get_nowait: a row becomes a receipt of the worker.
LEMMA GetType ==
    ASSUME QueueTypeOK, NEW r \in rows, get_nowait(r)
    PROVE  QueueTypeOK'
<1>1. Unwoken(putters) \in Seq(Tasks) /\ Woken(putters, woken) \in SUBSET Tasks
  BY WakeType DEF QueueTypeOK
<1>2. IsFiniteSet(rows') /\ Cardinality(rows') <= Cardinality(rows)
  BY FS_Subset DEF QueueTypeOK, get_nowait
<1>3. qsize' <= MaxSize
  BY <1>2, FS_CardinalityType, MaxSizeAssumption DEF QueueTypeOK, qsize
<1>4. r.seq \in Nat
  BY DEF QueueTypeOK, Row
<1>5. dequeued' \in Seq(Nat)
  BY <1>4, AppendProperties DEF QueueTypeOK, get_nowait
<1> QED BY <1>1, <1>2, <1>3, <1>5 DEF get_nowait, QueueTypeOK

\* Rewriting rows one by one (promotion, unparking) adds none.
LEMMA RewriteType ==
    ASSUME QueueTypeOK, NEW f, f \in [rows -> Row]
    PROVE  LET R == {f[r] : r \in rows}
           IN  R \in SUBSET Row /\ IsFiniteSet(R) /\ Cardinality(R) <= MaxSize
<1> DEFINE R == {f[r] : r \in rows}
<1>1. R \in SUBSET Row
  OBVIOUS
<1>2. f \in Surjection(rows, R)
  BY DEF Surjection
<1>3. IsFiniteSet(R) /\ Cardinality(R) <= Cardinality(rows)
  BY <1>2, FS_Surjection DEF QueueTypeOK
<1>4. Cardinality(R) \in Nat /\ Cardinality(rows) \in Nat
  BY <1>3, FS_CardinalityType DEF QueueTypeOK
<1> QED BY <1>1, <1>3, <1>4, MaxSizeAssumption DEF QueueTypeOK, qsize

\* promote_mint keeps every row's place in the bound.
LEMMA PromoteType ==
    ASSUME QueueTypeOK, NEW m \in Mints, promote_mint(m)
    PROVE  QueueTypeOK'
<1> DEFINE f == [r \in rows |-> IF r.mint = m THEN [r EXCEPT !.priority = 0] ELSE r]
<1>1. f \in [rows -> Row]
  BY PrioritiesAssumption DEF QueueTypeOK, Row
<1>2. rows' = {f[r] : r \in rows}
  BY DEF promote_mint
<1>3. rows' \in SUBSET Row /\ IsFiniteSet(rows') /\ Cardinality(rows') <= MaxSize
  BY <1>1, <1>2, RewriteType
<1> QED BY <1>3 DEF QueueTypeOK, promote_mint, qsize

\* Unparking keeps every row's place in the bound.
LEMMA UnparkType ==
    ASSUME QueueTypeOK
    PROVE  LET R == Unpark(rows)
           IN  R \in SUBSET Row /\ IsFiniteSet(R) /\ Cardinality(R) <= MaxSize
<1> DEFINE f == [r \in rows |-> [r EXCEPT !.later = 0]]
<1>1. f \in [rows -> Row]
  BY DEF QueueTypeOK, Row
<1>2. Unpark(rows) = {f[r] : r \in rows}
  BY DEF Unpark
<1> QED BY <1>1, <1>2, RewriteType

\* begin_boundary and end_boundary: rows are unparked, nothing else is added.
LEMMA BoundaryType ==
    ASSUME QueueTypeOK,
           (\E seq \in Nat : begin_boundary(seq)) \/ end_boundary
    PROVE  QueueTypeOK'
<1>1. Unpark(rows) \in SUBSET Row /\ IsFiniteSet(Unpark(rows)) /\ Cardinality(Unpark(rows)) <= MaxSize
  BY UnparkType
<1>2. Unwoken(putters) \in Seq(Tasks) /\ Woken(putters, woken) \in SUBSET Tasks
  BY WakeType DEF QueueTypeOK
<1>3. CASE end_boundary
  BY <1>1, <1>2, <1>3 DEF end_boundary, QueueTypeOK, qsize, NoBoundary
<1>4. CASE \E seq \in Nat : begin_boundary(seq)
  <2> PICK seq \in Nat : begin_boundary(seq)
    BY <1>4
  <2>1. CASE boundary_active
    BY <2>1 DEF begin_boundary, queueVars, QueueTypeOK, qsize
  <2>2. CASE ~boundary_active
    <3>1. boundary' \in Nat
      BY <2>2 DEF begin_boundary, QueueTypeOK
    <3> QED BY <1>1, <2>2, <3>1 DEF begin_boundary, QueueTypeOK, qsize
  <2> QED BY <2>1, <2>2
<1> QED BY <1>3, <1>4

\* task_done pops one receipt.
LEMMA TaskDoneType ==
    ASSUME QueueTypeOK, task_done
    PROVE  QueueTypeOK'
<1>1. dequeued' \in Seq(Nat)
  BY HeadTailProperties DEF task_done, QueueTypeOK
<1> QED BY <1>1 DEF task_done, QueueTypeOK, qsize

\* discard_queued empties the queue and wakes every waiting producer.
LEMMA DiscardType ==
    ASSUME QueueTypeOK, discard_queued
    PROVE  QueueTypeOK'
<1>1. IsFiniteSet(rows') /\ qsize' = 0
  BY FS_EmptySet DEF discard_queued, qsize
<1>2. woken' \in SUBSET Tasks
  BY ElementOfSeq, LenProperties DEF discard_queued, QueueTypeOK
<1>3. putters' \in Seq(Tasks)
  BY EmptySeq DEF discard_queued
<1> QED BY <1>1, <1>2, <1>3, MaxSizeAssumption DEF discard_queued, QueueTypeOK, NoBoundary

\* Steps that leave the queue alone keep its types.
LEMMA UnchangedType ==
    ASSUME QueueTypeOK, UNCHANGED queueVars
    PROVE  QueueTypeOK'
BY DEF QueueTypeOK, queueVars, qsize

\* admit and forget only edit the set of receipts.
LEMMA ReceiptType ==
    ASSUME QueueTypeOK, NEW seq \in Nat, admit(seq) \/ forget(seq)
    PROVE  QueueTypeOK'
BY DEF QueueTypeOK, admit, forget, qsize

-----------------------------------------------------------------------------
(* Type correctness *)

\* The initial state is well typed.
LEMMA InitType == Init => TypeOK
<1> SUFFICES ASSUME Init PROVE TypeOK
  OBVIOUS
<1>1. QueueTypeOK
  BY FS_EmptySet, EmptySeq, MaxSizeAssumption DEF Init, QueueInit, QueueTypeOK, qsize, NoBoundary
<1>2. NoItem \in Item
  BY MintsAssumption, PrioritiesAssumption DEF NoItem, Item
<1> QED BY <1>1, <1>2, BoundsAssumption DEF Init, TypeOK, Sequences

\* Every step keeps every type.
LEMMA StepType == TypeOK /\ [Next]_vars => TypeOK'
<1> SUFFICES ASSUME TypeOK, [Next]_vars PROVE TypeOK'
  OBVIOUS
<1> USE DEF TypeOK, vars, producerVars, workerVars, heartbeatVars, seasonVars,
            WorkerRest, HeartbeatRest
<1>0. NoItem \in Item
  BY MintsAssumption, PrioritiesAssumption DEF NoItem, Item
<1>i. \A t \in Tasks : item[t] \in Item /\ item[t].seq \in Nat
  BY DEF Item
<1>1. CASE \E t \in Tasks, p \in Priorities, m \in Mints : Number(t, p, m)
  <2> PICK t \in Tasks, p \in Priorities, m \in Mints : Number(t, p, m)
    BY <1>1
  <2>1. QueueTypeOK'
    BY UnchangedType DEF Number
  <2>2. eventSequence + 1 \in Sequences
    BY BoundsAssumption DEF Number, Sequences
  <2>3. [priority |-> p, seq |-> eventSequence + 1, mint |-> m] \in Item
    BY DEF Item
  <2> QED BY <2>1, <2>2, <2>3, BoundsAssumption DEF Number, Sequences
<1>2. ASSUME NEW t \in Tasks, Producer(t) PROVE TypeOK'
  <2>1. CASE Admit(t)
    <3>1. QueueTypeOK'
      BY <2>1, <1>i, ReceiptType DEF Admit
    <3> QED BY <2>1, <3>1 DEF Admit
  <2>2. CASE Put(t) \/ ResumePut(t)
    <3>1. QueueTypeOK'
      BY <2>2, <1>i, PutType DEF Put, ResumePut
    <3> QED BY <2>2, <3>1, <1>0 DEF Put, ResumePut, Leave
  <2>3. CASE Shed(t)
    <3>1. QueueTypeOK'
      BY <2>3, <1>i, ReceiptType DEF Shed
    <3> QED BY <2>3, <3>1, <1>0 DEF Shed, Leave
  <2>4. CASE Wait(t) \/ ResumeWait(t)
    <3>1. QueueTypeOK'
      BY <2>4, <1>i, WaitType DEF Wait, ResumeWait
    <3> QED BY <2>4, <3>1 DEF Wait, ResumeWait
  <2>5. CASE ResumeCancelled(t)
    <3>1. QueueTypeOK'
      BY <2>5, <1>i, CancelledType DEF ResumeCancelled
    <3> QED BY <2>5, <3>1, <1>0 DEF ResumeCancelled, Leave
  <2> QED BY <1>2, <2>1, <2>2, <2>3, <2>4, <2>5 DEF Producer
<1>3. ASSUME NEW t \in Tasks, Cancel(t) PROVE TypeOK'
  <2>1. Without(putters, t) \in Seq(Tasks)
    BY WithoutType DEF QueueTypeOK
  <2>2. QueueTypeOK'
    BY <1>3, <2>1 DEF Cancel, QueueTypeOK, qsize
  <2> QED BY <1>3, <2>2 DEF Cancel
<1>4. ASSUME NEW m \in Mints, Promote(m) \/ Settle(m) PROVE TypeOK'
  <2>1. CASE Promote(m)
    <3>1. QueueTypeOK'
      BY <2>1, PromoteType DEF Promote
    <3> QED BY <2>1, <3>1 DEF Promote
  <2>2. CASE Settle(m)
    <3>1. QueueTypeOK'
      BY <2>2, UnchangedType DEF Settle
    <3> QED BY <2>2, <3>1 DEF Settle
  <2> QED BY <1>4, <2>1, <2>2
<1>5. ASSUME NEW r \in rows, Take(r) \/ Prefetch(r) \/ TakeUrgent(r) PROVE TypeOK'
  <2>1. get_nowait(r)
    BY <1>5 DEF Take, Prefetch, TakeUrgent, get_nowait_before
  <2>2. QueueTypeOK'
    BY <2>1, GetType
  <2>3. r.seq \in Nat
    BY DEF QueueTypeOK, Row
  <2>a1. CASE Take(r)
    BY <2>a1, <2>2, <2>3 DEF Take
  <2>a2. CASE Prefetch(r)
    BY <2>a2, <2>2, <2>3 DEF Prefetch
  <2>a3. CASE TakeUrgent(r)
    <3>1. todo' = todo \cup {r.seq} /\ urgent' = urgent + 1
      BY <2>a3, Zenon DEF TakeUrgent
    <3>2. todo \subseteq Nat /\ urgent \in Nat
      OBVIOUS
    <3>3. urgent' \in Nat
      BY <3>1, <3>2
    <3>4. todo' \subseteq Nat
      BY <3>1, <3>2, <2>3
    <3>5. UNCHANGED <<producerVars, heartbeatVars, seasonVars, wpc, inFlight, misapplied>>
      BY <2>a3 DEF TakeUrgent
    <3> QED BY <2>2, <3>3, <3>4, <3>5
  <2> QED BY <1>5, <2>a1, <2>a2, <2>a3
<1>6. ASSUME NEW s \in todo, Handle(s) \/ Skip(s) PROVE TypeOK'
  <2>1. QueueTypeOK'
    BY <1>6, UnchangedType DEF Handle, Skip
  <2> QED BY <1>6, <2>1 DEF Handle, Skip
<1>7. CASE \/ StartBatch \/ BeginPrefetch \/ EndPrefetch \/ EndBatch \/ BatchDone
           \/ FinishRequested \/ FinishLock \/ FinishRoll
  <2>1. QueueTypeOK'
    BY <1>7, UnchangedType DEF StartBatch, BeginPrefetch, EndPrefetch, EndBatch, BatchDone,
                               FinishRequested, FinishLock, FinishRoll
  <2>2. pending \subseteq Nat
    BY DEF QueueTypeOK
  <2>a1. CASE StartBatch
    BY <2>a1, <2>1, <2>2 DEF StartBatch
  <2>a2. CASE BeginPrefetch
    BY <2>a2, <2>1, <2>2 DEF BeginPrefetch
  <2>a3. CASE EndPrefetch
    BY <2>a3, <2>1, <2>2 DEF EndPrefetch
  <2>a4. CASE EndBatch
    BY <2>a4, <2>1, <2>2 DEF EndBatch
  <2>a5. CASE BatchDone
    BY <2>a5, <2>1, <2>2 DEF BatchDone
  <2>a6. CASE FinishRequested
    BY <2>a6, <2>1, <2>2 DEF FinishRequested
  <2>a7. CASE FinishLock
    BY <2>a7, <2>1, <2>2 DEF FinishLock
  <2>a8. CASE FinishRoll
    BY <2>a8, <2>1, <2>2 DEF FinishRoll
  <2> QED BY <1>7, <2>a1, <2>a2, <2>a3, <2>a4, <2>a5, <2>a6, <2>a7, <2>a8
<1>8. CASE TaskDone
  <2>1. QueueTypeOK'
    BY <1>8, TaskDoneType DEF TaskDone
  <2> QED BY <1>8, <2>1 DEF TaskDone
<1>9. CASE FinishTick
  <2>1. QueueTypeOK'
    BY <1>9, UnchangedType, BoundaryType DEF FinishTick
  <2> QED BY <1>9, <2>1 DEF FinishTick
<1>10. CASE FinishEnd
  <2>1. QueueTypeOK'
    BY <1>10, BoundaryType DEF FinishEnd
  <2> QED BY <1>10, <2>1 DEF FinishEnd
<1>11. CASE \/ HeartbeatLock \/ HeartbeatReadBatches \/ HeartbeatReadQueue
            \/ HeartbeatReadSequence \/ HeartbeatRoll
  <2>1. QueueTypeOK'
    BY <1>11, UnchangedType DEF HeartbeatLock, HeartbeatReadBatches, HeartbeatReadQueue,
                                HeartbeatReadSequence, HeartbeatRoll
  <2>2. pending \subseteq Nat
    BY DEF QueueTypeOK
  <2>a1. CASE HeartbeatLock
    BY <2>a1, <2>1, <2>2 DEF HeartbeatLock
  <2>a2. CASE HeartbeatReadBatches
    BY <2>a2, <2>1, <2>2 DEF HeartbeatReadBatches
  <2>a3. CASE HeartbeatReadQueue
    BY <2>a3, <2>1, <2>2 DEF HeartbeatReadQueue
  <2>a4. CASE HeartbeatReadSequence
    BY <2>a4, <2>1, <2>2 DEF HeartbeatReadSequence
  <2>a5. CASE HeartbeatRoll
    BY <2>a5, <2>1, <2>2 DEF HeartbeatRoll
  <2> QED BY <1>11, <2>a1, <2>a2, <2>a3, <2>a4, <2>a5
<1>12. CASE HeartbeatBegin
  <2>1. QueueTypeOK'
    BY <1>12, BoundaryType DEF HeartbeatBegin
  <2> QED BY <1>12, <2>1 DEF HeartbeatBegin
<1>13. CASE SwitchLock
  <2>1. QueueTypeOK'
    BY <1>13, EmptySeq DEF SwitchLock, QueueTypeOK, qsize
  <2> QED BY <1>13, <2>1 DEF SwitchLock
<1>14. CASE SwitchSource
  <2>1. QueueTypeOK'
    BY <1>14, DiscardType DEF SwitchSource
  <2> QED BY <1>14, <2>1 DEF SwitchSource
<1>15. CASE UNCHANGED vars
  <2>1. QueueTypeOK'
    BY <1>15, UnchangedType
  <2> QED BY <1>15, <2>1
<1> QED BY <1>1, <1>2, <1>3, <1>4, <1>5, <1>6, <1>7, <1>8, <1>9, <1>10, <1>11, <1>12,
           <1>13, <1>14, <1>15 DEF Next, Worker, Heartbeat, Environment

\* The pipeline is type correct: in particular the queue never holds more than
\* MaxSize rows, for any number of producers and any interleaving.
THEOREM PipelineTypeCorrect == Spec => []TypeOK
BY InitType, StepType, PTL DEF Spec

-----------------------------------------------------------------------------
(* Receipts and the boundary.  ReceiptsAccounted and OldOnlyDequeued are not *)
(* inductive alone: a producer needs a sequence nobody else holds, and the   *)
(* parked flag must say exactly which rows lie beyond the boundary.          *)

\* Sequences are issued once and a numbered producer is not admitted yet.
FreshSequences ==
    /\ \A s \in pending : s <= eventSequence
    /\ \A t \in Tasks : ppc[t] # "idle" => item[t].seq <= eventSequence
    /\ \A t \in Tasks : ppc[t] = "numbered" => item[t].seq \notin pending
    /\ \A t, u \in Tasks : /\ ppc[t] # "idle" /\ ppc[u] # "idle"
                            /\ item[t].seq = item[u].seq
                            => t = u

\* A row is parked exactly when it lies beyond the active boundary.
ParkedBeyond == \A r \in rows : r.later = 1 <=> boundary_active /\ r.seq > boundary

ReceiptInv == ReceiptsAccounted /\ FreshSequences /\ ParkedBeyond /\ OldOnlyDequeued

receiptVars == <<rows, boundary, pending, dequeued, eventSequence, ppc, item>>

\* Appending a new receipt to the deque.
LEMMA AppendReceipt ==
    ASSUME NEW d \in Seq(Nat), NEW x \in Nat,
           \A i \in DOMAIN d : d[i] # x,
           \A i, j \in DOMAIN d : d[i] = d[j] => i = j
    PROVE  LET e == Append(d, x)
           IN  /\ {e[i] : i \in DOMAIN e} = {d[i] : i \in DOMAIN d} \cup {x}
               /\ \A i, j \in DOMAIN e : e[i] = e[j] => i = j
<1> DEFINE e == Append(d, x)
<1>1. /\ Len(d) \in Nat /\ DOMAIN d = 1..Len(d)
      /\ DOMAIN e = 1..(Len(d) + 1)
      /\ \A i \in 1..Len(d) : e[i] = d[i]
      /\ e[Len(d) + 1] = x
  BY AppendProperties, LenProperties
<1> HIDE DEF e
<1>2. \A i \in DOMAIN e : i \in DOMAIN d \/ i = Len(d) + 1
  BY <1>1
<1>3. {e[i] : i \in DOMAIN e} = {d[i] : i \in DOMAIN d} \cup {x}
  <2>1. ASSUME NEW i \in DOMAIN e PROVE e[i] \in {d[k] : k \in DOMAIN d} \cup {x}
    BY <1>1, <1>2
  <2>2. ASSUME NEW i \in DOMAIN d PROVE i \in DOMAIN e /\ d[i] = e[i]
    BY <1>1
  <2>3. Len(d) + 1 \in DOMAIN e
    BY <1>1
  <2> QED BY <1>1, <2>1, <2>2, <2>3
<1>4. \A i, j \in DOMAIN e : e[i] = e[j] => i = j
  BY <1>1, <1>2
<1> QED BY <1>3, <1>4 DEF e

\* Popping the oldest receipt from the deque.
LEMMA PopReceipt ==
    ASSUME NEW d \in Seq(Nat), d # <<>>,
           \A i, j \in DOMAIN d : d[i] = d[j] => i = j
    PROVE  LET e == Tail(d)
           IN  /\ {e[i] : i \in DOMAIN e} = {d[i] : i \in DOMAIN d} \ {Head(d)}
               /\ Head(d) \in {d[i] : i \in DOMAIN d}
               /\ \A i, j \in DOMAIN e : e[i] = e[j] => i = j
<1> DEFINE e == Tail(d)
<1>1. /\ Len(d) \in Nat \ {0} /\ DOMAIN d = 1..Len(d)
      /\ DOMAIN e = 1..(Len(d) - 1)
      /\ \A i \in 1..(Len(d) - 1) : e[i] = d[i + 1]
      /\ Head(d) = d[1]
  BY HeadTailProperties, LenProperties, EmptySeq
<1> HIDE DEF e
<1>2. ASSUME NEW i \in DOMAIN e PROVE i + 1 \in DOMAIN d /\ i + 1 # 1 /\ e[i] = d[i + 1]
  BY <1>1
<1>3. ASSUME NEW i \in DOMAIN d, i # 1 PROVE i - 1 \in DOMAIN e /\ e[i - 1] = d[i]
  BY <1>1, <1>3
<1>4. 1 \in DOMAIN d
  BY <1>1
<1>5. {e[i] : i \in DOMAIN e} = {d[i] : i \in DOMAIN d} \ {Head(d)}
  <2>1. ASSUME NEW i \in DOMAIN e PROVE e[i] \in {d[k] : k \in DOMAIN d} /\ e[i] # Head(d)
    BY <1>1, <1>2, <1>4
  <2>2. ASSUME NEW i \in DOMAIN d, d[i] # Head(d) PROVE d[i] \in {e[k] : k \in DOMAIN e}
    BY <1>1, <1>3, <2>2
  <2> QED BY <2>1, <2>2
<1>6. \A i, j \in DOMAIN e : e[i] = e[j] => i = j
  <2> TAKE i, j \in DOMAIN e
  <2> HAVE e[i] = e[j]
  <2>1. i + 1 = j + 1
    BY <1>2
  <2> QED BY <1>1, <2>1
<1> QED BY <1>1, <1>4, <1>5, <1>6 DEF e

\* What a consumer takes is never parked.
LEMMA TakenIsReady ==
    ASSUME QueueTypeOK, NEW r \in rows, get_nowait(r)
    PROVE  r.later = 0
<1>1. PICK q \in rows : IsHead(q) /\ q.later # 1
  BY DEF get_nowait, empty
<1>2. IsHead(r)
  BY DEF get_nowait
<1>3. /\ q.later \in {0, 1} /\ r.later \in {0, 1}
      /\ q.priority \in Nat /\ r.priority \in Nat /\ q.seq \in Nat /\ r.seq \in Nat
  BY PrioritiesAssumption DEF QueueTypeOK, Row
<1>4. q = r
  BY <1>1, <1>2, <1>3 DEF IsHead, Before
<1> QED BY <1>1, <1>3, <1>4

\* A step that changes none of these variables keeps the invariant.
LEMMA ReceiptStutter ==
    ASSUME ReceiptInv, UNCHANGED receiptVars
    PROVE  ReceiptInv'
BY DEF ReceiptInv, receiptVars, ReceiptsAccounted, FreshSequences, ParkedBeyond, OldOnlyDequeued,
       Producers, Held, Seqs, Dequeued, boundary_active

\* A new sequence is beyond every receipt; its producer holds none yet.
LEMMA ReceiptNumber ==
    ASSUME TypeOK, ReceiptInv,
           NEW t \in Tasks, NEW p \in Priorities, NEW m \in Mints, Number(t, p, m)
    PROVE  ReceiptInv'
<1>1. /\ UNCHANGED <<rows, boundary, pending, dequeued>>
      /\ ppc[t] = "idle" /\ ppc' = [ppc EXCEPT ![t] = "numbered"]
      /\ eventSequence \in Nat /\ eventSequence' = eventSequence + 1
      /\ \A u \in Tasks : u # t => item'[u] = item[u]
      /\ item'[t].seq = eventSequence + 1
      /\ ppc \in [Tasks -> {"idle", "numbered", "admitted", "waiting"}]
      /\ pending \subseteq Nat
      /\ \A u \in Tasks : item[u].seq \in Nat
  BY BoundsAssumption DEF Number, queueVars, TypeOK, QueueTypeOK, Item
<1>2. Producers' = Producers /\ t \notin Producers
  BY <1>1 DEF Producers
<1>3. Held' = Held
  BY <1>1, <1>2 DEF Held, Producers
<1>4. ReceiptsAccounted'
  BY <1>1, <1>2, <1>3 DEF ReceiptInv, ReceiptsAccounted, Seqs, Dequeued, Producers
<1>5. FreshSequences'
  BY <1>1 DEF ReceiptInv, FreshSequences
<1> QED BY <1>1, <1>4, <1>5 DEF ReceiptInv, ParkedBeyond, OldOnlyDequeued, Dequeued, boundary_active

\* admit hands the receipt to its producer.
LEMMA ReceiptAdmit ==
    ASSUME TypeOK, ReceiptInv, NEW t \in Tasks, Admit(t)
    PROVE  ReceiptInv'
<1>1. /\ UNCHANGED <<rows, boundary, dequeued, eventSequence, item>>
      /\ pending' = pending \cup {item[t].seq}
      /\ ppc[t] = "numbered" /\ ppc' = [ppc EXCEPT ![t] = "admitted"]
      /\ ppc \in [Tasks -> {"idle", "numbered", "admitted", "waiting"}]
  BY DEF Admit, admit, TypeOK
<1>2. Producers' = Producers \cup {t}
  BY <1>1 DEF Producers
<1>3. Held' = Held \cup {item[t].seq}
  BY <1>1, <1>2 DEF Held
<1>4. item[t].seq \notin pending
  BY <1>1 DEF ReceiptInv, FreshSequences
<1>5. ReceiptsAccounted'
  BY <1>1, <1>2, <1>3, <1>4 DEF ReceiptInv, ReceiptsAccounted, FreshSequences, Seqs, Dequeued, Held, Producers
<1>6. FreshSequences'
  BY <1>1, <1>4 DEF ReceiptInv, FreshSequences
<1> QED BY <1>1, <1>5, <1>6 DEF ReceiptInv, ParkedBeyond, OldOnlyDequeued, Dequeued, boundary_active

\* What remains with the producers when t leaves.
LEMMA LeaveHeld ==
    ASSUME TypeOK, ReceiptInv, NEW t \in Producers, Leave(t)
    PROVE  /\ Producers' = Producers \ {t}
           /\ Held' = Held \ {item[t].seq}
           /\ \A u \in Producers' : item'[u] = item[u]
<1>1. /\ ppc' = [ppc EXCEPT ![t] = "idle"] /\ item' = [item EXCEPT ![t] = NoItem]
      /\ ppc \in [Tasks -> {"idle", "numbered", "admitted", "waiting"}]
      /\ item \in [Tasks -> Item] /\ t \in Tasks
  BY DEF Leave, TypeOK, Producers
<1>2. Producers' = Producers \ {t}
  BY <1>1 DEF Producers
<1>3. \A u \in Producers' : item'[u] = item[u]
  BY <1>1, <1>2 DEF Producers
<1>4. \A u \in Producers \ {t} : item[u].seq # item[t].seq
  BY DEF ReceiptInv, ReceiptsAccounted
<1>5. Held' = {item[u].seq : u \in Producers \ {t}}
  BY <1>2, <1>3 DEF Held
<1> QED BY <1>2, <1>3, <1>4, <1>5 DEF Held

\* After t leaves with no new receipt, sequences are as fresh as before.
LEMMA LeaveFresh ==
    ASSUME TypeOK, FreshSequences, NEW t \in Tasks, Leave(t), pending' \subseteq pending
    PROVE  FreshSequences'
<1>1. /\ ppc' = [ppc EXCEPT ![t] = "idle"] /\ item' = [item EXCEPT ![t] = NoItem]
      /\ eventSequence' = eventSequence
      /\ ppc \in [Tasks -> {"idle", "numbered", "admitted", "waiting"}]
      /\ item \in [Tasks -> Item]
  BY DEF Leave, TypeOK
<1> QED BY <1>1 DEF FreshSequences

\* put moves the receipt from its producer to a row.
LEMMA ReceiptPut ==
    ASSUME TypeOK, ReceiptInv, NEW t \in Producers, put_nowait(t, item[t]), Leave(t)
    PROVE  ReceiptInv'
<1> DEFINE s == item[t].seq
<1>1. /\ rows' = rows \cup {RowOf(item[t])} /\ RowOf(item[t]).seq = s
      /\ RowOf(item[t]).later = 1 <=> boundary_active /\ s > boundary
      /\ UNCHANGED <<boundary, dequeued>> /\ t \in Tasks
  BY DEF put_nowait, RowOf, Producers
<1>2. s \in Held /\ s \in pending /\ s \notin Seqs(rows) /\ s \notin Dequeued
  BY DEF ReceiptInv, ReceiptsAccounted, Held
<1>3. pending' = pending
  BY <1>2 DEF put_nowait
<1>4. Seqs(rows') = Seqs(rows) \cup {s} /\ Dequeued' = Dequeued
  BY <1>1 DEF Seqs, Dequeued
<1>5. /\ Producers' = Producers \ {t} /\ Held' = Held \ {s}
      /\ \A u \in Producers' : item'[u] = item[u]
  BY LeaveHeld
<1>6. \A r \in rows : r.seq # s
  BY <1>2 DEF Seqs
<1>7. \A r, q \in rows' : r.seq = q.seq => r = q
  BY <1>1, <1>6 DEF ReceiptInv, ReceiptsAccounted
<1> HIDE DEF s
<1>8. ReceiptsAccounted'
  <2>1. Seqs(rows)' = Seqs(rows')
    BY DEF Seqs
  <2>2. pending' = Seqs(rows)' \cup Dequeued' \cup Held'
    BY <1>2, <1>3, <1>4, <1>5, <2>1 DEF ReceiptInv, ReceiptsAccounted
  <2>3. Seqs(rows)' \cap Dequeued' = {} /\ Held' \cap (Seqs(rows)' \cup Dequeued') = {}
    BY <1>2, <1>4, <1>5, <2>1 DEF ReceiptInv, ReceiptsAccounted
  <2>4. \A i, j \in DOMAIN dequeued' : dequeued'[i] = dequeued'[j] => i = j
    BY <1>1 DEF ReceiptInv, ReceiptsAccounted
  <2>5. \A u, v \in Producers' : item'[u].seq = item'[v].seq => u = v
    BY <1>5 DEF ReceiptInv, ReceiptsAccounted
  <2> QED BY <1>7, <2>2, <2>3, <2>4, <2>5 DEF ReceiptsAccounted
<1>9. FreshSequences'
  BY <1>1, <1>3, LeaveFresh DEF ReceiptInv
<1>10. ParkedBeyond'
  BY <1>1 DEF ReceiptInv, ParkedBeyond, boundary_active
<1>11. OldOnlyDequeued'
  BY <1>1, <1>4 DEF ReceiptInv, OldOnlyDequeued, boundary_active
<1> QED BY <1>8, <1>9, <1>10, <1>11 DEF ReceiptInv

\* Shedding and cancellation give the receipt up.
LEMMA ReceiptForget ==
    ASSUME TypeOK, ReceiptInv, NEW t \in Producers, Leave(t),
           UNCHANGED <<rows, boundary, dequeued>>, pending' = pending \ {item[t].seq}
    PROVE  ReceiptInv'
<1> DEFINE s == item[t].seq
<1>1. s \in Held /\ s \in pending /\ s \notin Seqs(rows) /\ s \notin Dequeued /\ t \in Tasks
  BY DEF ReceiptInv, ReceiptsAccounted, Held, Producers
<1>2. /\ Producers' = Producers \ {t} /\ Held' = Held \ {s}
      /\ \A u \in Producers' : item'[u] = item[u]
  BY LeaveHeld
<1>3. Seqs(rows)' = Seqs(rows) /\ Dequeued' = Dequeued
  BY DEF Seqs, Dequeued
<1>4. ReceiptsAccounted'
  BY <1>1, <1>2, <1>3 DEF ReceiptInv, ReceiptsAccounted
<1>5. FreshSequences'
  BY <1>1, LeaveFresh DEF ReceiptInv
<1> QED BY <1>3, <1>4, <1>5 DEF ReceiptInv, ParkedBeyond, OldOnlyDequeued, boundary_active

\* get_nowait moves a receipt to the worker; the boundary hides later rows.
LEMMA ReceiptGet ==
    ASSUME TypeOK, ReceiptInv, NEW r \in rows, get_nowait(r),
           UNCHANGED <<eventSequence, ppc, item>>
    PROVE  ReceiptInv'
<1>1. /\ rows' = rows \ {r} /\ dequeued' = Append(dequeued, r.seq)
      /\ UNCHANGED <<boundary, pending>>
      /\ dequeued \in Seq(Nat) /\ r.seq \in Nat /\ boundary \in Nat
  BY DEF get_nowait, TypeOK, QueueTypeOK, Row
<1>2. r.seq \in Seqs(rows) /\ r.seq \notin Dequeued /\ r.seq \notin Held /\ r.seq \in pending
  BY DEF ReceiptInv, ReceiptsAccounted, Seqs
<1>3. /\ Dequeued' = Dequeued \cup {r.seq}
      /\ \A i, j \in DOMAIN dequeued' : dequeued'[i] = dequeued'[j] => i = j
  <2>1. \A i \in DOMAIN dequeued : dequeued[i] # r.seq
    BY <1>2 DEF Dequeued
  <2>2. \A i, j \in DOMAIN dequeued : dequeued[i] = dequeued[j] => i = j
    BY DEF ReceiptInv, ReceiptsAccounted
  <2> DEFINE e == Append(dequeued, r.seq)
  <2>3. /\ {e[i] : i \in DOMAIN e} = {dequeued[i] : i \in DOMAIN dequeued} \cup {r.seq}
        /\ \A i, j \in DOMAIN e : e[i] = e[j] => i = j
    BY <1>1, <2>1, <2>2, AppendReceipt
  <2>4. dequeued' = e
    BY <1>1
  <2> HIDE DEF e
  <2> QED BY <2>3, <2>4 DEF Dequeued
<1>4. Seqs(rows)' = Seqs(rows) \ {r.seq}
  BY <1>1 DEF Seqs, ReceiptInv, ReceiptsAccounted
<1>5. Producers' = Producers /\ Held' = Held
  BY DEF Producers, Held
<1>6. ReceiptsAccounted'
  <2>1. pending' = Seqs(rows)' \cup Dequeued' \cup Held'
    BY <1>1, <1>2, <1>3, <1>4, <1>5 DEF ReceiptInv, ReceiptsAccounted
  <2>2. Seqs(rows)' \cap Dequeued' = {} /\ Held' \cap (Seqs(rows)' \cup Dequeued') = {}
    BY <1>2, <1>3, <1>4, <1>5 DEF ReceiptInv, ReceiptsAccounted
  <2>3. \A q, v \in rows' : q.seq = v.seq => q = v
    BY <1>1 DEF ReceiptInv, ReceiptsAccounted
  <2>4. \A u, v \in Producers' : item'[u].seq = item'[v].seq => u = v
    BY <1>5 DEF ReceiptInv, ReceiptsAccounted
  <2> QED BY <1>3, <2>1, <2>2, <2>3, <2>4 DEF ReceiptsAccounted
<1>7. boundary_active => r.seq <= boundary
  BY <1>1, TakenIsReady DEF ReceiptInv, ParkedBeyond, TypeOK
<1>8. OldOnlyDequeued'
  BY <1>1, <1>3, <1>7 DEF ReceiptInv, OldOnlyDequeued, boundary_active
<1> QED BY <1>1, <1>6, <1>8 DEF ReceiptInv, FreshSequences, ParkedBeyond, boundary_active

\* task_done completes the oldest receipt of the batch.
LEMMA ReceiptTaskDone ==
    ASSUME TypeOK, ReceiptInv, task_done, UNCHANGED <<eventSequence, ppc, item>>
    PROVE  ReceiptInv'
<1> DEFINE s == Head(dequeued)
<1>1. /\ dequeued' = Tail(dequeued) /\ pending' = pending \ {s}
      /\ UNCHANGED <<rows, boundary>> /\ dequeued \in Seq(Nat) /\ dequeued # <<>>
  BY DEF task_done, TypeOK, QueueTypeOK
<1>2. /\ Dequeued' = Dequeued \ {s} /\ s \in Dequeued
      /\ \A i, j \in DOMAIN dequeued' : dequeued'[i] = dequeued'[j] => i = j
  <2>1. \A i, j \in DOMAIN dequeued : dequeued[i] = dequeued[j] => i = j
    BY DEF ReceiptInv, ReceiptsAccounted
  <2> DEFINE e == Tail(dequeued)
  <2>2. /\ {e[i] : i \in DOMAIN e} = {dequeued[i] : i \in DOMAIN dequeued} \ {Head(dequeued)}
        /\ Head(dequeued) \in {dequeued[i] : i \in DOMAIN dequeued}
        /\ \A i, j \in DOMAIN e : e[i] = e[j] => i = j
    BY <1>1, <2>1, PopReceipt
  <2>3. dequeued' = e
    BY <1>1
  <2> HIDE DEF e
  <2> QED BY <2>2, <2>3 DEF Dequeued
<1>3. Producers' = Producers /\ Held' = Held /\ Seqs(rows)' = Seqs(rows)
  BY <1>1 DEF Producers, Held, Seqs
<1>4. ReceiptsAccounted'
  BY <1>1, <1>2, <1>3 DEF ReceiptInv, ReceiptsAccounted
<1> QED BY <1>1, <1>2, <1>4
        DEF ReceiptInv, FreshSequences, ParkedBeyond, OldOnlyDequeued, boundary_active

\* Rows rewritten without touching their sequences keep every receipt.
LEMMA RewriteSeqs ==
    ASSUME NEW f, f \in [rows -> Row], rows' = {f[r] : r \in rows},
           \A r \in rows : f[r].seq = r.seq, ReceiptsAccounted,
           UNCHANGED <<pending, dequeued, ppc, item>>
    PROVE  ReceiptsAccounted'
<1>1. Seqs(rows)' = Seqs(rows)
  BY DEF Seqs
<1>2. Producers' = Producers /\ Held' = Held /\ Dequeued' = Dequeued
  BY DEF Producers, Held, Dequeued
<1>3. \A r, q \in rows' : r.seq = q.seq => r = q
  BY DEF ReceiptsAccounted
<1> QED BY <1>1, <1>2, <1>3 DEF ReceiptsAccounted

\* promote_mint touches priorities only.
LEMMA ReceiptPromote ==
    ASSUME TypeOK, ReceiptInv, NEW m \in Mints, promote_mint(m),
           UNCHANGED <<eventSequence, ppc, item>>
    PROVE  ReceiptInv'
<1> DEFINE f == [r \in rows |-> IF r.mint = m THEN [r EXCEPT !.priority = 0] ELSE r]
<1>1. f \in [rows -> Row]
  <2>1. rows \in SUBSET Row
    BY DEF TypeOK, QueueTypeOK
  <2> QED BY <2>1, PrioritiesAssumption DEF Row
<1>2. rows' = {f[r] : r \in rows} /\ UNCHANGED <<boundary, pending, dequeued>>
  BY DEF promote_mint
<1>3. \A r \in rows : f[r].seq = r.seq /\ f[r].later = r.later
  <2> TAKE r \in rows
  <2>1. r \in Row
    BY DEF TypeOK, QueueTypeOK
  <2>2. CASE r.mint = m
    <3>1. f[r] = [r EXCEPT !.priority = 0]
      BY <2>2
    <3> QED BY <2>1, <3>1 DEF Row
  <2>3. CASE r.mint # m
    BY <2>3
  <2> QED BY <2>2, <2>3
<1> HIDE DEF f
<1>4. ReceiptsAccounted'
  BY <1>1, <1>2, <1>3, RewriteSeqs DEF ReceiptInv
<1>5. ParkedBeyond'
  BY <1>2, <1>3 DEF ReceiptInv, ParkedBeyond, boundary_active
<1> QED BY <1>2, <1>4, <1>5 DEF ReceiptInv, FreshSequences, OldOnlyDequeued, Dequeued, boundary_active

\* begin_boundary takes in every receipt; end_boundary unparks every row.
LEMMA ReceiptBoundary ==
    ASSUME TypeOK, ReceiptInv, UNCHANGED <<eventSequence, ppc, item>>,
           (\E seq \in Nat : begin_boundary(seq)) \/ end_boundary
    PROVE  ReceiptInv'
<1> DEFINE f == [r \in rows |-> [r EXCEPT !.later = 0]]
<1>1. f \in [rows -> Row] /\ Unpark(rows) = {f[r] : r \in rows}
  BY DEF TypeOK, QueueTypeOK, Row, Unpark
<1>2. \A r \in rows : f[r].seq = r.seq /\ f[r].later = 0
  BY DEF TypeOK, QueueTypeOK, Row
<1> HIDE DEF f
<1>3. CASE end_boundary
  <2>1. rows' = {f[r] : r \in rows} /\ UNCHANGED <<pending, dequeued>> /\ boundary' = 0
    BY <1>1, <1>3 DEF end_boundary, NoBoundary
  <2>2. ReceiptsAccounted'
    BY <1>1, <1>2, <2>1, RewriteSeqs DEF ReceiptInv
  <2> QED BY <1>2, <2>1, <2>2 DEF ReceiptInv, FreshSequences, ParkedBeyond, OldOnlyDequeued,
                                  boundary_active, NoBoundary
<1>4. CASE \E seq \in Nat : begin_boundary(seq)
  <2> PICK seq \in Nat : begin_boundary(seq)
    BY <1>4
  <2>1. CASE boundary_active
    BY <2>1, ReceiptStutter DEF begin_boundary, queueVars, receiptVars
  <2>2. CASE ~boundary_active
    <3>1. /\ rows' = {f[r] : r \in rows} /\ UNCHANGED <<pending, dequeued>>
          /\ boundary' \in Nat /\ \A s \in pending : s <= boundary'
      BY <1>1, <2>2 DEF begin_boundary, IsMax, TypeOK, QueueTypeOK
    <3>2. ReceiptsAccounted'
      BY <1>1, <1>2, <3>1, RewriteSeqs DEF ReceiptInv
    <3>3. \A r \in rows' : r.seq \in pending /\ r.seq \in Nat /\ r.later = 0
      BY <1>2, <3>1 DEF ReceiptInv, ReceiptsAccounted, Seqs, TypeOK, QueueTypeOK
    <3>4. ParkedBeyond'
      BY <3>1, <3>3 DEF ParkedBeyond
    <3>5. OldOnlyDequeued'
      BY <3>1 DEF OldOnlyDequeued, Dequeued, ReceiptInv, ReceiptsAccounted
    <3> QED BY <3>1, <3>2, <3>4, <3>5 DEF ReceiptInv, FreshSequences
  <2> QED BY <2>1, <2>2
<1> QED BY <1>3, <1>4

\* discard_queued drops exactly the receipts of the rows it drops.
LEMMA ReceiptDiscard ==
    ASSUME TypeOK, ReceiptInv, discard_queued, UNCHANGED <<eventSequence, ppc, item>>
    PROVE  ReceiptInv'
<1>1. rows' = {} /\ pending' = pending \ Seqs(rows) /\ dequeued' = dequeued /\ boundary' = 0
  BY DEF discard_queued, NoBoundary
<1>2. Seqs(rows)' = {} /\ Dequeued' = Dequeued /\ Producers' = Producers /\ Held' = Held
  BY <1>1 DEF Seqs, Dequeued, Producers, Held
<1>3. ReceiptsAccounted'
  BY <1>1, <1>2 DEF ReceiptInv, ReceiptsAccounted
<1> QED BY <1>1, <1>3 DEF ReceiptInv, FreshSequences, ParkedBeyond, OldOnlyDequeued,
                          boundary_active, NoBoundary

\* Every step keeps the receipts in order.
LEMMA ReceiptStep ==
    ASSUME TypeOK, ReceiptInv, [Next]_vars
    PROVE  ReceiptInv'
<1> USE DEF producerVars, queueVars, WorkerRest, HeartbeatRest
<1>1. CASE \E t \in Tasks, p \in Priorities, m \in Mints : Number(t, p, m)
  BY <1>1, ReceiptNumber
<1>2. ASSUME NEW t \in Tasks, Producer(t) PROVE ReceiptInv'
  <2>1. CASE Admit(t)
    BY <2>1, ReceiptAdmit
  <2>2. CASE Put(t) \/ ResumePut(t)
    <3>1. t \in Producers /\ put_nowait(t, item[t]) /\ Leave(t)
      BY <2>2 DEF Put, ResumePut, Producers
    <3> QED BY <3>1, ReceiptPut
  <2>3. CASE Shed(t) \/ ResumeCancelled(t)
    <3>1. /\ t \in Producers /\ Leave(t) /\ pending' = pending \ {item[t].seq}
          /\ UNCHANGED <<rows, boundary, dequeued>>
      BY <2>3 DEF Shed, ResumeCancelled, forget, put_cancelled, Producers
    <3> QED BY <3>1, ReceiptForget
  <2>4. CASE Wait(t)
    <3>1. /\ UNCHANGED <<rows, boundary, pending, dequeued, eventSequence, item>>
          /\ ppc[t] = "admitted" /\ ppc' = [ppc EXCEPT ![t] = "waiting"]
          /\ ppc \in [Tasks -> {"idle", "numbered", "admitted", "waiting"}]
      BY <2>4 DEF Wait, put_wait, TypeOK
    <3>2. Producers' = Producers
      BY <3>1 DEF Producers
    <3>3. Held' = Held
      BY <3>1, <3>2 DEF Held
    <3>4. ReceiptsAccounted'
      BY <3>1, <3>2, <3>3 DEF ReceiptInv, ReceiptsAccounted, Seqs, Dequeued
    <3>5. FreshSequences'
      BY <3>1 DEF ReceiptInv, FreshSequences
    <3> QED BY <3>1, <3>4, <3>5
            DEF ReceiptInv, ParkedBeyond, OldOnlyDequeued, Dequeued, boundary_active
  <2>5. CASE ResumeWait(t)
    BY <2>5, ReceiptStutter DEF ResumeWait, put_wait, receiptVars
  <2> QED BY <1>2, <2>1, <2>2, <2>3, <2>4, <2>5 DEF Producer
<1>3. ASSUME NEW t \in Tasks, Cancel(t) PROVE ReceiptInv'
  BY <1>3, ReceiptStutter DEF Cancel, receiptVars
<1>4. ASSUME NEW m \in Mints, Promote(m) PROVE ReceiptInv'
  BY <1>4, ReceiptPromote DEF Promote
<1>5. ASSUME NEW m \in Mints, Settle(m) PROVE ReceiptInv'
  BY <1>5, ReceiptStutter DEF Settle, receiptVars
<1>6. ASSUME NEW r \in rows, Take(r) \/ Prefetch(r) \/ TakeUrgent(r) PROVE ReceiptInv'
  <2>1. get_nowait(r) /\ UNCHANGED <<eventSequence, ppc, item>>
    BY <1>6 DEF Take, Prefetch, TakeUrgent, get_nowait_before
  <2> QED BY <2>1, ReceiptGet
<1>7. ASSUME NEW s \in todo, Handle(s) \/ Skip(s) PROVE ReceiptInv'
  BY <1>7, ReceiptStutter DEF Handle, Skip, receiptVars
<1>8. CASE \/ StartBatch \/ BeginPrefetch \/ EndPrefetch \/ EndBatch \/ BatchDone
           \/ FinishRequested \/ FinishLock \/ FinishRoll
  BY <1>8, ReceiptStutter DEF StartBatch, BeginPrefetch, EndPrefetch, EndBatch, BatchDone,
                              FinishRequested, FinishLock, FinishRoll, receiptVars
<1>9. CASE TaskDone
  BY <1>9, ReceiptTaskDone DEF TaskDone
<1>10. CASE FinishTick
  <2>1. eventSequence \in Nat
    BY BoundsAssumption DEF TypeOK
  <2> QED BY <1>10, <2>1, ReceiptStutter, ReceiptBoundary DEF FinishTick, receiptVars
<1>11. CASE FinishEnd
  BY <1>11, ReceiptBoundary DEF FinishEnd
<1>12. CASE \/ HeartbeatLock \/ HeartbeatReadBatches \/ HeartbeatReadQueue
            \/ HeartbeatReadSequence \/ HeartbeatRoll
  BY <1>12, ReceiptStutter DEF HeartbeatLock, HeartbeatReadBatches, HeartbeatReadQueue,
                               HeartbeatReadSequence, HeartbeatRoll, receiptVars
<1>13. CASE HeartbeatBegin
  BY <1>13, ReceiptBoundary DEF HeartbeatBegin, TypeOK
<1>14. CASE SwitchLock
  BY <1>14, ReceiptStutter DEF SwitchLock, receiptVars
<1>15. CASE SwitchSource
  BY <1>15, ReceiptDiscard DEF SwitchSource
<1>16. CASE UNCHANGED vars
  BY <1>16, ReceiptStutter DEF vars, receiptVars
<1> QED BY <1>1, <1>2, <1>3, <1>4, <1>5, <1>6, <1>7, <1>8, <1>9, <1>10, <1>11, <1>12, <1>13,
           <1>14, <1>15, <1>16 DEF Next, Worker, Heartbeat, Environment

\* The initial pipeline holds no receipt.
LEMMA ReceiptInit == Init => ReceiptInv
<1> SUFFICES ASSUME Init PROVE ReceiptInv
  OBVIOUS
<1>1. rows = {} /\ pending = {} /\ dequeued = <<>> /\ boundary = 0
      /\ ppc = [t \in Tasks |-> "idle"]
  BY DEF Init, QueueInit, NoBoundary
<1>2. Seqs(rows) = {} /\ Dequeued = {} /\ Producers = {} /\ Held = {}
  BY <1>1 DEF Seqs, Dequeued, Producers, Held
<1> QED BY <1>1, <1>2 DEF ReceiptInv, ReceiptsAccounted, FreshSequences, ParkedBeyond,
                          OldOnlyDequeued, boundary_active, NoBoundary

\* Every admitted event is held exactly once, by the queue, by the worker or by
\* its producer, whatever is shed, cancelled, promoted, parked or discarded.
THEOREM ReceiptsNeverLeak == Spec => []ReceiptsAccounted
<1>1. TypeOK /\ ReceiptInv /\ [Next]_vars => (TypeOK /\ ReceiptInv)'
  BY StepType, ReceiptStep
<1>2. ReceiptInv => ReceiptsAccounted
  BY DEF ReceiptInv
<1> QED BY <1>1, <1>2, InitType, ReceiptInit, PTL DEF Spec

\* While a season boundary is active, the worker only ever holds events that
\* were admitted before it.
THEOREM BoundaryHidesNewSeason == Spec => []OldOnlyDequeued
<1>1. TypeOK /\ ReceiptInv /\ [Next]_vars => (TypeOK /\ ReceiptInv)'
  BY StepType, ReceiptStep
<1>2. ReceiptInv => OldOnlyDequeued
  BY DEF ReceiptInv
<1> QED BY <1>1, <1>2, InitType, ReceiptInit, PTL DEF Spec
-----------------------------------------------------------------------------
(* Who may run.  One coroutine holds the loop between two awaits, and        *)
(* _event_lock belongs to the worker's handover or to the heartbeat's tick   *)
(* exactly while they are at it.                                             *)

\* A producer that holds the loop is alone, and the worker does not hold it too.
OneHolder ==
    /\ \A t, u \in Tasks : /\ ppc[t] \in {"numbered", "admitted"}
                           /\ ppc[u] \in {"numbered", "admitted"}
                           => t = u
    /\ wpc \in {"got", "prefetch", "done"} => \A t \in Tasks : ppc[t] \in {"idle", "waiting"}

\* _event_lock is held by whoever is inside its `async with`.
LockKept ==
    /\ lock = "worker" <=> wpc \in {"tick", "roll", "end"}
    /\ lock = "heartbeat" <=> hpc # "idle"

\* No boundary lies beyond the sequences issued so far.
BoundaryIssued == boundary <= eventSequence /\ harg <= eventSequence

LoopInv == OneHolder /\ LockKept /\ BoundaryIssued

\* A boundary that is begun is one of the receipts, or the sequence that was read.
LEMMA BoundaryBegun ==
    ASSUME TypeOK, FreshSequences, NEW seq \in Nat, seq <= eventSequence,
           begin_boundary(seq), boundary <= eventSequence
    PROVE  boundary' <= eventSequence
BY DEF begin_boundary, IsMax, FreshSequences, TypeOK, QueueTypeOK, queueVars

\* A step that changes none of these variables keeps the invariant.
LEMMA LoopStutter ==
    ASSUME LoopInv, UNCHANGED <<ppc, wpc, hpc, lock, boundary, harg, eventSequence>>
    PROVE  LoopInv'
BY DEF LoopInv, OneHolder, LockKept, BoundaryIssued

\* Every step keeps to one holder of the loop and of the lock.
LEMMA LoopStep ==
    ASSUME TypeOK, ReceiptInv, LoopInv, [Next]_vars
    PROVE  LoopInv'
<1> USE DEF LoopInv, OneHolder, LockKept, BoundaryIssued, producerVars, workerVars,
            heartbeatVars, seasonVars, WorkerRest, HeartbeatRest
<1>t. /\ ppc \in [Tasks -> {"idle", "numbered", "admitted", "waiting"}]
      /\ eventSequence \in Nat /\ boundary \in Nat /\ harg \in Nat
  BY BoundsAssumption DEF TypeOK, QueueTypeOK
<1>1. ASSUME NEW t \in Tasks, NEW p \in Priorities, NEW m \in Mints, Number(t, p, m)
      PROVE  LoopInv'
  BY <1>t, <1>1 DEF Number, LoopFree, queueVars
<1>2. ASSUME NEW t \in Tasks, Producer(t) PROVE LoopInv'
  <2>1. CASE Admit(t)
    BY <1>t, <2>1 DEF Admit, admit
  <2>2. CASE Put(t) \/ ResumePut(t)
    BY <1>t, <2>2 DEF Put, ResumePut, put_nowait, Leave, LoopFree
  <2>3. CASE Shed(t) \/ ResumeCancelled(t)
    BY <1>t, <2>3 DEF Shed, ResumeCancelled, forget, put_cancelled, Leave, LoopFree
  <2>4. CASE Wait(t)
    BY <1>t, <2>4 DEF Wait, put_wait
  <2>5. CASE ResumeWait(t)
    BY <2>5, LoopStutter DEF ResumeWait, put_wait
  <2> QED BY <1>2, <2>1, <2>2, <2>3, <2>4, <2>5 DEF Producer
<1>3. ASSUME NEW t \in Tasks, Cancel(t) PROVE LoopInv'
  BY <1>3, LoopStutter DEF Cancel
<1>4. ASSUME NEW m \in Mints, Promote(m) \/ Settle(m) PROVE LoopInv'
  BY <1>4, LoopStutter DEF Promote, Settle, promote_mint, queueVars
<1>5. ASSUME NEW r \in rows, Take(r) \/ Prefetch(r) \/ TakeUrgent(r) PROVE LoopInv'
  BY <1>t, <1>5 DEF Take, Prefetch, TakeUrgent, get_nowait_before, get_nowait, LoopFree
<1>6. ASSUME NEW s \in todo, Handle(s) \/ Skip(s) PROVE LoopInv'
  BY <1>6, LoopStutter DEF Handle, Skip, queueVars
<1>7. CASE \/ StartBatch \/ BeginPrefetch \/ EndPrefetch \/ EndBatch \/ BatchDone
           \/ FinishRequested
  BY <1>t, <1>7 DEF StartBatch, BeginPrefetch, EndPrefetch, EndBatch, BatchDone,
                    FinishRequested, LoopFree, queueVars
<1>8. CASE TaskDone
  BY <1>8, LoopStutter DEF TaskDone, task_done
<1>9. CASE FinishLock \/ FinishRoll \/ FinishEnd
  BY <1>t, <1>9 DEF FinishLock, FinishRoll, FinishEnd, end_boundary, NoBoundary, LoopFree, queueVars
<1>10. CASE FinishTick
  <2>1. wpc = "tick" /\ wpc' \in {"roll", "end"} /\ UNCHANGED <<ppc, hpc, lock, harg, eventSequence>>
    BY <1>10 DEF FinishTick
  <2>2. boundary' <= eventSequence
    BY <1>t, <1>10, BoundaryBegun DEF FinishTick, ReceiptInv, queueVars
  <2> QED BY <2>1, <2>2
<1>11. CASE HeartbeatBegin
  <2>1. boundary' <= eventSequence
    BY <1>t, <1>11, BoundaryBegun DEF HeartbeatBegin, ReceiptInv
  <2>2. /\ hpc = "begin" /\ hpc' = "idle" /\ lock' = "free" /\ harg' = 0
        /\ UNCHANGED <<ppc, wpc, eventSequence>>
    BY <1>11 DEF HeartbeatBegin
  <2> QED BY <1>t, <2>1, <2>2
<1>12. CASE \/ HeartbeatLock \/ HeartbeatReadBatches \/ HeartbeatReadQueue
            \/ HeartbeatReadSequence \/ HeartbeatRoll
  BY <1>t, <1>12 DEF HeartbeatLock, HeartbeatReadBatches, HeartbeatReadQueue,
                     HeartbeatReadSequence, HeartbeatRoll, queueVars
<1>13. CASE SwitchLock \/ SwitchSource
  BY <1>t, <1>13 DEF SwitchLock, SwitchSource, discard_queued, NoBoundary
<1>14. CASE UNCHANGED vars
  BY <1>14, LoopStutter DEF vars, queueVars
<1> QED BY <1>1, <1>2, <1>3, <1>4, <1>5, <1>6, <1>7, <1>8, <1>9, <1>10, <1>11, <1>12, <1>13,
           <1>14 DEF Next, Worker, Heartbeat, Environment

-----------------------------------------------------------------------------
(* The market source.  A sequence above the fence was issued by the present  *)
(* source, and the worker's batch holds only sequences that were issued.     *)

SourceInv ==
    /\ \A s \in Sequences : fence < s /\ s <= eventSequence => origin[s] = source
    /\ todo \subseteq 1..eventSequence
    /\ \A s \in pending : s >= 1
    /\ \A t \in Tasks : ppc[t] # "idle" => item[t].seq >= 1
    /\ SourceIsolation

\* Steps that issue nothing, apply nothing and only drop receipts.
LEMMA SourceStutter ==
    ASSUME SourceInv, UNCHANGED <<source, fence, origin, eventSequence, misapplied>>,
           todo' \subseteq todo, pending' \subseteq pending,
           \A t \in Tasks : ppc'[t] # "idle" => ppc[t] # "idle" /\ item'[t] = item[t]
    PROVE  SourceInv'
BY DEF SourceInv, SourceIsolation

\* Every step keeps the sources apart.
LEMMA SourceStep ==
    ASSUME TypeOK, ReceiptInv, SourceInv, [Next]_vars
    PROVE  SourceInv'
<1> USE DEF producerVars, workerVars, heartbeatVars, seasonVars, queueVars, WorkerRest, HeartbeatRest
<1>t. /\ ppc \in [Tasks -> {"idle", "numbered", "admitted", "waiting"}]
      /\ item \in [Tasks -> Item]
      /\ eventSequence \in Nat /\ eventSequence <= MaxEvents /\ MaxEvents \in Nat /\ fence \in Nat
      /\ origin \in [Sequences -> Nat] /\ Sequences = 1..MaxEvents
      /\ pending \subseteq Nat
  BY BoundsAssumption DEF TypeOK, QueueTypeOK, Sequences
<1>1. ASSUME NEW t \in Tasks, NEW p \in Priorities, NEW m \in Mints, Number(t, p, m)
      PROVE  SourceInv'
  <2>1. /\ eventSequence' = eventSequence + 1
        /\ item' = [item EXCEPT ![t] = [priority |-> p, seq |-> eventSequence + 1, mint |-> m]]
        /\ origin' = [origin EXCEPT ![eventSequence + 1] = source]
        /\ ppc' = [ppc EXCEPT ![t] = "numbered"]
        /\ UNCHANGED <<source, fence, todo, pending, misapplied>>
    BY <1>1 DEF Number
  <2>2. \A s \in Sequences : fence < s /\ s <= eventSequence' => origin'[s] = source
    BY <1>t, <2>1 DEF SourceInv
  <2>3. todo \subseteq 1..eventSequence'
    BY <1>t, <2>1 DEF SourceInv
  <2>4. \A u \in Tasks : ppc'[u] # "idle" => item'[u].seq >= 1
    BY <1>t, <2>1 DEF SourceInv
  <2> QED BY <2>1, <2>2, <2>3, <2>4 DEF SourceInv, SourceIsolation
<1>2. ASSUME NEW t \in Tasks, Producer(t) PROVE SourceInv'
  <2>1. CASE Admit(t)
    <3>1. /\ pending' = pending \cup {item[t].seq} /\ item[t].seq >= 1
          /\ UNCHANGED <<source, fence, origin, eventSequence, misapplied, todo, item>>
          /\ \A u \in Tasks : ppc'[u] # "idle" => ppc[u] # "idle"
      BY <1>t, <2>1 DEF Admit, admit, SourceInv
    <3> QED BY <3>1 DEF SourceInv, SourceIsolation
  <2>2. CASE Put(t) \/ ResumePut(t) \/ Shed(t) \/ ResumeCancelled(t)
    <3>1. t \in Producers /\ Leave(t) /\ pending' \subseteq pending \cup {item[t].seq}
          /\ UNCHANGED <<source, fence, origin, eventSequence, misapplied, todo>>
      BY <2>2 DEF Put, ResumePut, Shed, ResumeCancelled, put_nowait, forget, put_cancelled,
                  Leave, Producers
    <3>2. item[t].seq \in pending
      BY <3>1 DEF ReceiptInv, ReceiptsAccounted, Held
    <3>3. \A u \in Tasks : ppc'[u] # "idle" => ppc[u] # "idle" /\ item'[u] = item[u]
      BY <1>t, <3>1 DEF Leave
    <3> QED BY <3>1, <3>2, <3>3, SourceStutter
  <2>3. CASE Wait(t) \/ ResumeWait(t)
    <3>1. /\ \A u \in Tasks : ppc'[u] # "idle" => ppc[u] # "idle"
          /\ UNCHANGED <<source, fence, origin, eventSequence, misapplied, todo, pending, item>>
      BY <1>t, <2>3 DEF Wait, ResumeWait, put_wait
    <3> QED BY <3>1, SourceStutter
  <2> QED BY <1>2, <2>1, <2>2, <2>3 DEF Producer
<1>3. ASSUME NEW t \in Tasks, Cancel(t) PROVE SourceInv'
  BY <1>3, SourceStutter DEF Cancel
<1>4. ASSUME NEW m \in Mints, Promote(m) \/ Settle(m) PROVE SourceInv'
  BY <1>4, SourceStutter DEF Promote, Settle, promote_mint
<1>5. ASSUME NEW r \in rows, Take(r) \/ Prefetch(r) \/ TakeUrgent(r) PROVE SourceInv'
  <2>1. r.seq \in pending
    BY DEF ReceiptInv, ReceiptsAccounted, Seqs
  <2>2. r.seq \in 1..eventSequence
    <3>1. \A s \in pending : s \in Nat /\ s <= eventSequence /\ s >= 1
      BY <1>t DEF ReceiptInv, FreshSequences, SourceInv
    <3>2. \A s \in pending : s \in 1..eventSequence
      BY <1>t, <3>1
    <3> QED BY <2>1, <3>2
  <2>3. /\ todo' = {r.seq} \/ todo' = todo \cup {r.seq}
        /\ UNCHANGED <<source, fence, origin, eventSequence, misapplied, pending, ppc, item>>
    BY <1>5, Zenon DEF Take, Prefetch, TakeUrgent, get_nowait_before, get_nowait
  <2> QED BY <2>2, <2>3 DEF SourceInv, SourceIsolation
<1>6. ASSUME NEW s \in todo, Handle(s) \/ Skip(s) PROVE SourceInv'
  <2>1. s \in Sequences /\ s <= eventSequence
    BY <1>t DEF SourceInv
  <2>2. s > fence => origin[s] = source
    BY <1>t, <2>1 DEF SourceInv
  <2>3. misapplied' = misapplied /\ todo' \subseteq todo
    BY <1>6, <2>2 DEF Handle, Skip
  <2> QED BY <1>6, <2>3, SourceStutter DEF Handle, Skip
<1>7. CASE \/ StartBatch \/ BeginPrefetch \/ EndPrefetch \/ EndBatch \/ BatchDone
           \/ FinishRequested \/ FinishLock \/ FinishRoll
  BY <1>7, SourceStutter DEF StartBatch, BeginPrefetch, EndPrefetch, EndBatch, BatchDone,
                             FinishRequested, FinishLock, FinishRoll
<1>8. CASE TaskDone \/ FinishTick \/ FinishEnd
  BY <1>8, SourceStutter DEF TaskDone, task_done, FinishTick, begin_boundary, FinishEnd, end_boundary
<1>9. CASE \/ HeartbeatLock \/ HeartbeatReadBatches \/ HeartbeatReadQueue
           \/ HeartbeatReadSequence \/ HeartbeatRoll \/ HeartbeatBegin
  BY <1>9, SourceStutter DEF HeartbeatLock, HeartbeatReadBatches, HeartbeatReadQueue,
                             HeartbeatReadSequence, HeartbeatRoll, HeartbeatBegin, begin_boundary
<1>10. CASE SwitchLock
  BY <1>10, SourceStutter DEF SwitchLock
<1>11. CASE SwitchSource
  <2>1. /\ fence' = eventSequence /\ pending' \subseteq pending
        /\ UNCHANGED <<ppc, item, todo, misapplied, eventSequence>>
    BY <1>11 DEF SwitchSource, discard_queued
  <2>2. \A s \in Sequences : ~(fence' < s /\ s <= eventSequence')
    BY <1>t, <2>1
  <2> QED BY <2>1, <2>2 DEF SourceInv, SourceIsolation
<1>12. CASE UNCHANGED vars
  BY <1>12, SourceStutter DEF vars
<1> QED BY <1>1, <1>2, <1>3, <1>4, <1>5, <1>6, <1>7, <1>8, <1>9, <1>10, <1>11, <1>12
        DEF Next, Worker, Heartbeat, Environment

\* No event of an earlier market source is ever applied under a later one, however many
\* switches there are and whatever the worker's batch holds when they happen.
THEOREM SourcesNeverMix == Spec => []SourceIsolation
<1>1. Init => SourceInv
  BY BoundsAssumption DEF Init, QueueInit, SourceInv, SourceIsolation
<1>2. TypeOK /\ ReceiptInv /\ SourceInv /\ [Next]_vars => (TypeOK /\ ReceiptInv /\ SourceInv)'
  BY StepType, ReceiptStep, SourceStep
<1>3. SourceInv => SourceIsolation
  BY DEF SourceInv
<1> QED BY <1>1, <1>2, <1>3, InitType, ReceiptInit, PTL DEF Spec

-----------------------------------------------------------------------------
(* Promotion.  An outcome's mint has no queued row, and no arrival on its    *)
(* way into the queue, that is not critical, so its sequence alone decides.  *)

CriticalFirst ==
    /\ \A r \in rows : r.mint \in critical => r.priority = 0
    /\ \A t \in Tasks : ppc[t] # "idle" /\ item[t].mint \in critical => item[t].priority = 0
    /\ \A t \in Tasks : ppc[t] = "waiting" => item[t].priority = 0

\* Steps that add no row and start no producer.
LEMMA CriticalStutter ==
    ASSUME CriticalFirst, critical' \subseteq critical,
           \A r \in rows' : \E q \in rows : q.mint = r.mint /\ q.priority = r.priority,
           \A t \in Tasks : /\ ppc'[t] # "idle" => ppc[t] # "idle" /\ item'[t] = item[t]
                            /\ ppc'[t] = "waiting" => ppc[t] = "waiting"
    PROVE  CriticalFirst'
BY DEF CriticalFirst

\* Unparking keeps every row's mint and priority.
LEMMA UnparkKeeps ==
    ASSUME QueueTypeOK, NEW r \in Unpark(rows)
    PROVE  \E q \in rows : q.mint = r.mint /\ q.priority = r.priority /\ q.seq = r.seq /\ r.later = 0
BY DEF Unpark, QueueTypeOK, Row

\* Every step keeps the rows of pending outcomes critical.
LEMMA CriticalStep ==
    ASSUME TypeOK, CriticalFirst, [Next]_vars
    PROVE  CriticalFirst'
<1> USE DEF producerVars, workerVars, heartbeatVars, seasonVars, queueVars, WorkerRest, HeartbeatRest
<1>t. /\ ppc \in [Tasks -> {"idle", "numbered", "admitted", "waiting"}]
      /\ item \in [Tasks -> Item] /\ QueueTypeOK
  BY DEF TypeOK
<1>1. ASSUME NEW t \in Tasks, NEW p \in Priorities, NEW m \in Mints, Number(t, p, m)
      PROVE  CriticalFirst'
  BY <1>t, <1>1 DEF Number, CriticalFirst
<1>2. ASSUME NEW t \in Tasks, Producer(t) PROVE CriticalFirst'
  <2>1. CASE Admit(t)
    BY <1>t, <2>1 DEF Admit, admit, CriticalFirst
  <2>2. CASE Put(t) \/ ResumePut(t)
    <3>1. /\ ppc[t] # "idle" /\ rows' = rows \cup {RowOf(item[t])} /\ critical' = critical
          /\ ppc' = [ppc EXCEPT ![t] = "idle"] /\ item' = [item EXCEPT ![t] = NoItem]
      BY <2>2 DEF Put, ResumePut, put_nowait, Leave
    <3>2. /\ RowOf(item[t]).mint = item[t].mint
          /\ RowOf(item[t]).priority = item[t].priority
      BY DEF RowOf
    <3> QED BY <1>t, <3>1, <3>2 DEF CriticalFirst
  <2>3. CASE Shed(t) \/ ResumeCancelled(t)
    <3>1. /\ rows' = rows /\ critical' = critical
          /\ ppc' = [ppc EXCEPT ![t] = "idle"] /\ item' = [item EXCEPT ![t] = NoItem]
      BY <2>3 DEF Shed, ResumeCancelled, forget, put_cancelled, Leave
    <3> QED BY <1>t, <3>1 DEF CriticalFirst
  <2>4. CASE Wait(t)
    BY <1>t, <2>4 DEF Wait, put_wait, CriticalFirst
  <2>5. CASE ResumeWait(t)
    BY <2>5, CriticalStutter DEF ResumeWait, put_wait
  <2> QED BY <1>2, <2>1, <2>2, <2>3, <2>4, <2>5 DEF Producer
<1>3. ASSUME NEW t \in Tasks, Cancel(t) PROVE CriticalFirst'
  BY <1>3, CriticalStutter DEF Cancel
<1>4. ASSUME NEW m \in Mints, Promote(m) PROVE CriticalFirst'
  <2>1. /\ rows' = {IF r.mint = m THEN [r EXCEPT !.priority = 0] ELSE r : r \in rows}
        /\ critical' = critical \cup {m} /\ UNCHANGED <<ppc, item>>
        /\ \A t \in Tasks : ppc[t] \in {"idle", "waiting"}
    BY <1>t, <1>4 DEF Promote, promote_mint, LoopFree
  <2>2. ASSUME NEW r \in rows', r.mint \in critical' PROVE r.priority = 0
    <3>1. PICK q \in rows : r = IF q.mint = m THEN [q EXCEPT !.priority = 0] ELSE q
      BY <2>1
    <3>2. q \in Row
      BY <1>t DEF QueueTypeOK
    <3>3. CASE q.mint = m
      BY <3>1, <3>2, <3>3 DEF Row
    <3>4. CASE q.mint # m
      <4>1. r = q
        BY <3>1, <3>4
      <4> QED BY <2>1, <2>2, <3>4, <4>1 DEF CriticalFirst
    <3> QED BY <3>3, <3>4
  <2> QED BY <2>1, <2>2 DEF CriticalFirst
<1>5. ASSUME NEW m \in Mints, Settle(m) PROVE CriticalFirst'
  BY <1>5, CriticalStutter DEF Settle
<1>6. ASSUME NEW r \in rows, Take(r) \/ Prefetch(r) \/ TakeUrgent(r) PROVE CriticalFirst'
  <2>1. rows' \subseteq rows /\ UNCHANGED <<critical, ppc, item>>
    BY <1>6 DEF Take, Prefetch, TakeUrgent, get_nowait_before, get_nowait
  <2> QED BY <2>1, CriticalStutter
<1>7. ASSUME NEW s \in todo, Handle(s) \/ Skip(s) PROVE CriticalFirst'
  BY <1>7, CriticalStutter DEF Handle, Skip
<1>8. CASE \/ StartBatch \/ BeginPrefetch \/ EndPrefetch \/ EndBatch \/ BatchDone
           \/ FinishRequested \/ FinishLock \/ FinishRoll \/ TaskDone
  BY <1>8, CriticalStutter DEF StartBatch, BeginPrefetch, EndPrefetch, EndBatch, BatchDone,
                               FinishRequested, FinishLock, FinishRoll, TaskDone, task_done
<1>9. CASE FinishTick \/ FinishEnd \/ HeartbeatBegin
  <2>1. /\ rows' = rows \/ rows' = Unpark(rows)
        /\ UNCHANGED <<critical, ppc, item>>
    BY <1>9 DEF FinishTick, FinishEnd, HeartbeatBegin, begin_boundary, end_boundary
  <2>2. \A r \in rows' : \E q \in rows : q.mint = r.mint /\ q.priority = r.priority
    BY <1>t, <2>1, UnparkKeeps
  <2> QED BY <2>1, <2>2, CriticalStutter
<1>10. CASE \/ HeartbeatLock \/ HeartbeatReadBatches \/ HeartbeatReadQueue
            \/ HeartbeatReadSequence \/ HeartbeatRoll
  BY <1>10, CriticalStutter DEF HeartbeatLock, HeartbeatReadBatches, HeartbeatReadQueue,
                                HeartbeatReadSequence, HeartbeatRoll
<1>11. CASE SwitchLock
  BY <1>11, CriticalStutter DEF SwitchLock
<1>12. CASE SwitchSource
  BY <1>12, CriticalStutter DEF SwitchSource, discard_queued
<1>13. CASE UNCHANGED vars
  BY <1>13, CriticalStutter DEF vars
<1> QED BY <1>1, <1>2, <1>3, <1>4, <1>5, <1>6, <1>7, <1>8, <1>9, <1>10, <1>11, <1>12, <1>13
        DEF Next, Worker, Heartbeat, Environment

\* The rows that leave for the worker's batch are the heads that consumers take.
LEMMA OnlyHeadsAreTaken ==
    ASSUME TypeOK, ReceiptInv, [Next]_vars,
           NEW r \in rows, r \notin rows', r.seq \in Dequeued'
    PROVE  IsHead(r)
<1> USE DEF producerVars, workerVars, heartbeatVars, seasonVars, queueVars, WorkerRest, HeartbeatRest
<1>1. r.seq \notin Dequeued
  BY DEF ReceiptInv, ReceiptsAccounted, Seqs
<1>2. CASE \E q \in rows : Take(q) \/ Prefetch(q) \/ TakeUrgent(q)
  BY <1>2 DEF Take, Prefetch, TakeUrgent, get_nowait_before, get_nowait
<1>3. CASE TaskDone
  <2>1. rows' = rows
    BY <1>3 DEF TaskDone, task_done
  <2> QED BY <2>1
<1>4. CASE \E t \in Tasks : Producer(t) \/ Cancel(t)
  BY <1>4 DEF Producer, Admit, admit, Put, Shed, Wait, ResumePut, ResumeWait, ResumeCancelled,
              Cancel, put_nowait, put_wait, put_cancelled, forget
<1>5. CASE \/ \E t \in Tasks, p \in Priorities, m \in Mints : Number(t, p, m)
           \/ \E m \in Mints : Promote(m) \/ Settle(m)
           \/ \E s \in todo : Handle(s) \/ Skip(s)
  <2>1. dequeued' = dequeued
    BY <1>5 DEF Number, Promote, Settle, promote_mint, Handle, Skip
  <2> QED BY <1>1, <2>1 DEF Dequeued
<1>6. CASE \/ StartBatch \/ BeginPrefetch \/ EndPrefetch \/ EndBatch \/ BatchDone
           \/ FinishRequested \/ FinishLock \/ FinishTick \/ FinishRoll \/ FinishEnd
  <2>1. dequeued' = dequeued
    BY <1>6 DEF StartBatch, BeginPrefetch, EndPrefetch, EndBatch, BatchDone, FinishRequested,
                FinishLock, FinishTick, begin_boundary, FinishRoll, FinishEnd, end_boundary
  <2> QED BY <1>1, <2>1 DEF Dequeued
<1>7. CASE \/ HeartbeatLock \/ Heartbeat \/ SwitchLock \/ SwitchSource \/ UNCHANGED vars
  <2>1. dequeued' = dequeued
    BY <1>7 DEF HeartbeatLock, Heartbeat, HeartbeatReadBatches, HeartbeatReadQueue,
                HeartbeatReadSequence, HeartbeatRoll, HeartbeatBegin, begin_boundary,
                SwitchLock, SwitchSource, discard_queued, vars
  <2> QED BY <1>1, <2>1 DEF Dequeued
<1> QED BY <1>2, <1>3, <1>4, <1>5, <1>6, <1>7 DEF Next, Worker, Environment

\* A mint whose outcome is pending is served oldest first, whichever of its ticks were
\* queued before the promotion and whichever arrived after it.
THEOREM PromotionKeepsOrder == Spec => PromotedInOrder
<1>1. Init => CriticalFirst
  BY DEF Init, QueueInit, CriticalFirst
<1>2. /\ TypeOK /\ ReceiptInv /\ CriticalFirst /\ [Next]_vars
      => (TypeOK /\ ReceiptInv /\ CriticalFirst)'
  BY StepType, ReceiptStep, CriticalStep
<1>3. ASSUME TypeOK, ReceiptInv, CriticalFirst, [Next]_vars,
             NEW r \in rows, r \notin rows', r.seq \in Dequeued', r.mint \in critical,
             NEW s \in rows, s.mint = r.mint, s.later = r.later
      PROVE  r.seq <= s.seq
  <2>1. IsHead(r)
    BY <1>3, OnlyHeadsAreTaken
  <2>2. r.priority = 0 /\ s.priority = 0
    BY <1>3 DEF CriticalFirst
  <2>3. r.seq \in Nat /\ s.seq \in Nat /\ r.later \in {0, 1}
    BY <1>3 DEF TypeOK, QueueTypeOK, Row
  <2> QED BY <1>3, <2>1, <2>2, <2>3 DEF IsHead, Before
<1>4. TypeOK /\ ReceiptInv /\ CriticalFirst /\ [Next]_vars =>
      [\A r \in rows : r \notin rows' /\ r.seq \in Dequeued' /\ r.mint \in critical =>
         \A s \in rows : s.mint = r.mint /\ s.later = r.later => r.seq <= s.seq]_vars
  BY <1>3
<1> QED BY <1>1, <1>2, <1>4, InitType, ReceiptInit, PTL DEF Spec, PromotedInOrder

-----------------------------------------------------------------------------
(* Reserved capacity.  What parked rows must leave free is owed to the old   *)
(* producers; nothing can be owed that was not foreseen when they parked.    *)

\* A sequence below the boundary that is still to be admitted finds no row parked:
\* the boundary that took it in has just unparked them all.
EarlyNumbered ==
    \A t \in Tasks : ppc[t] = "numbered" /\ item[t].seq <= boundary =>
        \A r \in rows : r.later = 0

ReserveInv == ReservedCapacity /\ EarlyNumbered

\* The owed receipts lie below the boundary, so they are finitely many.
LEMMA OwedIsFinite ==
    ASSUME QueueTypeOK
    PROVE  IsFiniteSet(WaitingOld) /\ Cardinality(WaitingOld) \in Nat
<1>1. boundary \in Nat /\ pending \subseteq Nat
  BY DEF QueueTypeOK
<1>2. WaitingOld \in SUBSET Nat /\ \A s \in WaitingOld : s <= boundary
  BY <1>1 DEF WaitingOld
<1>3. IsFiniteSet(WaitingOld)
  BY <1>1, <1>2, FS_BoundedSetOfNaturals
<1> QED BY <1>3, FS_CardinalityType

\* A step that adds no row and owes nothing new keeps the reserve.
LEMMA ReserveShrinks ==
    ASSUME QueueTypeOK, QueueTypeOK', ReservedCapacity,
           WaitingOld' \subseteq WaitingOld, qsize' <= qsize,
           (\E r \in rows' : r.later = 1) => \E r \in rows : r.later = 1
    PROVE  ReservedCapacity'
<1>1. IsFiniteSet(WaitingOld) /\ Cardinality(WaitingOld) \in Nat
  BY OwedIsFinite
<1>2. Cardinality(WaitingOld') \in Nat /\ Cardinality(WaitingOld') <= Cardinality(WaitingOld)
  BY <1>1, FS_Subset, FS_CardinalityType
<1>3. qsize \in Nat /\ qsize' \in Nat /\ MaxSize \in Nat
  BY MaxSizeAssumption, FS_CardinalityType DEF QueueTypeOK, qsize
<1>4. (\E r \in rows' : r.later = 1) => qsize + Cardinality(WaitingOld) <= MaxSize
  BY DEF ReservedCapacity
<1>5. qsize + Cardinality(WaitingOld) <= MaxSize => qsize' + Cardinality(WaitingOld') <= MaxSize
  BY <1>1, <1>2, <1>3
<1> QED BY <1>4, <1>5 DEF ReservedCapacity

\* No parked row, no claim.
LEMMA ReserveFree ==
    ASSUME \A r \in rows' : r.later = 0
    PROVE  ReservedCapacity' /\ EarlyNumbered'
BY DEF ReservedCapacity, EarlyNumbered

\* Steps that leave the queue's rows and receipts alone and number nobody.
LEMMA ReserveStutter ==
    ASSUME ReserveInv, UNCHANGED <<rows, boundary, pending, dequeued, item>>,
           \A t \in Tasks : ppc'[t] = "numbered" => ppc[t] = "numbered"
    PROVE  ReserveInv'
BY DEF ReserveInv, ReservedCapacity, EarlyNumbered, WaitingOld, qsize, Seqs, Dequeued

\* Unparked rows have no later flag.
LEMMA UnparkedRows ==
    ASSUME QueueTypeOK
    PROVE  \A r \in Unpark(rows) : r.later = 0
BY DEF Unpark, QueueTypeOK, Row

\* put_nowait: an old producer uses its own reserve, a new one what is left over.
LEMMA ReservePut ==
    ASSUME TypeOK, ReceiptInv, ReserveInv, NEW t \in Producers, QueueTypeOK',
           put_nowait(t, item[t])
    PROVE  ReservedCapacity'
<1> DEFINE s == item[t].seq
           row == RowOf(item[t])
<1>1. /\ rows' = rows \cup {row} /\ pending' = pending \cup {s}
      /\ UNCHANGED <<boundary, dequeued>> /\ ~Refused(s)
      /\ row.seq = s /\ row.later = (IF boundary_active /\ s > boundary THEN 1 ELSE 0)
  BY DEF put_nowait, RowOf
<1>2. s \in Nat /\ boundary \in Nat /\ QueueTypeOK /\ t \in Tasks
  BY DEF TypeOK, QueueTypeOK, Item, Producers
<1>3. s \in pending /\ s \notin Seqs(rows) /\ s \notin Dequeued
  BY DEF ReceiptInv, ReceiptsAccounted, Held
<1>4. Seqs(rows)' = Seqs(rows) \cup {s} /\ Dequeued' = Dequeued /\ pending' = pending
  BY <1>1, <1>3 DEF Seqs, Dequeued
<1>5. WaitingOld' = WaitingOld \ {s}
  BY <1>1, <1>4 DEF WaitingOld
<1>6. qsize \in Nat /\ qsize' \in Nat /\ qsize' <= qsize + 1 /\ MaxSize \in Nat
  <2>1. IsFiniteSet(rows)
    BY <1>2 DEF QueueTypeOK
  <2>2. \/ Cardinality(rows \cup {row}) = Cardinality(rows)
        \/ Cardinality(rows \cup {row}) = Cardinality(rows) + 1
    BY <2>1, FS_AddElement
  <2>3. Cardinality(rows) \in Nat
    BY <2>1, FS_CardinalityType
  <2> QED BY <1>1, <2>2, <2>3, MaxSizeAssumption DEF qsize
<1>7. IsFiniteSet(WaitingOld) /\ Cardinality(WaitingOld) \in Nat
  BY <1>2, OwedIsFinite
<1>8. CASE boundary_active /\ s <= boundary
  <2>1. s \in WaitingOld
    BY <1>3, <1>8 DEF WaitingOld
  <2>2. Cardinality(WaitingOld)' = Cardinality(WaitingOld) - 1
    BY <1>5, <1>7, <2>1, FS_RemoveElement
  <2>3. row.later = 0
    BY <1>1, <1>2, <1>8
  <2>4. (\E r \in rows' : r.later = 1) => \E r \in rows : r.later = 1
    BY <1>1, <2>3
  <2> QED BY <1>6, <1>7, <2>2, <2>4 DEF ReserveInv, ReservedCapacity
<1>9. CASE boundary_active /\ s > boundary
  <2>1. WaitingOld' = WaitingOld
    BY <1>2, <1>5, <1>9 DEF WaitingOld
  <2>2. qsize < MaxSize - Cardinality(WaitingOld)
    BY <1>1, <1>6, <1>7, <1>9 DEF Refused
  <2>3. Cardinality(WaitingOld)' = Cardinality(WaitingOld)
    BY <2>1
  <2> QED BY <1>6, <1>7, <2>2, <2>3 DEF ReservedCapacity
<1>10. CASE ~boundary_active
  <2>1. \A r \in rows : r.later = 0
    BY <1>2, <1>10 DEF ReceiptInv, ParkedBeyond, QueueTypeOK, Row
  <2> QED BY <1>1, <1>10, <2>1, ReserveFree
<1> QED BY <1>2, <1>8, <1>9, <1>10

\* Steps that only drop rows, receipts or parked flags keep the reserve.
LEMMA ReserveLess ==
    ASSUME TypeOK, ReceiptInv, ReserveInv, QueueTypeOK',
           UNCHANGED boundary, pending' \subseteq pending, qsize' <= qsize,
           \A r \in rows' : \E q \in rows : q.later = r.later,
           Seqs(rows) \cup Dequeued \subseteq Seqs(rows)' \cup Dequeued' \cup (pending \ pending'),
           \A t \in Tasks : ppc'[t] = "numbered" => ppc[t] = "numbered" /\ item'[t] = item[t]
    PROVE  ReserveInv'
<1>1. WaitingOld' \subseteq WaitingOld
  BY DEF WaitingOld
<1>2. ReservedCapacity'
  BY <1>1, ReserveShrinks DEF ReserveInv, TypeOK
<1> QED BY <1>2 DEF ReserveInv, EarlyNumbered

\* Every step keeps the reserve.
LEMMA ReserveStep ==
    ASSUME TypeOK, ReceiptInv, LoopInv, ReserveInv, TypeOK', [Next]_vars
    PROVE  ReserveInv'
<1> USE DEF producerVars, workerVars, heartbeatVars, seasonVars, queueVars, WorkerRest, HeartbeatRest
<1>t. /\ ppc \in [Tasks -> {"idle", "numbered", "admitted", "waiting"}]
      /\ item \in [Tasks -> Item] /\ QueueTypeOK /\ QueueTypeOK'
      /\ eventSequence \in Nat /\ boundary \in Nat
  BY BoundsAssumption DEF TypeOK, QueueTypeOK
<1>q. qsize \in Nat
  BY <1>t, FS_CardinalityType DEF QueueTypeOK, qsize
<1>1. ASSUME NEW t \in Tasks, NEW p \in Priorities, NEW m \in Mints, Number(t, p, m)
      PROVE  ReserveInv'
  <2>1. /\ UNCHANGED <<rows, boundary, pending, dequeued>>
        /\ item' = [item EXCEPT ![t] = [priority |-> p, seq |-> eventSequence + 1, mint |-> m]]
        /\ ppc' = [ppc EXCEPT ![t] = "numbered"]
    BY <1>1 DEF Number
  <2>2. item'[t].seq > boundary
    BY <1>t, <2>1 DEF LoopInv, BoundaryIssued
  <2>3. EarlyNumbered'
    BY <1>t, <2>1, <2>2 DEF ReserveInv, EarlyNumbered
  <2>4. ReservedCapacity'
    BY <2>1 DEF ReserveInv, ReservedCapacity, WaitingOld, qsize, Seqs, Dequeued
  <2> QED BY <2>3, <2>4 DEF ReserveInv
<1>2. ASSUME NEW t \in Tasks, Admit(t) PROVE ReserveInv'
  <2>1. /\ UNCHANGED <<rows, boundary, dequeued, item>> /\ ppc[t] = "numbered"
        /\ pending' = pending \cup {item[t].seq} /\ ppc' = [ppc EXCEPT ![t] = "admitted"]
    BY <1>2 DEF Admit, admit
  <2>2. EarlyNumbered'
    BY <1>t, <2>1 DEF ReserveInv, EarlyNumbered
  <2>3. CASE item[t].seq <= boundary
    BY <2>1, <2>2, <2>3, ReserveFree DEF ReserveInv, EarlyNumbered
  <2>4. CASE ~(item[t].seq <= boundary)
    <3>1. WaitingOld' = WaitingOld
      BY <2>1, <2>4 DEF WaitingOld, Seqs, Dequeued
    <3>2. qsize' = qsize
      BY <2>1 DEF qsize
    <3> QED BY <1>t, <1>q, <2>1, <2>2, <3>1, <3>2, ReserveShrinks DEF ReserveInv
  <2> QED BY <2>3, <2>4
<1>3. ASSUME NEW t \in Tasks, Put(t) \/ ResumePut(t) PROVE ReserveInv'
  <2>1. /\ put_nowait(t, item[t]) /\ t \in Producers
        /\ ppc' = [ppc EXCEPT ![t] = "idle"]
    BY <1>3 DEF Put, ResumePut, Leave, Producers
  <2>2. ReservedCapacity'
    BY <1>t, <2>1, ReservePut
  <2>3. \A u \in Tasks : ppc'[u] # "numbered"
    BY <1>t, <1>3, <2>1 DEF Put, ResumePut, LoopFree, LoopInv, OneHolder
  <2> QED BY <2>2, <2>3 DEF ReserveInv, EarlyNumbered
<1>4. ASSUME NEW t \in Tasks, Shed(t) \/ ResumeCancelled(t) PROVE ReserveInv'
  <2>1. /\ pending' = pending \ {item[t].seq} /\ UNCHANGED <<rows, boundary, dequeued>>
        /\ ppc' = [ppc EXCEPT ![t] = "idle"] /\ item' = [item EXCEPT ![t] = NoItem]
    BY <1>4 DEF Shed, ResumeCancelled, forget, put_cancelled, Leave
  <2>2. \A u \in Tasks : ppc'[u] = "numbered" => ppc[u] = "numbered" /\ item'[u] = item[u]
    BY <1>t, <2>1
  <2>3. Seqs(rows)' = Seqs(rows) /\ Dequeued' = Dequeued /\ qsize' = qsize
    BY <2>1 DEF Seqs, Dequeued, qsize
  <2> QED BY <1>t, <1>q, <2>1, <2>2, <2>3, ReserveLess
<1>5. ASSUME NEW t \in Tasks, Wait(t) \/ ResumeWait(t) \/ Cancel(t) PROVE ReserveInv'
  <2>1. /\ UNCHANGED <<rows, boundary, pending, dequeued, item>>
        /\ \A u \in Tasks : ppc'[u] = "numbered" => ppc[u] = "numbered"
    BY <1>t, <1>5 DEF Wait, ResumeWait, Cancel, put_wait
  <2> QED BY <2>1, ReserveStutter
<1>6. ASSUME NEW m \in Mints, Promote(m) PROVE ReserveInv'
  <2> DEFINE f == [r \in rows |-> IF r.mint = m THEN [r EXCEPT !.priority = 0] ELSE r]
  <2>1. /\ rows' = {f[r] : r \in rows}
        /\ UNCHANGED <<boundary, pending, dequeued, ppc, item>>
    BY <1>6 DEF Promote, promote_mint
  <2>2. \A r \in rows : f[r].seq = r.seq /\ f[r].later = r.later
    <3> TAKE r \in rows
    <3>1. r \in Row
      BY <1>t DEF QueueTypeOK
    <3>2. CASE r.mint = m
      <4>1. f[r] = [r EXCEPT !.priority = 0]
        BY <3>2
      <4> QED BY <3>1, <4>1 DEF Row
    <3>3. CASE r.mint # m
      BY <3>3
    <3> QED BY <3>2, <3>3
  <2>3. f \in Surjection(rows, rows')
    BY <2>1 DEF Surjection
  <2>4. qsize' <= qsize
    BY <1>t, <2>3, FS_Surjection DEF QueueTypeOK, qsize
  <2> HIDE DEF f
  <2>5. Seqs(rows)' = Seqs(rows) /\ Dequeued' = Dequeued
    BY <2>1, <2>2 DEF Seqs, Dequeued
  <2>6. \A r \in rows' : \E q \in rows : q.later = r.later
    BY <2>1, <2>2
  <2> QED BY <1>t, <2>1, <2>4, <2>5, <2>6, ReserveLess
<1>7. ASSUME NEW m \in Mints, Settle(m) PROVE ReserveInv'
  BY <1>7, ReserveStutter DEF Settle
<1>8. ASSUME NEW r \in rows, Take(r) \/ Prefetch(r) \/ TakeUrgent(r) PROVE ReserveInv'
  <2>1. /\ rows' = rows \ {r} /\ dequeued' = Append(dequeued, r.seq)
        /\ UNCHANGED <<boundary, pending, ppc, item>>
    BY <1>8 DEF Take, Prefetch, TakeUrgent, get_nowait_before, get_nowait
  <2>2. dequeued \in Seq(Nat) /\ r.seq \in Nat
    BY <1>t DEF QueueTypeOK, Row
  <2>3. Dequeued' = Dequeued \cup {r.seq}
    <3>1. /\ Len(dequeued) \in Nat /\ DOMAIN dequeued = 1..Len(dequeued)
          /\ DOMAIN dequeued' = 1..(Len(dequeued) + 1)
          /\ \A i \in 1..Len(dequeued) : dequeued'[i] = dequeued[i]
          /\ dequeued'[Len(dequeued) + 1] = r.seq
      BY <2>1, <2>2, AppendProperties, LenProperties
    <3>2. \A i \in DOMAIN dequeued' : i \in DOMAIN dequeued \/ i = Len(dequeued) + 1
      BY <3>1
    <3>3. \A i \in DOMAIN dequeued : i \in DOMAIN dequeued'
      BY <3>1
    <3>4. Len(dequeued) + 1 \in DOMAIN dequeued'
      BY <3>1
    <3> QED BY <3>1, <3>2, <3>3, <3>4 DEF Dequeued
  <2>4. Seqs(rows) \subseteq Seqs(rows)' \cup {r.seq}
    BY <2>1 DEF Seqs
  <2>5. qsize' <= qsize
    BY <1>t, <2>1, FS_Subset DEF QueueTypeOK, qsize
  <2> QED BY <1>t, <2>1, <2>3, <2>4, <2>5, ReserveLess
<1>9. ASSUME NEW s \in todo, Handle(s) \/ Skip(s) PROVE ReserveInv'
  BY <1>9, ReserveStutter DEF Handle, Skip
<1>10. CASE \/ StartBatch \/ BeginPrefetch \/ EndPrefetch \/ EndBatch \/ BatchDone
            \/ FinishRequested \/ FinishLock \/ FinishRoll
  BY <1>10, ReserveStutter DEF StartBatch, BeginPrefetch, EndPrefetch, EndBatch, BatchDone,
                               FinishRequested, FinishLock, FinishRoll
<1>11. CASE TaskDone
  <2>1. /\ UNCHANGED <<rows, boundary, ppc, item>> /\ pending' = pending \ {Head(dequeued)}
        /\ dequeued' = Tail(dequeued) /\ dequeued # <<>> /\ dequeued \in Seq(Nat)
    BY <1>t, <1>11 DEF TaskDone, task_done, QueueTypeOK
  <2>2. \A i, j \in DOMAIN dequeued : dequeued[i] = dequeued[j] => i = j
    BY DEF ReceiptInv, ReceiptsAccounted
  <2> DEFINE e == Tail(dequeued)
  <2>3. /\ {e[i] : i \in DOMAIN e} = {dequeued[i] : i \in DOMAIN dequeued} \ {Head(dequeued)}
        /\ Head(dequeued) \in {dequeued[i] : i \in DOMAIN dequeued}
    BY <2>1, <2>2, PopReceipt
  <2>4. dequeued' = e
    BY <2>1
  <2> HIDE DEF e
  <2>5. Dequeued' = Dequeued \ {Head(dequeued)} /\ Head(dequeued) \in pending
    BY <2>3, <2>4 DEF Dequeued, ReceiptInv, ReceiptsAccounted
  <2>6. Seqs(rows)' = Seqs(rows) /\ qsize' = qsize
    BY <2>1 DEF Seqs, qsize
  <2> QED BY <1>t, <1>q, <2>1, <2>5, <2>6, ReserveLess
<1>12. CASE FinishTick \/ HeartbeatBegin
  <2>1. \/ UNCHANGED <<rows, boundary, pending, dequeued>>
        \/ rows' = Unpark(rows)
    BY <1>12 DEF FinishTick, HeartbeatBegin, begin_boundary
  <2>2. UNCHANGED <<ppc, item>>
    BY <1>12 DEF FinishTick, HeartbeatBegin
  <2>3. CASE UNCHANGED <<rows, boundary, pending, dequeued>>
    BY <2>2, <2>3, ReserveStutter
  <2>4. CASE rows' = Unpark(rows)
    BY <1>t, <2>4, UnparkedRows, ReserveFree DEF ReserveInv
  <2> QED BY <2>1, <2>3, <2>4
<1>13. CASE FinishEnd
  <2>1. rows' = Unpark(rows)
    BY <1>13 DEF FinishEnd, end_boundary
  <2> QED BY <1>t, <2>1, UnparkedRows, ReserveFree DEF ReserveInv
<1>14. CASE \/ HeartbeatLock \/ HeartbeatReadBatches \/ HeartbeatReadQueue
            \/ HeartbeatReadSequence \/ HeartbeatRoll
  BY <1>14, ReserveStutter DEF HeartbeatLock, HeartbeatReadBatches, HeartbeatReadQueue,
                               HeartbeatReadSequence, HeartbeatRoll
<1>15. CASE SwitchLock
  BY <1>15, ReserveStutter DEF SwitchLock
<1>16. CASE SwitchSource
  <2>1. rows' = {}
    BY <1>16 DEF SwitchSource, discard_queued
  <2> QED BY <2>1, ReserveFree DEF ReserveInv
<1>17. CASE UNCHANGED vars
  BY <1>17, ReserveStutter DEF vars
<1> QED BY <1>1, <1>2, <1>3, <1>4, <1>5, <1>6, <1>7, <1>8, <1>9, <1>10, <1>11, <1>12, <1>13,
           <1>14, <1>15, <1>16, <1>17 DEF Next, Producer, Worker, Heartbeat, Environment

\* What every step keeps, with the initial pipeline.
CoordinationInv == TypeOK /\ ReceiptInv /\ LoopInv /\ ReserveInv

LEMMA CoordinationHolds == Spec => []CoordinationInv
<1>1. Init => LoopInv /\ ReserveInv
  <2> SUFFICES ASSUME Init PROVE LoopInv /\ ReserveInv
    OBVIOUS
  <2>1. LoopInv
    BY DEF Init, QueueInit, LoopInv, OneHolder, LockKept, BoundaryIssued, NoBoundary
  <2>2. ReserveInv
    BY DEF Init, QueueInit, ReserveInv, ReservedCapacity, EarlyNumbered
  <2> QED BY <2>1, <2>2
<1>2. CoordinationInv /\ [Next]_vars => CoordinationInv'
  BY StepType, ReceiptStep, LoopStep, ReserveStep DEF CoordinationInv
<1>3. Init => CoordinationInv
  BY <1>1, InitType, ReceiptInit DEF CoordinationInv
<1> QED BY <1>2, <1>3, PTL DEF Spec

\* Once rows are parked, every old producer still fits beside what is queued: a new season's
\* arrivals never take the capacity the closing season needs to finish.
THEOREM CapacityStaysReserved == Spec => []ReservedCapacity
<1>1. CoordinationInv => ReservedCapacity
  BY DEF CoordinationInv, ReserveInv
<1> QED BY <1>1, CoordinationHolds, PTL

-----------------------------------------------------------------------------
(* The handover.  What a boundary owes only shrinks, and between finding the *)
(* boundary ready and rolling the season over the worker, which lets the     *)
(* loop run in between, cannot be overtaken by work of the closing season.   *)

\* A step that holds on to its boundary and brings no old receipt.
LEMMA OwedStutter ==
    ASSUME UNCHANGED boundary, pending' \subseteq pending,
           \A t \in Tasks : ppc'[t] = "numbered" => ppc[t] = "numbered" /\ item'[t] = item[t]
    PROVE  Owed' \subseteq Owed
BY DEF Owed

\* One step never adds to what the active boundary waits for.
LEMMA OwedStep ==
    ASSUME TypeOK, ReceiptInv, LoopInv, [Next]_vars, boundary_active, boundary' = boundary
    PROVE  Owed' \subseteq Owed
<1> USE DEF producerVars, workerVars, heartbeatVars, seasonVars, queueVars, WorkerRest, HeartbeatRest
<1>t. /\ ppc \in [Tasks -> {"idle", "numbered", "admitted", "waiting"}]
      /\ item \in [Tasks -> Item] /\ eventSequence \in Nat /\ boundary \in Nat
  BY BoundsAssumption DEF TypeOK, QueueTypeOK
<1>1. ASSUME NEW t \in Tasks, NEW p \in Priorities, NEW m \in Mints, Number(t, p, m)
      PROVE  Owed' \subseteq Owed
  <2>1. /\ pending' = pending
        /\ item' = [item EXCEPT ![t] = [priority |-> p, seq |-> eventSequence + 1, mint |-> m]]
        /\ ppc' = [ppc EXCEPT ![t] = "numbered"]
    BY <1>1 DEF Number
  <2>2. item'[t].seq > boundary
    BY <1>t, <2>1 DEF LoopInv, BoundaryIssued
  <2>3. \A u \in Tasks : ppc'[u] = "numbered" /\ item'[u].seq <= boundary =>
                            ppc[u] = "numbered" /\ item'[u] = item[u]
    BY <1>t, <2>1, <2>2
  <2> QED BY <2>1, <2>3 DEF Owed
<1>2. ASSUME NEW t \in Tasks, Admit(t) PROVE Owed' \subseteq Owed
  <2>1. /\ pending' = pending \cup {item[t].seq} /\ UNCHANGED item
        /\ ppc[t] = "numbered" /\ ppc' = [ppc EXCEPT ![t] = "admitted"]
    BY <1>2 DEF Admit, admit
  <2>2. \A u \in Tasks : ppc'[u] = "numbered" => ppc[u] = "numbered"
    BY <1>t, <2>1
  <2> QED BY <2>1, <2>2 DEF Owed
<1>3. ASSUME NEW t \in Tasks, Put(t) \/ ResumePut(t) \/ Shed(t) \/ ResumeCancelled(t)
      PROVE  Owed' \subseteq Owed
  <2>1. /\ t \in Producers /\ pending' \subseteq pending \cup {item[t].seq}
        /\ ppc' = [ppc EXCEPT ![t] = "idle"] /\ item' = [item EXCEPT ![t] = NoItem]
    BY <1>3 DEF Put, ResumePut, Shed, ResumeCancelled, put_nowait, forget, put_cancelled,
                Leave, Producers
  <2>2. item[t].seq \in pending
    BY <2>1 DEF ReceiptInv, ReceiptsAccounted, Held
  <2>3. \A u \in Tasks : ppc'[u] = "numbered" => ppc[u] = "numbered" /\ item'[u] = item[u]
    BY <1>t, <2>1
  <2> QED BY <2>1, <2>2, <2>3, OwedStutter
<1>4. ASSUME NEW t \in Tasks, Wait(t) \/ ResumeWait(t) \/ Cancel(t) PROVE Owed' \subseteq Owed
  <2>1. /\ UNCHANGED <<pending, item>>
        /\ \A u \in Tasks : ppc'[u] = "numbered" => ppc[u] = "numbered"
    BY <1>t, <1>4 DEF Wait, ResumeWait, Cancel, put_wait
  <2> QED BY <2>1, OwedStutter
<1>5. CASE \/ \E m \in Mints : Promote(m) \/ Settle(m)
           \/ \E r \in rows : Take(r) \/ Prefetch(r) \/ TakeUrgent(r)
           \/ \E s \in todo : Handle(s) \/ Skip(s)
  <2>1. UNCHANGED <<pending, ppc, item>>
    BY <1>5 DEF Promote, promote_mint, Settle, Take, Prefetch, TakeUrgent, get_nowait_before,
                get_nowait, Handle, Skip
  <2> QED BY <2>1, OwedStutter
<1>6. CASE \/ StartBatch \/ BeginPrefetch \/ EndPrefetch \/ EndBatch \/ TaskDone \/ BatchDone
           \/ FinishRequested \/ FinishLock \/ FinishTick \/ FinishRoll \/ FinishEnd
  <2>1. pending' \subseteq pending /\ UNCHANGED <<ppc, item>>
    BY <1>6 DEF StartBatch, BeginPrefetch, EndPrefetch, EndBatch, TaskDone, task_done, BatchDone,
                FinishRequested, FinishLock, FinishTick, begin_boundary, FinishRoll, FinishEnd,
                end_boundary
  <2> QED BY <2>1, OwedStutter
<1>7. CASE HeartbeatLock \/ Heartbeat
  <2>1. pending' = pending /\ UNCHANGED <<ppc, item>>
    BY <1>7 DEF HeartbeatLock, Heartbeat, HeartbeatReadBatches, HeartbeatReadQueue,
                HeartbeatReadSequence, HeartbeatRoll, HeartbeatBegin, begin_boundary
  <2> QED BY <2>1, OwedStutter
<1>8. CASE SwitchLock \/ SwitchSource \/ UNCHANGED vars
  <2>1. pending' \subseteq pending /\ UNCHANGED <<ppc, item>>
    BY <1>8 DEF SwitchLock, SwitchSource, discard_queued, vars
  <2> QED BY <2>1, OwedStutter
<1> QED BY <1>1, <1>2, <1>3, <1>4, <1>5, <1>6, <1>7, <1>8
        DEF Next, Producer, Worker, Environment

\* From the ready boundary to the roll.  "finish" waits for _event_lock, so a source switch
\* may take the boundary away and the heartbeat begin another; what then is owed is queued
\* or about to be, because a producer only waits at a full queue.
HandoverInv ==
    /\ wpc \in {"top", "finish", "tick", "roll", "end"} => dequeued = <<>>
    /\ wpc = "finish" /\ rows = {} =>
          \A t \in Tasks : ppc[t] = "waiting" => boundary_active /\ item[t].seq > boundary
    /\ wpc \in {"tick", "roll"} /\ boundary_active =>
          \A t \in Tasks : ppc[t] = "numbered" => item[t].seq > boundary
    /\ wpc = "tick" /\ boundary_active => rows # {} \/ \A s \in pending : s > boundary
    /\ wpc = "roll" /\ boundary_active => \A s \in pending : s > boundary

\* A step outside the worker's finish that parks nobody and empties nothing.
LEMMA HandoverStutter ==
    ASSUME HandoverInv, UNCHANGED <<wpc, boundary, dequeued>>,
           pending' \subseteq pending, rows' = {} => rows = {},
           \A t \in Tasks : ppc'[t] \in {"numbered", "waiting"} =>
                               ppc'[t] = ppc[t] /\ item'[t] = item[t]
    PROVE  HandoverInv'
BY DEF HandoverInv, boundary_active

\* A producer waits at a full queue or behind the boundary.
LEMMA WaitsWhenFull ==
    ASSUME QueueTypeOK, NEW s \in Nat, Refused(s), rows = {}
    PROVE  boundary_active /\ s > boundary
<1>1. qsize = 0
  BY FS_EmptySet DEF qsize
<1>2. ~full
  BY <1>1, MaxSizeAssumption DEF full
<1> QED BY <1>2 DEF Refused

\* An empty queue size means no rows.
LEMMA EmptySize ==
    ASSUME QueueTypeOK, qsize = 0
    PROVE  rows = {}
BY FS_EmptySet DEF QueueTypeOK, qsize

\* Every step keeps the way to the roll.
LEMMA HandoverStep ==
    ASSUME TypeOK, ReceiptInv, LoopInv, HandoverInv, [Next]_vars
    PROVE  HandoverInv'
<1> USE DEF producerVars, workerVars, heartbeatVars, seasonVars, queueVars, WorkerRest, HeartbeatRest
<1>t. /\ ppc \in [Tasks -> {"idle", "numbered", "admitted", "waiting"}]
      /\ item \in [Tasks -> Item] /\ eventSequence \in Nat /\ boundary \in Nat
      /\ QueueTypeOK /\ pending \subseteq Nat
  BY BoundsAssumption DEF TypeOK, QueueTypeOK
<1>1. ASSUME NEW t \in Tasks, NEW p \in Priorities, NEW m \in Mints, Number(t, p, m)
      PROVE  HandoverInv'
  <2>1. /\ UNCHANGED <<wpc, boundary, dequeued, pending, rows>>
        /\ item' = [item EXCEPT ![t] = [priority |-> p, seq |-> eventSequence + 1, mint |-> m]]
        /\ ppc' = [ppc EXCEPT ![t] = "numbered"]
    BY <1>1 DEF Number
  <2>2. item'[t].seq > boundary
    BY <1>t, <2>1 DEF LoopInv, BoundaryIssued
  <2>3. \A u \in Tasks : u # t => ppc'[u] = ppc[u] /\ item'[u] = item[u]
    BY <1>t, <2>1
  <2>4. ppc'[t] = "numbered"
    BY <1>t, <2>1
  <2> QED BY <2>1, <2>2, <2>3, <2>4 DEF HandoverInv, boundary_active
<1>2. ASSUME NEW t \in Tasks, Admit(t) PROVE HandoverInv'
  <2>1. /\ UNCHANGED <<wpc, rows, boundary, dequeued, item>> /\ ppc[t] = "numbered"
        /\ pending' = pending \cup {item[t].seq} /\ ppc' = [ppc EXCEPT ![t] = "admitted"]
    BY <1>2 DEF Admit, admit
  <2>2. \A u \in Tasks : ppc'[u] \in {"numbered", "waiting"} => ppc'[u] = ppc[u]
    BY <1>t, <2>1
  <2> QED BY <2>1, <2>2 DEF HandoverInv, boundary_active
<1>3. ASSUME NEW t \in Tasks, Put(t) \/ ResumePut(t) \/ Shed(t) \/ ResumeCancelled(t)
      PROVE  HandoverInv'
  <2>1. /\ t \in Producers /\ pending' \subseteq pending \cup {item[t].seq}
        /\ rows \subseteq rows' /\ UNCHANGED <<wpc, boundary, dequeued>>
        /\ ppc' = [ppc EXCEPT ![t] = "idle"] /\ item' = [item EXCEPT ![t] = NoItem]
    BY <1>3 DEF Put, ResumePut, Shed, ResumeCancelled, put_nowait, forget, put_cancelled,
                Leave, Producers
  <2>2. item[t].seq \in pending
    BY <2>1 DEF ReceiptInv, ReceiptsAccounted, Held
  <2>3. \A u \in Tasks : ppc'[u] \in {"numbered", "waiting"} => ppc'[u] = ppc[u] /\ item'[u] = item[u]
    BY <1>t, <2>1
  <2> QED BY <2>1, <2>2, <2>3, HandoverStutter
<1>4. ASSUME NEW t \in Tasks, Wait(t) PROVE HandoverInv'
  <2>1. /\ UNCHANGED <<wpc, rows, boundary, dequeued, pending, item>>
        /\ ppc' = [ppc EXCEPT ![t] = "waiting"] /\ Refused(item[t].seq)
    BY <1>4 DEF Wait, put_wait
  <2>2. rows = {} => boundary_active /\ item[t].seq > boundary
    BY <1>t, <2>1, WaitsWhenFull DEF Item
  <2>3. \A u \in Tasks : u # t => ppc'[u] = ppc[u]
    BY <1>t, <2>1
  <2>4. ppc'[t] = "waiting"
    BY <1>t, <2>1
  <2> QED BY <2>1, <2>2, <2>3, <2>4 DEF HandoverInv, boundary_active
<1>5. ASSUME NEW t \in Tasks, ResumeWait(t) \/ Cancel(t) PROVE HandoverInv'
  BY <1>5, HandoverStutter DEF ResumeWait, Cancel, put_wait
<1>6. ASSUME NEW m \in Mints, Promote(m) \/ Settle(m) PROVE HandoverInv'
  <2>1. UNCHANGED <<wpc, boundary, dequeued, pending, ppc, item>> /\ (rows' = {} => rows = {})
    BY <1>6 DEF Promote, Settle, promote_mint
  <2> QED BY <2>1, HandoverStutter
<1>7. ASSUME NEW r \in rows, Take(r) \/ Prefetch(r) \/ TakeUrgent(r) PROVE HandoverInv'
  <2>1. wpc' \in {"got", "prefetch", "process"}
    BY <1>7 DEF Take, Prefetch, TakeUrgent
  <2> QED BY <2>1 DEF HandoverInv
<1>8. ASSUME NEW s \in todo, Handle(s) \/ Skip(s) PROVE HandoverInv'
  BY <1>8, HandoverStutter DEF Handle, Skip
<1>9. CASE \/ StartBatch \/ BeginPrefetch \/ EndPrefetch \/ EndBatch \/ TaskDone
  <2>1. wpc' \in {"sleep", "prefetch", "process", "done"}
    BY <1>9 DEF StartBatch, BeginPrefetch, EndPrefetch, EndBatch, TaskDone
  <2> QED BY <2>1 DEF HandoverInv
<1>10. CASE BatchDone \/ FinishEnd
  <2>1. wpc' = "top" /\ dequeued' = <<>>
    BY <1>10 DEF BatchDone, FinishEnd, end_boundary, HandoverInv
  <2> QED BY <2>1 DEF HandoverInv
<1>11. CASE FinishRequested
  <2>1. wpc = "top" /\ wpc' = "finish" /\ UNCHANGED <<rows, boundary, pending, dequeued, ppc, item>>
        /\ boundary_ready
    BY <1>11 DEF FinishRequested
  <2>2. \A t \in Tasks : ppc[t] = "waiting" => item[t].seq \in pending
    BY DEF ReceiptInv, ReceiptsAccounted, Held, Producers
  <2> QED BY <2>1, <2>2 DEF HandoverInv, boundary_ready, boundary_active
<1>12. CASE FinishLock
  <2>1. /\ wpc = "finish" /\ wpc' = "tick" /\ LoopFree
        /\ UNCHANGED <<rows, boundary, pending, dequeued, ppc, item>>
    BY <1>12 DEF FinishLock
  <2>2. \A t \in Tasks : ppc[t] \notin {"numbered", "admitted"}
    BY <2>1 DEF LoopFree
  <2>3. rows = {} => \A s \in pending : boundary_active => s > boundary
    <3>1. dequeued = <<>> /\ Dequeued = {}
      BY <2>1 DEF HandoverInv, Dequeued
    <3>2. rows = {} => Seqs(rows) = {}
      BY DEF Seqs
    <3>3. \A s \in Held : rows = {} => s > boundary
      BY <2>1, <2>2 DEF Held, Producers, HandoverInv
    <3> QED BY <3>1, <3>2, <3>3 DEF ReceiptInv, ReceiptsAccounted
  <2> QED BY <2>1, <2>2, <2>3 DEF HandoverInv, boundary_active
<1>13. CASE FinishTick
  <2>1. wpc = "tick" /\ UNCHANGED <<ppc, item>>
    BY <1>13 DEF FinishTick
  <2>2. CASE inFlight = 0 /\ QueueIdle
    <3>1. wpc' = "roll" /\ UNCHANGED <<rows, boundary, pending, dequeued>>
      BY <1>13, <2>2 DEF FinishTick
    <3>2. boundary_active => \A s \in pending : s > boundary
      BY <1>t, <2>1, <2>2, EmptySize DEF QueueIdle, boundary_ready, HandoverInv
    <3> QED BY <2>1, <3>1, <3>2 DEF HandoverInv, boundary_active
  <2>3. CASE ~(inFlight = 0 /\ QueueIdle)
    <3>1. wpc' = "end" /\ dequeued' = dequeued
      BY <1>13, <2>3 DEF FinishTick, begin_boundary
    <3> QED BY <2>1, <3>1 DEF HandoverInv
  <2> QED BY <2>2, <2>3
<1>14. CASE FinishRoll
  <2>1. wpc = "roll" /\ wpc' = "end" /\ dequeued' = dequeued
    BY <1>14 DEF FinishRoll
  <2> QED BY <2>1 DEF HandoverInv
<1>15. CASE HeartbeatBegin
  <2>1. lock = "heartbeat" /\ wpc \notin {"tick", "roll", "end"}
    BY <1>15 DEF HeartbeatBegin, LoopInv, LockKept
  <2>2. UNCHANGED <<wpc, dequeued, pending, ppc, item>>
    BY <1>15 DEF HeartbeatBegin, begin_boundary
  <2>3. CASE boundary_active
    <3>1. UNCHANGED <<rows, boundary>>
      BY <1>15, <2>3 DEF HeartbeatBegin, begin_boundary
    <3> QED BY <2>2, <3>1, HandoverStutter
  <2>4. CASE ~boundary_active
    <3>1. rows' = Unpark(rows)
      BY <1>15, <2>4 DEF HeartbeatBegin, begin_boundary
    <3>2. rows' = {} => rows = {}
      BY <3>1 DEF Unpark
    <3> QED BY <2>1, <2>2, <2>4, <3>2 DEF HandoverInv
  <2> QED BY <2>3, <2>4
<1>16. CASE \/ HeartbeatLock \/ HeartbeatReadBatches \/ HeartbeatReadQueue
            \/ HeartbeatReadSequence \/ HeartbeatRoll
  BY <1>16, HandoverStutter DEF HeartbeatLock, HeartbeatReadBatches, HeartbeatReadQueue,
                                HeartbeatReadSequence, HeartbeatRoll
<1>17. CASE SwitchLock
  BY <1>17, HandoverStutter DEF SwitchLock
<1>18. CASE SwitchSource
  <2>1. lock = "switch" /\ wpc \notin {"tick", "roll", "end"}
    BY <1>18 DEF SwitchSource, LoopInv, LockKept
  <2>2. UNCHANGED <<wpc, dequeued, ppc, item>> /\ \A t \in Tasks : ppc[t] = "idle"
    BY <1>18 DEF SwitchSource, discard_queued
  <2> QED BY <2>1, <2>2 DEF HandoverInv
<1>19. CASE UNCHANGED vars
  BY <1>19, HandoverStutter DEF vars
<1> QED BY <1>1, <1>2, <1>3, <1>4, <1>5, <1>6, <1>7, <1>8, <1>9, <1>10, <1>11, <1>12, <1>13,
           <1>14, <1>15, <1>16, <1>17, <1>18, <1>19
        DEF Next, Producer, Worker, Heartbeat, Environment

\* A season that rolls over under the worker's lock leaves nothing behind its boundary.
LEMMA RollStep ==
    ASSUME LoopInv, HandoverInv, [Next]_vars, season' # season, lock = "worker", boundary_active
    PROVE  \A s \in pending : s > boundary
<1> USE DEF producerVars, workerVars, heartbeatVars, seasonVars, queueVars, WorkerRest, HeartbeatRest
<1>1. FinishRoll \/ HeartbeatRoll
  BY DEF Next, Producer, Admit, Put, Shed, Wait, ResumePut, ResumeWait, ResumeCancelled, Leave,
         Worker, Take, Prefetch, TakeUrgent, StartBatch, BeginPrefetch, EndPrefetch, Handle, Skip,
         EndBatch, TaskDone, BatchDone, FinishRequested, FinishLock, FinishTick, FinishEnd,
         Heartbeat, HeartbeatReadBatches, HeartbeatReadQueue, HeartbeatReadSequence,
         HeartbeatBegin, SwitchSource, Environment, Number, Cancel, Promote, Settle,
         HeartbeatLock, SwitchLock, vars
<1>2. CASE FinishRoll
  BY <1>2 DEF FinishRoll, HandoverInv
<1>3. CASE HeartbeatRoll
  BY <1>3 DEF HeartbeatRoll, LoopInv, LockKept
<1> QED BY <1>1, <1>2, <1>3

\* What a season boundary waits for only shrinks, and the worker hands the season over
\* after all of it, whatever arrives, gives up or switches source meanwhile.
THEOREM HandoverStaysOrdered == Spec => HandoverIsOrdered
<1>1. Init => HandoverInv
  BY DEF Init, QueueInit, HandoverInv
<1>2. CoordinationInv /\ HandoverInv /\ [Next]_vars => HandoverInv'
  BY HandoverStep DEF CoordinationInv
<1>3. CoordinationInv /\ HandoverInv /\ [Next]_vars =>
        [boundary_active /\ boundary' = boundary => Owed' \subseteq Owed]_vars
  BY OwedStep DEF CoordinationInv
<1>4. CoordinationInv /\ HandoverInv /\ [Next]_vars =>
        [season' # season /\ lock = "worker" /\ boundary_active =>
           \A s \in pending : s > boundary]_vars
  BY RollStep DEF CoordinationInv
<1>5. Spec => [](CoordinationInv /\ HandoverInv)
  BY <1>1, <1>2, CoordinationHolds, PTL DEF Spec
<1> QED BY <1>3, <1>4, <1>5, PTL DEF Spec, HandoverIsOrdered, OwedOnlyShrinks, WorkerHandoverComplete
=============================================================================
