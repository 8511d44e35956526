---------------------------- MODULE Diagnostics ----------------------------
(***************************************************************************)
(* The diagnostics handoff: DiagnosticsRecorder (diagnostics.py) collects  *)
(* reports and intervals on the event loop, DiagnosticsWriter              *)
(* (diagnostics_worker.py) saves them from its own thread into             *)
(* DiagnosticsStore, and every event that does not reach the store must be *)
(* counted as lost exactly once.  The two threads meet in a mailbox of one *)
(* slot, the `stopping` and `allowed` flags and the loss counters.         *)
(*                                                                         *)
(* Event payloads are abstracted to an identity, a kind and a scope; wall  *)
(* clock and cadence are abstracted to the steps that let them pass.       *)
(***************************************************************************)
EXTENDS Integers, Sequences, FiniteSets, SequencesExt

CONSTANTS
    NONE,           \* Python's None, also the mailbox sentinel
    Keys,           \* optional report streams (kind, lane, part) of optional_key
    Scopes,         \* scopes an optional report may carry
    EventCap,       \* 8: slots of `events`, and events in one interval
    QueueCap,       \* 4: intervals waiting for the writer
    PublicationCap, \* 4: MAX_PUBLICATIONS_PENDING
    Gaps,           \* values of collect's gap argument (or a late collection)
    MaxEvents,      \* bound: events submitted
    MaxIntervals,   \* bound: intervals collected
    MaxFailures,    \* bound: losses before a further failure of the reporting itself
    FailsFrom       \* bound: events submitted before the reporting itself fails

\* A report, with the scope of its stream when it is optional, and an interval.
Event ==
    {e \in [id : Nat, kind : Keys \cup {"proof", "storage"}, scope : Scopes \cup {NONE}] :
        e.kind \in Keys => e.scope \in Scopes}
Interval == [seq : Nat, events : Seq(Event), gap : BOOLEAN]

ASSUME DiagnosticsBounds ==
    /\ EventCap \in Nat \ {0, 1}
    /\ QueueCap \in Nat \ {0}
    /\ PublicationCap \in Nat \ {0}
    /\ "proof" \notin Keys /\ "storage" \notin Keys
    /\ Gaps \subseteq BOOLEAN
    /\ NONE \notin Interval /\ NONE \notin Nat

VARIABLES
    \* Event loop: the recorder.
    started,        \* DiagnosticsRecorder.writer is not None
    stopped,        \* DiagnosticsRecorder.stop has run
    submitted,      \* events handed to the recorder, also the last identity
    events,         \* self.events
    publications,   \* self.publications
    queue,          \* self.queue: serialised intervals
    collected,      \* self._optional_collected while the 300 s cadence runs
    sequence,       \* self.sequence
    dropped,        \* self.dropped
    watermark,      \* previous_dropped, previous_uncertain, _loss_since_collection
    reading,        \* NONE, or the total_dropped collect() has just read
    loss,           \* events lost, by where and by category
    coalesced,      \* self.optional_coalesced
    \* Shared with the writer thread.
    messages, stopping, allowed, rejected, uncertain,
    \* The writer thread and the store.
    pc, raw, stored, saved,
    \* History: intervals whose fate is unknown, and the losses (as read by
    \* collect) that some collected interval flags as a recording gap.
    unknown, flagged

recorderVars == <<started, stopped, submitted, events, publications, queue,
                  collected, sequence, dropped, watermark, reading, coalesced>>
sharedVars == <<messages, stopping, allowed, rejected, uncertain>>
writerVars == <<pc, raw, stored, saved>>
historyVars == <<unknown, flagged>>
vars == <<recorderVars, sharedVars, writerVars, historyVars, loss>>

Categories == {"protected", "other"}
Places == {"event_input", "event_capacity", "event_shutdown", "handoff", "writer"}

\* kind in PROTECTED_EVENTS.
Protected(e) == e.kind = "proof"
Category(e) == IF Protected(e) THEN "protected" ELSE "other"
IsOptional(e) == e.kind \in Keys

\* event_counts: what an interval or a group of events carries, by category.
event_counts(s) == [c \in Categories |-> Cardinality({i \in DOMAIN s : Category(s[i]) = c})]

\* protected(raw): the interval carries training or proof evidence.
protected(r) == event_counts(r.events)["protected"] > 0

add_counts(counts, s) == [c \in Categories |-> counts[c] + event_counts(s)[c]]

\* _record_loss for each event of s.
Lost(place, s) == [loss EXCEPT ![place] = add_counts(@, s)]

NewEvent(kind, scope) == [id |-> submitted + 1, kind |-> kind, scope |-> scope]

Init ==
    /\ started = FALSE /\ stopped = FALSE /\ submitted = 0
    /\ events = <<>> /\ publications = <<>> /\ queue = <<>>
    /\ collected = [k \in Keys |-> NONE]
    /\ sequence = 0 /\ dropped = 0
    /\ watermark = [dropped |-> 0, uncertain |-> 0, since |-> FALSE]
    /\ reading = NONE
    /\ loss = [p \in Places |-> [c \in Categories |-> 0]]
    /\ coalesced = 0
    /\ messages = <<>> /\ stopping = FALSE /\ allowed = FALSE
    /\ rejected = 0 /\ uncertain = 0
    /\ pc = "unborn" /\ raw = NONE /\ stored = {} /\ saved = 0
    /\ unknown = {} /\ flagged = [dropped |-> 0, uncertain |-> 0]

\* The recorder's methods run on the event loop between two awaits: nothing but
\* the writer thread can interleave with them, and nothing runs after stop().
OnLoop == ~stopped /\ reading = NONE

total_dropped == dropped + rejected

\* The bookkeeping of n calls of _record_loss.
RecordLosses(n) ==
    /\ dropped' = dropped + n
    /\ watermark' = IF n > 0 THEN [watermark EXCEPT !.since = TRUE] ELSE watermark

-----------------------------------------------------------------------------
\* start(): a failure leaves no writer, and the recorder keeps collecting.
start ==
    /\ OnLoop /\ ~started /\ pc = "unborn"
    /\ started' = TRUE /\ pc' = "starting"
    /\ UNCHANGED <<stopped, submitted, events, publications, queue, collected, sequence,
                   dropped, watermark, reading, coalesced, sharedVars, raw, stored, saved,
                   historyVars, loss>>

\* recording_failed(): a failure of the reporting itself, which loses no event.
recording_failed ==
    /\ OnLoop /\ dropped < MaxFailures /\ submitted >= FailsFrom
    /\ RecordLosses(1)
    /\ UNCHANGED <<started, stopped, submitted, events, publications, queue, collected,
                   sequence, reading, coalesced, sharedVars, writerVars, historyVars, loss>>

\* Mutant: the oldest event goes, protected or not.
VictimOldest(s) == 1

\* The place of the event that event() displaces: the oldest unprotected one.
Victim(s) ==
    LET open == {i \in DOMAIN s : ~Protected(s[i])}
    IN  IF open = {} THEN 1 ELSE CHOOSE i \in open : \A j \in open : i <= j

\* event(value): an unserialisable value is an input loss; a full deque gives up
\* its oldest unprotected event, or refuses an unprotected newcomer.
event(kind) ==
    LET e == NewEvent(kind, NONE)
        isFull == Len(events) = EventCap
        noRoom == isFull /\ ~Protected(e) /\ \A i \in DOMAIN events : Protected(events[i])
    IN
    /\ OnLoop /\ submitted < MaxEvents
    /\ submitted' = submitted + 1
    /\ \/ \* _detached_event raised
          /\ loss' = Lost("event_input", <<e>>)
          /\ RecordLosses(1)
          /\ UNCHANGED events
       \/ /\ noRoom
          /\ loss' = Lost("event_capacity", <<e>>)
          /\ RecordLosses(1)
          /\ UNCHANGED events
       \/ /\ isFull /\ ~noRoom
          /\ loss' = Lost("event_capacity", <<events[Victim(events)]>>)
          /\ RecordLosses(1)
          /\ events' = Append(RemoveAt(events, Victim(events)), e)
       \/ /\ ~isFull
          /\ events' = Append(events, e)
          /\ RecordLosses(0)
          /\ UNCHANGED loss
    /\ UNCHANGED <<started, stopped, publications, queue, collected, sequence, reading,
                   coalesced, sharedVars, writerVars, historyVars>>

\* Mutant: the pending report of the stream is not found.
QueuedAtNone(key) == {}

\* The pending report of a stream.
QueuedAt(key) == {i \in DOMAIN events : events[i].kind = key}

\* optional_events for one report: a queued report of the same stream and scope
\* is replaced by the newer sample, one of another scope is kept as it is, and
\* otherwise the report needs its cadence to be over and a free slot.  A call
\* with several reports is a series of these in any order.
optional_events(key, scope) ==
    LET e == NewEvent(key, scope)
        queued == QueuedAt(key)
    IN
    /\ OnLoop /\ submitted < MaxEvents
    /\ \/ /\ queued # {}
          /\ \E i \in queued :
                /\ events[i].scope = scope
                /\ events' = [events EXCEPT ![i] = e]
          /\ coalesced' = coalesced + 1
       \/ /\ queued = {}
          /\ collected[key] # scope
          /\ Len(events) < EventCap
          /\ events' = Append(events, e)
          /\ UNCHANGED coalesced
    /\ submitted' = submitted + 1
    /\ UNCHANGED <<started, stopped, publications, queue, collected, sequence, dropped,
                   watermark, reading, sharedVars, writerVars, historyVars, loss>>

\* optional_events for a report without a valid stream key, or that _detached_event
\* refuses.
optional_event_refused(key) ==
    /\ OnLoop /\ submitted < MaxEvents
    /\ submitted' = submitted + 1
    /\ loss' = Lost("event_input", <<NewEvent(key, NONE)>>)
    /\ RecordLosses(1)
    /\ UNCHANGED <<started, stopped, events, publications, queue, collected, sequence,
                   reading, coalesced, sharedVars, writerVars, historyVars>>

\* 300 seconds pass since the stream was last collected.
CadenceElapses(key) ==
    /\ OnLoop /\ collected[key] # NONE
    /\ collected' = [collected EXCEPT ![key] = NONE]
    /\ UNCHANGED <<started, stopped, submitted, events, publications, queue, sequence,
                   dropped, watermark, reading, coalesced, sharedVars, writerVars,
                   historyVars, loss>>

\* publication(events): n protected reports of one training publication, of which
\* `bad` cannot be built; a full backlog loses its oldest group.
publication(n, bad) ==
    LET group == [i \in 1..n |-> [id |-> submitted + i, kind |-> "proof", scope |-> NONE]]
        fits == SubSeq(group, bad + 1, IF n < EventCap - 1 THEN n ELSE EventCap - 1)
        over == SubSeq(group, EventCap, n)
        hole == SubSeq(group, 1, bad)
        displaced == IF fits # <<>> /\ Len(publications) = PublicationCap
                     THEN Head(publications) ELSE <<>>
    IN
    /\ OnLoop /\ submitted + n <= MaxEvents
    /\ submitted' = submitted + n
    /\ loss' = [loss EXCEPT !["event_input"] = add_counts(@, hole),
                            !["event_capacity"] = add_counts(@, over \o displaced)]
    /\ RecordLosses(Len(hole) + Len(over) + Len(displaced))
    /\ publications' = LET kept == IF displaced # <<>> THEN Tail(publications) ELSE publications
                       IN  IF fits = <<>> THEN publications ELSE Append(kept, fits)
    /\ UNCHANGED <<started, stopped, events, queue, collected, sequence, reading, coalesced,
                   sharedVars, writerVars, historyVars>>

-----------------------------------------------------------------------------
\* _take_events: whole publication groups first, leaving a slot for ordinary
\* reports, then protected events, then the others, oldest first.
GroupsTaken ==
    LET size(k) == Len(FlattenSeq(SubSeq(publications, 1, k)))
        fitting == {k \in 0..Len(publications) : size(k) <= EventCap - 1}
    IN  CHOOSE k \in fitting : \A j \in fitting : j <= k

\* The members of s at the positions of I, oldest first.
Picked(s, I) ==
    [n \in 1..Cardinality(I) |-> s[CHOOSE i \in I : Cardinality({j \in I : j <= i}) = n]]

\* The positions of `events` that the groups leave room for.
TakenAt ==
    LET room == EventCap - Len(FlattenSeq(SubSeq(publications, 1, GroupsTaken)))
        before(i, j) == IF Protected(events[i]) <=> Protected(events[j]) THEN i < j
                        ELSE Protected(events[i])
    IN  {i \in DOMAIN events : Cardinality({j \in DOMAIN events : before(j, i)}) < room}

EventsTaken ==
    LET first == {i \in TakenAt : Protected(events[i])}
    IN  Picked(events, first) \o Picked(events, TakenAt \ first)

TakenEvents == FlattenSeq(SubSeq(publications, 1, GroupsTaken)) \o EventsTaken

RemainingEvents == Picked(events, DOMAIN events \ TakenAt)

\* The cadence of a stream starts when its report is collected.
CollectedNow ==
    [k \in Keys |->
        LET taken == {i \in TakenAt : events[i].kind = k}
        IN  IF taken = {} THEN collected[k] ELSE events[CHOOSE i \in taken : TRUE].scope]

\* collect(), first half: one watermark of the loss counters is read while the
\* writer thread may still be counting.
collect_watermark ==
    /\ OnLoop /\ sequence < MaxIntervals
    /\ reading' = total_dropped
    /\ UNCHANGED <<started, stopped, submitted, events, publications, queue, collected,
                   sequence, dropped, watermark, coalesced, sharedVars, writerVars,
                   historyVars, loss>>

\* recording_gap: a known gap, or any loss since the last watermark.
RecordingGap(gap) ==
    \/ gap \/ watermark.since
    \/ reading > watermark.dropped
    \/ uncertain > watermark.uncertain

\* Mutant: the counters are read again after the gap was decided.
NextWatermarkReread(n) ==
    [dropped |-> total_dropped, uncertain |-> uncertain, since |-> n > 0]

\* What collect() remembers for the next comparison; n losses of its own follow.
NextWatermark(n) ==
    [dropped |-> reading, uncertain |-> uncertain, since |-> n > 0]

\* The interval that a full queue gives up: the oldest one without protected
\* evidence, or the new one when it has none itself.
QueueVictim(q) ==
    LET open == {i \in DOMAIN q : ~protected(q[i])}
    IN  IF open = {} THEN 1 ELSE CHOOSE i \in open : \A j \in open : i <= j

\* collect(), second half.  An interval that cannot be serialised leaves its
\* reports pending; otherwise it is queued for the writer.
collect(gap, fits) ==
    LET r == [seq |-> sequence, events |-> TakenEvents, gap |-> RecordingGap(gap)]
        isFull == Len(queue) = QueueCap
        refused == isFull /\ ~protected(r) /\ \A i \in DOMAIN queue : protected(queue[i])
        lost == IF ~fits \/ isFull THEN 1 ELSE 0
    IN
    /\ reading # NONE
    /\ sequence' = sequence + 1
    /\ watermark' = NextWatermark(lost)
    /\ dropped' = dropped + lost
    /\ flagged' = IF r.gap THEN [dropped |-> reading, uncertain |-> uncertain] ELSE flagged
    /\ reading' = NONE
    /\ IF fits
       THEN /\ publications' = SubSeq(publications, GroupsTaken + 1, Len(publications))
            /\ events' = RemainingEvents
            /\ collected' = CollectedNow
            /\ queue' = IF refused THEN queue
                        ELSE Append(IF isFull THEN RemoveAt(queue, QueueVictim(queue)) ELSE queue, r)
            /\ loss' = IF refused THEN Lost("handoff", r.events)
                       ELSE IF isFull THEN Lost("handoff", queue[QueueVictim(queue)].events)
                       ELSE loss
       ELSE UNCHANGED <<publications, events, collected, queue, loss>>
    /\ UNCHANGED <<started, stopped, submitted, coalesced, sharedVars, writerVars, unknown>>

-----------------------------------------------------------------------------
\* DiagnosticsWriter.offer: refused by a dead or stopping writer and by a full
\* mailbox.
Offered == pc \notin {"unborn", "dead"} /\ ~stopping /\ messages = <<>>

\* flush_one(allowed).
flush_one(permit) ==
    /\ OnLoop /\ started
    /\ allowed' = permit
    /\ IF permit /\ queue # <<>> /\ Offered
       THEN messages' = <<Head(queue)>> /\ queue' = Tail(queue)
       ELSE UNCHANGED <<messages, queue>>
    /\ UNCHANGED <<started, stopped, submitted, events, publications, collected, sequence,
                   dropped, watermark, reading, coalesced, stopping, rejected, uncertain,
                   writerVars, historyVars, loss>>

\* Mutant: the mailbox is emptied without leaving the sentinel.
AfterStopSilent == <<>>

\* request_stop: take the unread record out, leave the sentinel that wakes an
\* idle writer.
AfterStop == <<NONE>>

\* DiagnosticsRecorder.stop with DiagnosticsWriter.request_stop.
stop ==
    LET waiting == FlattenSeq([i \in DOMAIN queue |-> queue[i].events])
        pending == FlattenSeq(publications) \o events
        unread == IF started /\ messages # <<>> /\ messages # <<NONE>>
                  THEN <<messages[1]>> ELSE <<>>
        lost == Len(queue) + Len(pending)
    IN
    /\ OnLoop
    /\ stopped' = TRUE
    /\ queue' = <<>> /\ publications' = <<>> /\ events' = <<>>
    /\ RecordLosses(lost)
    /\ rejected' = rejected + Len(unread)
    /\ loss' = [loss EXCEPT !["handoff"] = add_counts(@, waiting),
                            !["event_shutdown"] = add_counts(@, pending),
                            !["writer"] = IF unread = <<>> THEN @
                                          ELSE add_counts(@, unread[1].events)]
    /\ IF started THEN stopping' = TRUE /\ messages' = AfterStop
                  ELSE UNCHANGED <<stopping, messages>>
    /\ UNCHANGED <<started, submitted, collected, sequence, reading, coalesced, allowed,
                   uncertain, writerVars, historyVars>>

-----------------------------------------------------------------------------
\* The writer thread: DiagnosticsWriter._run.

\* _reject.
Reject(r) ==
    /\ rejected' = rejected + 1
    /\ loss' = Lost("writer", r.events)

WriterFrame == UNCHANGED <<recorderVars, stopping, allowed>>

\* Opening the directory, its lock and the store succeeds or raises.
writer_open ==
    /\ pc = "starting"
    /\ pc' \in {"top", "exit"}
    /\ WriterFrame
    /\ UNCHANGED <<messages, rejected, uncertain, raw, stored, saved, historyVars, loss>>

\* while not self.stopping.is_set().
writer_top ==
    /\ pc = "top"
    /\ pc' = IF stopping THEN "exit" ELSE "get"
    /\ WriterFrame
    /\ UNCHANGED <<messages, rejected, uncertain, raw, stored, saved, historyVars, loss>>

\* self.messages.get(): blocks on an empty mailbox; the sentinel ends the loop.
writer_get ==
    /\ pc = "get" /\ messages # <<>>
    /\ messages' = <<>>
    /\ IF messages[1] = NONE
       THEN pc' = "exit" /\ UNCHANGED raw
       ELSE pc' = "gate" /\ raw' = messages[1]
    /\ WriterFrame
    /\ UNCHANGED <<rejected, uncertain, stored, saved, historyVars, loss>>

\* The record waits for admission and for can_write(), or for the stop.
writer_gate ==
    /\ pc = "gate"
    /\ \/ stopping /\ pc' = "exit"
       \/ ~stopping /\ allowed /\ pc' = "append"
    /\ WriterFrame
    /\ UNCHANGED <<messages, rejected, uncertain, raw, stored, saved, historyVars, loss>>

\* Mutant: a hole in the sequence is stored without its mark.
CommitUnmarked ==
    /\ stored' = stored \cup {raw}
    /\ saved' = raw.seq + 1

\* DiagnosticsStore.append, committed: a duplicate is already stored, and a hole in
\* the boot's sequence marks the interval.
Commit ==
    IF raw.seq < saved THEN UNCHANGED <<stored, saved>>
    ELSE /\ stored' = stored \cup {[raw EXCEPT !.gap = @ \/ raw.seq > saved]}
         /\ saved' = raw.seq + 1

\* append() saves, refuses (False), or raises before or after its commit, also when a
\* stop has been requested meanwhile.
writer_append ==
    /\ pc = "append"
    /\ \/ /\ pc' = "top" /\ raw' = NONE
          /\ Commit
          /\ UNCHANGED <<rejected, loss>>
       \/ /\ pc' = "top" /\ raw' = NONE
          /\ Reject(raw)
          /\ UNCHANGED <<stored, saved>>
       \/ /\ pc' = "verify"
          /\ (Commit \/ UNCHANGED <<stored, saved>>)
          /\ UNCHANGED <<raw, rejected, loss>>
    /\ WriterFrame
    /\ UNCHANGED <<messages, uncertain, historyVars>>

\* After an exception the store is asked whether the interval was committed; when
\* that raises too the interval is counted as uncertain.
ContainsInterval == \E x \in stored : x.seq = raw.seq

\* Mutant: an interval whose save raised is always counted lost.
writer_verifyAlwaysReject ==
    /\ pc = "verify" /\ pc' = "top" /\ raw' = NONE
    /\ Reject(raw)
    /\ UNCHANGED <<uncertain, unknown>>
    /\ WriterFrame
    /\ UNCHANGED <<messages, stored, saved, flagged>>

writer_verify ==
    /\ pc = "verify" /\ pc' = "top" /\ raw' = NONE
    /\ \/ /\ uncertain' = uncertain + 1
          /\ unknown' = unknown \cup {raw}
          /\ UNCHANGED <<rejected, loss>>
       \/ /\ ContainsInterval
          /\ UNCHANGED <<uncertain, unknown, rejected, loss>>
       \/ /\ ~ContainsInterval
          /\ Reject(raw)
          /\ UNCHANGED <<uncertain, unknown>>
    /\ WriterFrame
    /\ UNCHANGED <<messages, stored, saved, flagged>>

\* Mutant: the record in hand is forgotten.
writer_exitKeeping ==
    /\ pc = "exit" /\ pc' = "drain"
    /\ WriterFrame
    /\ UNCHANGED <<messages, rejected, uncertain, raw, stored, saved, historyVars, loss>>

\* finally: a record still in hand is rejected ...
writer_exit ==
    /\ pc = "exit" /\ pc' = "drain" /\ raw' = NONE
    /\ IF raw # NONE THEN Reject(raw) ELSE UNCHANGED <<rejected, loss>>
    /\ WriterFrame
    /\ UNCHANGED <<messages, uncertain, stored, saved, historyVars>>

\* Mutant: the writer keeps accepting after its last drain.
writer_drainOpen ==
    /\ pc = "drain" /\ pc' = "ended"
    /\ messages' = <<>>
    /\ IF messages # <<>> /\ messages # <<NONE>>
       THEN Reject(messages[1]) ELSE UNCHANGED <<rejected, loss>>
    /\ UNCHANGED <<recorderVars, allowed, stopping, uncertain, raw, stored, saved, historyVars>>

\* ... and under the message lock the writer stops accepting and empties its mailbox.
writer_drain ==
    /\ pc = "drain" /\ pc' = "ended"
    /\ stopping' = TRUE
    /\ messages' = <<>>
    /\ IF messages # <<>> /\ messages # <<NONE>>
       THEN Reject(messages[1]) ELSE UNCHANGED <<rejected, loss>>
    /\ UNCHANGED <<recorderVars, allowed, uncertain, raw, stored, saved, historyVars>>

\* The thread stops being alive only after _run has returned.
writer_dead ==
    /\ pc = "ended" /\ pc' = "dead"
    /\ WriterFrame
    /\ UNCHANGED <<messages, rejected, uncertain, raw, stored, saved, historyVars, loss>>

WriterStep ==
    \/ writer_open \/ writer_top \/ writer_get \/ writer_gate \/ writer_append
    \/ writer_verify \/ writer_exit \/ writer_drain \/ writer_dead

RecorderStep ==
    \/ start \/ recording_failed \/ stop \/ collect_watermark
    \/ \E kind \in {"proof", "storage"} : event(kind)
    \/ \E k \in Keys, s \in Scopes : optional_events(k, s)
    \/ \E k \in Keys : optional_event_refused(k) \/ CadenceElapses(k)
    \/ \E n \in 1..EventCap, bad \in 0..1 : publication(n, bad)
    \/ \E gap \in Gaps, fits \in BOOLEAN : collect(gap, fits)
    \/ \E permit \in BOOLEAN : flush_one(permit)

Next == WriterStep \/ RecorderStep

Spec == Init /\ [][Next]_vars

-----------------------------------------------------------------------------
\* The mailbox holds at most one record or the sentinel, deques keep their bounds
\* and the writer has a record in hand exactly while it works on one.
DiagnosticsTypeOK ==
    /\ Len(events) <= EventCap /\ Len(queue) <= QueueCap
    /\ Len(publications) <= PublicationCap
    /\ Len(messages) <= 1
    /\ pc \in {"unborn", "starting", "top", "get", "gate", "append", "verify", "exit",
               "drain", "ended", "dead"}
    /\ pc \in {"gate", "append", "verify"} => raw # NONE
    /\ pc \in {"top", "get", "drain", "ended", "dead"} => raw = NONE
    /\ reading # NONE => reading <= total_dropped
    /\ collected \in [Keys -> Scopes \cup {NONE}]

\* Every event handed to the recorder is, at every moment, in exactly one place:
\* pending, inside a queued interval, in the mailbox, in the writer's hands, saved,
\* replaced by a newer sample, of unknown fate, or counted once as lost in its own
\* category (diagnostics.py:219-236, diagnostics_handoff.py:35).  A save that fails after
\* its commit is not counted lost as well, and a record taken from the mailbox at
\* shutdown is not counted by both threads.
EventsConserved ==
    LET held == {x \in ToSet(queue) \cup ToSet(messages) \cup {raw} \cup stored \cup unknown :
                    x # NONE}
        copies == {[seq |-> x.seq, events |-> x.events] : x \in held}
        carried == SumFunctionOnSet([x \in copies |-> Len(x.events)], copies)
        pending == Len(events) + Len(FlattenSeq(publications))
        lost == SumFunction([p \in Places |-> loss[p]["protected"] + loss[p]["other"]])
    IN  carried + pending + lost + coalesced = submitted

\* An interval the writer saved after a hole in the sequence carries the recording
\* gap flag, whichever way its predecessors were lost (diagnostics_store.py:270).
StoredHolesFlagged ==
    \A x \in stored :
        x.seq > 0 /\ (\A y \in stored : y.seq # x.seq - 1) => x.gap

\* No loss escapes the flags: a loss no collected interval has flagged yet makes the
\* next collected one carry recording_gap, although the writer thread counts its
\* rejections while collect() runs (diagnostics.py:678-693).
LossesFlagged ==
    total_dropped > flagged.dropped \/ uncertain > flagged.uncertain =>
        \/ watermark.since
        \/ total_dropped > watermark.dropped
        \/ uncertain > watermark.uncertain

\* A writer that has ended holds no record: nothing is accepted into the mailbox
\* after its last drain (diagnostics_worker.py:225-230).
NothingStranded == pc \in {"ended", "dead"} => messages \in {<<>>, <<NONE>>}

\* Pressure never costs training or proof evidence while ordinary detail is kept: a
\* protected event is displaced only when all the deque holds is protected, and a
\* queued interval with protected evidence only when every queued one has some
\* (diagnostics.py:534-552, 732-741).
ProtectedLast ==
    [][/\ loss'["event_capacity"]["protected"] > loss["event_capacity"]["protected"]
          /\ events' # events
          => \A i \in DOMAIN events' : Protected(events'[i])
       /\ loss'["handoff"]["protected"] > loss["handoff"]["protected"]
          => \A i \in DOMAIN queue' : protected(queue'[i])]_vars

\* A stream has at most one report pending, so no report of an old scope is
\* relabelled and no stream starves the others of the deque (diagnostics.py:573-589).
OnePendingPerStream ==
    \A i, j \in DOMAIN events : IsOptional(events[i]) /\ events[i].kind = events[j].kind => i = j

\* A stop request is never lost on the writer: one that has passed its check of
\* `stopping` before the request and waits on the mailbox finds something in it, so the
\* shutdown does not wait for a thread that sleeps for ever (diagnostics_worker.py:234-244).
StopWakesWriter == stopping /\ pc = "get" => messages # <<>>

\* Every reported event is, with its type, in exactly one place: waiting (once per optional
\* stream), on its way, saved, replaced, of unknown fate or counted as lost
\* (diagnostics.py 534-690, diagnostics_worker.py 160-250).
EventsAccounted ==
    /\ DiagnosticsTypeOK
    /\ OnePendingPerStream
    /\ EventsConserved

\* The writer thread and the loop never wait for each other in vain: no record lies in the
\* mailbox of an ended writer, no stop request passes by a waiting one (diagnostics_worker.py
\* 160-250).
WriterNeverStranded ==
    /\ NothingStranded
    /\ StopWakesWriter

\* No loss goes unsaid: what the recorder or the writer lost is flagged by the next interval
\* collected, and what the store misses by the next interval stored (diagnostics.py 660-700,
\* diagnostics_store.py 250-290).
LossesAdmitted ==
    /\ StoredHolesFlagged
    /\ LossesFlagged
=============================================================================
