---------------------------- MODULE SolanaStream ----------------------------
(***************************************************************************)
(* SolanaLogProvider (providers/solana.py): one task that connects, sends  *)
(* two subscriptions, waits for both acknowledgements, hands decoded       *)
(* events to the pipeline and reconnects with a back-off.  configure()     *)
(* may be called at every point where the task waits; it starts a new      *)
(* generation, and every step of the task compares the generation it       *)
(* started with.  Deadlines (set-up, idle, retry) may pass at any time.    *)
(***************************************************************************)
EXTENDS Integers, FiniteSets

CONSTANTS
    MaxGenerations, \* bound: calls of configure
    MaxFailures,    \* bound: failed attempts
    MaxStarts,      \* bound: starts of the source task
    NormalCap,      \* longest back-off of an ordinary failure
    LimitFloor,     \* shortest delay after HTTP 429
    LimitCap        \* longest delay

ASSUME StreamAssumption ==
    /\ MaxGenerations \in Nat /\ MaxFailures \in Nat
    /\ NormalCap \in Nat \ {0} /\ LimitFloor \in Nat \ {0} /\ LimitCap \in Nat
    /\ NormalCap <= LimitFloor /\ LimitFloor <= LimitCap

VARIABLES
    pc, gen, attempt,   \* task state, _generation, the generation of the attempt
    acks, connected, failed, reconnects,
    changed,            \* _configuration_changed
    stable, fallback, hasFallback,
    backoff, delay, stopSet, starts,
    pending,            \* decoded events of the notification being handed off
    refusedIn           \* generation in which the primary was last refused

streamVars == <<pc, gen, attempt, acks, connected, failed, reconnects, changed, stable,
                fallback, hasFallback, backoff, delay, stopSet, starts, pending, refusedIn>>

StreamInit ==
    /\ pc = "ended" /\ gen = 0 /\ attempt = 0 /\ acks = {}
    /\ connected = FALSE /\ failed = FALSE /\ reconnects = 0
    /\ changed = FALSE /\ stable = FALSE /\ fallback = FALSE /\ hasFallback = TRUE
    /\ backoff = 1 /\ delay = 0 /\ stopSet = FALSE /\ starts = 0 /\ pending = 0
    /\ refusedIn = -1

Least(a, b) == IF a < b THEN a ELSE b
Most(a, b) == IF a > b THEN a ELSE b
Superseded == attempt # gen
Live == {"connecting", "subscribing", "reading", "handing"}

----------------------------------------------------------------------------
\* The source task is started by _start_source, with a new stop event.
StartSource ==
    /\ pc = "ended" /\ starts < MaxStarts
    /\ starts' = starts + 1 /\ stopSet' = FALSE
    /\ pc' = "top" /\ backoff' = 1
    /\ UNCHANGED <<gen, attempt, acks, connected, failed, reconnects, changed, stable,
                   fallback, hasFallback, delay, pending, refusedIn>>

\* The top of run's loop: a set stop event ends the task, otherwise an attempt begins.
Attempt ==
    /\ pc = "top"
    /\ pc' = IF stopSet THEN "ended" ELSE "connecting"
    /\ IF stopSet
       THEN connected' = FALSE /\ UNCHANGED <<attempt, changed, stable>>
       ELSE attempt' = gen /\ changed' = FALSE /\ stable' = FALSE /\ UNCHANGED connected
    /\ UNCHANGED <<gen, acks, failed, reconnects, fallback, hasFallback, backoff, delay,
                   stopSet, starts, pending, refusedIn>>

\* _run_once returns normally: the back-off starts over.
Return == pc' = "top" /\ backoff' = 1 /\ pending' = 0

\* The socket is open.
Opened ==
    /\ pc = "connecting"
    /\ IF Superseded
       THEN Return /\ UNCHANGED <<connected, failed, acks>>
       ELSE /\ pc' = "subscribing" /\ acks' = {}
            /\ connected' = FALSE /\ failed' = FALSE
            /\ UNCHANGED <<backoff, pending>>
    /\ UNCHANGED <<gen, attempt, reconnects, changed, stable, fallback, hasFallback,
                   delay, stopSet, starts, refusedIn>>

\* Both subscriptions have been sent; the generation is compared before each.
Subscribed ==
    /\ pc = "subscribing"
    /\ IF Superseded THEN Return ELSE pc' = "reading" /\ UNCHANGED <<backoff, pending>>
    /\ UNCHANGED <<gen, attempt, acks, connected, failed, reconnects, changed, stable,
                   fallback, hasFallback, delay, stopSet, starts, refusedIn>>

\* Mutant: the generation is not compared again after recv and sleep(0).
AcceptAnyAck(i) ==
    /\ pc = "reading"
    /\ acks' = acks \cup {i}
    /\ connected' = (acks \cup {i} = {1, 2})
    /\ UNCHANGED <<pc, gen, attempt, failed, reconnects, changed, stable, fallback,
                   hasFallback, backoff, delay, stopSet, starts, pending, refusedIn>>

\* An acknowledgement of one subscription; both make the stream connected.
Acknowledged(i) ==
    /\ pc = "reading"
    /\ IF Superseded
       THEN Return /\ UNCHANGED <<acks, connected>>
       ELSE /\ acks' = acks \cup {i}
            /\ connected' = (acks \cup {i} = {1, 2})
            /\ UNCHANGED <<pc, backoff, pending>>
    /\ UNCHANGED <<gen, attempt, failed, reconnects, changed, stable, fallback,
                   hasFallback, delay, stopSet, starts, refusedIn>>

\* A notification that decodes to n events; enough time since the acknowledgements
\* makes the attempt stable.
Notified(n, longEnough) ==
    /\ pc = "reading"
    /\ IF Superseded
       THEN Return /\ UNCHANGED stable
       ELSE /\ pc' = IF n > 0 THEN "handing" ELSE "reading"
            /\ pending' = n
            /\ stable' = (stable \/ (connected /\ longEnough))
            /\ UNCHANGED backoff
    /\ UNCHANGED <<gen, attempt, acks, connected, failed, reconnects, changed, fallback,
                   hasFallback, delay, stopSet, starts, refusedIn>>

\* Mutant: the rest of a notification is handed off without comparing the generation.
HandOffAll ==
    /\ pc = "handing"
    /\ pending' = pending - 1
    /\ pc' = IF pending = 1 THEN "reading" ELSE "handing"
    /\ UNCHANGED <<gen, attempt, acks, connected, failed, reconnects, changed, stable,
                   fallback, hasFallback, backoff, delay, stopSet, starts, refusedIn>>

\* One event goes to the handler, which may wait for room in the queue.
HandOff ==
    /\ pc = "handing"
    /\ IF Superseded \/ stopSet
       THEN Return
       ELSE /\ pending' = pending - 1
            /\ pc' = IF pending = 1 THEN "reading" ELSE "handing"
            /\ UNCHANGED backoff
    /\ UNCHANGED <<gen, attempt, acks, connected, failed, reconnects, changed, stable,
                   fallback, hasFallback, delay, stopSet, starts, refusedIn>>

\* The read loop sees the stop event or the new generation when a wait times out.
LeaveRead ==
    /\ pc = "reading" /\ (stopSet \/ Superseded)
    /\ Return
    /\ UNCHANGED <<gen, attempt, acks, connected, failed, reconnects, changed, stable,
                   fallback, hasFallback, delay, stopSet, starts, refusedIn>>

Limited(kind) == kind = "429"
Refused(kind) == kind \in {"429", "413"}

\* _activate_fallback
TakesFallback(kind) == ~fallback /\ hasFallback /\ Refused(kind)

\* Mutant: the wait is capped, the back-off kept for the next failure is not.
RetryUncapped(kind, current, retryAfter) ==
    IF ~Limited(kind) /\ (kind # "413" \/ retryAfter = 0)
    THEN <<current, Least(NormalCap, 2 * current)>>
    ELSE IF ~Limited(kind)
    THEN LET d == Least(LimitCap, Most(current, retryAfter))
         IN <<d, 2 * d>>
    ELSE LET d == Least(LimitCap, Most(LimitFloor, Most(current, retryAfter)))
         IN <<d, Most(LimitFloor, 2 * d)>>

\* _retry_backoff, as <<delay, next back-off>>; an ordinary failure doubles up to the
\* normal cap, a rate limit starts at its floor, a 413 may carry a Retry-After.
Retry(kind, current, retryAfter) ==
    IF ~Limited(kind) /\ (kind # "413" \/ retryAfter = 0)
    THEN <<current, Least(NormalCap, 2 * current)>>
    ELSE IF ~Limited(kind)
    THEN LET d == Least(LimitCap, Most(current, retryAfter))
         IN <<d, Least(LimitCap, 2 * d)>>
    ELSE LET d == Least(LimitCap, Most(LimitFloor, Most(current, retryAfter)))
         IN <<d, Least(LimitCap, Most(LimitFloor, 2 * d))>>

\* Mutant: a rate-limited disconnect is not counted as a reconnect.
QuietLimit(kind, retryAfter) ==
    LET start == IF stable /\ ~Limited(kind) THEN 1 ELSE backoff
        next == IF TakesFallback(kind) THEN <<1, 1>> ELSE Retry(kind, start, retryAfter)
    IN /\ pc \in Live /\ reconnects < MaxFailures
       /\ IF Superseded
          THEN Return /\ UNCHANGED <<connected, failed, reconnects, fallback, delay, refusedIn>>
          ELSE /\ connected' = FALSE /\ failed' = TRUE
               /\ reconnects' = IF Limited(kind) THEN reconnects ELSE reconnects + 1
               /\ fallback' = (fallback \/ TakesFallback(kind))
               /\ refusedIn' = IF Refused(kind) THEN gen ELSE refusedIn
               /\ delay' = next[1] /\ backoff' = next[2]
               /\ pc' = "waiting" /\ pending' = 0
       /\ UNCHANGED <<gen, attempt, acks, changed, stable, hasFallback, stopSet, starts>>

\* Mutant: a late failure of the old generation is treated like one of the new.
LateFailureCounts(kind, retryAfter) ==
    LET start == IF stable /\ ~Limited(kind) THEN 1 ELSE backoff
        next == IF TakesFallback(kind) THEN <<1, 1>> ELSE Retry(kind, start, retryAfter)
    IN /\ pc \in Live /\ reconnects < MaxFailures
       /\ connected' = FALSE /\ failed' = TRUE /\ reconnects' = reconnects + 1
       /\ fallback' = (fallback \/ TakesFallback(kind))
       /\ refusedIn' = IF Refused(kind) THEN attempt ELSE refusedIn
       /\ delay' = next[1] /\ backoff' = next[2]
       /\ pc' = "waiting" /\ pending' = 0
       /\ UNCHANGED <<gen, attempt, acks, changed, stable, hasFallback, stopSet, starts>>

\* An attempt raises.  A failure of an old generation is forgotten; otherwise it is
\* counted, may switch to the fallback endpoint, and is followed by a wait.
AttemptFails(kind, retryAfter) ==
    LET start == IF stable /\ ~Limited(kind) THEN 1 ELSE backoff
        next == IF TakesFallback(kind) THEN <<1, 1>> ELSE Retry(kind, start, retryAfter)
    IN /\ pc \in Live /\ reconnects < MaxFailures
       /\ IF Superseded
          THEN Return /\ UNCHANGED <<connected, failed, reconnects, fallback, delay, refusedIn>>
          ELSE /\ connected' = FALSE /\ failed' = TRUE /\ reconnects' = reconnects + 1
               /\ fallback' = (fallback \/ TakesFallback(kind))
               /\ refusedIn' = IF Refused(kind) THEN attempt ELSE refusedIn
               /\ delay' = next[1] /\ backoff' = next[2]
               /\ pc' = "waiting" /\ pending' = 0
       /\ UNCHANGED <<gen, attempt, acks, changed, stable, hasFallback, stopSet, starts>>

\* _wait_retry: the delay, the stop event or a new configuration ends the wait.
RetryWaitEnds ==
    /\ pc = "waiting"
    /\ pc' = "top"
    /\ backoff' = IF Superseded THEN 1 ELSE backoff
    /\ UNCHANGED <<gen, attempt, acks, connected, failed, reconnects, changed, stable,
                   fallback, hasFallback, delay, stopSet, starts, pending, refusedIn>>

----------------------------------------------------------------------------
\* Mutant: a configuration change does not set the event the retry wait listens to.
ConfigureSilently(fb) ==
    /\ gen < MaxGenerations
    /\ gen' = gen + 1 /\ stable' = FALSE
    /\ connected' = FALSE /\ failed' = FALSE
    /\ fallback' = FALSE /\ hasFallback' = fb
    /\ UNCHANGED <<pc, attempt, acks, reconnects, changed, backoff, delay, stopSet, starts,
                   pending, refusedIn>>

\* configure: new endpoints, no fallback in use, not connected.
ConfigureStream(fb) ==
    /\ gen < MaxGenerations
    /\ gen' = gen + 1 /\ changed' = TRUE /\ stable' = FALSE
    /\ connected' = FALSE /\ failed' = FALSE
    /\ fallback' = FALSE /\ hasFallback' = fb
    /\ UNCHANGED <<pc, attempt, acks, reconnects, backoff, delay, stopSet, starts,
                   pending, refusedIn>>

\* The orchestrator sets the stop event and then cancels the task.
StopSource ==
    /\ pc # "ended" /\ ~stopSet
    /\ stopSet' = TRUE
    /\ UNCHANGED <<pc, gen, attempt, acks, connected, failed, reconnects, changed, stable,
                   fallback, hasFallback, backoff, delay, starts, pending, refusedIn>>

CancelSource ==
    /\ pc # "ended" /\ stopSet
    /\ pc' = "ended" /\ connected' = FALSE /\ pending' = 0
    /\ UNCHANGED <<gen, attempt, acks, failed, reconnects, changed, stable, fallback,
                   hasFallback, backoff, delay, stopSet, starts, refusedIn>>

StreamNext ==
    \/ StartSource \/ Attempt \/ Opened \/ Subscribed
    \/ \E i \in {1, 2} : Acknowledged(i)
    \/ \E n \in 0..2, longEnough \in BOOLEAN : Notified(n, longEnough)
    \/ HandOff \/ LeaveRead \/ RetryWaitEnds
    \/ \E kind \in {"429", "413", "other"}, r \in {0, LimitFloor} : AttemptFails(kind, r)
    \/ \E fb \in BOOLEAN : ConfigureStream(fb)
    \/ StopSource \/ CancelSource

StreamSpec == StreamInit /\ [][StreamNext]_streamVars

----------------------------------------------------------------------------
StreamTypeOK ==
    /\ pc \in Live \cup {"ended", "top", "waiting"}
    /\ gen \in 0..MaxGenerations /\ attempt \in 0..gen /\ refusedIn \in -1..gen
    /\ acks \subseteq {1, 2} /\ backoff \in 1..LimitCap /\ delay \in 0..LimitCap
    /\ reconnects \in 0..MaxFailures /\ pending \in 0..2
    /\ {connected, failed, changed, stable, fallback, hasFallback, stopSet} \subseteq BOOLEAN

\* The stream reports itself connected only while an attempt of the current configuration
\* holds both acknowledgements and no error (solana.py 220-300), so a stale socket can
\* never certify the endpoints chosen after it.
ConnectedIsCurrent ==
    connected => pc \in {"reading", "handing", "top"} /\ ~failed /\ attempt = gen /\ acks = {1, 2}

\* A task that waits to retry an attempt of an old configuration is being woken: the event
\* set by configure (479-480) is cleared only when the new generation is read (147-148).
WakeNotLost == (pc = "waiting" /\ attempt # gen) => changed

\* The fallback endpoint is in use only if the primary endpoint of the same configuration
\* was refused with 429 or 413 (467-475), never because of a late answer to an old one.
FallbackEarned == fallback => refusedIn = gen

\* After configure no event of the old endpoints reaches the pipeline, not even the rest of
\* a notification whose first events made the handler wait (335-340).
NoStaleHandOff ==
    [][(pc = "handing" /\ pending' = pending - 1 /\ pc' \in {"handing", "reading"})
            => (attempt = gen /\ ~stopSet)]_streamVars

\* A configuration or a stop requested by the caller in this step.
ExplicitChange == gen' # gen \/ stopSet

Health == INSTANCE StreamHealth WITH healthy <- connected /\ ~failed, drops <- reconnects

\* The provider implements StreamHealth, which the continuity guard relies on: a healthy
\* stream never becomes unhealthy without its reconnect count moving, except by configure
\* or by a stop (health() 519-538, run 139-189).
HealthImplemented ==
    Health!HealthInit /\ [][Health!HealthNext(ExplicitChange)]_(Health!healthVars)

\* Nothing an attempt of an old configuration does or leaves behind counts for the new one:
\* not its socket, its failure, its pending events or its sleep; and waits keep their cap
\* (solana.py 139-189, 203-350, 467-517).
StreamIsCurrent ==
    /\ []StreamTypeOK
    /\ []ConnectedIsCurrent
    /\ []WakeNotLost
    /\ []FallbackEarned
    /\ NoStaleHandOff
=============================================================================
