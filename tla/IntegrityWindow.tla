-------------------------- MODULE IntegrityWindow --------------------------
(***************************************************************************)
(* The continuity guard of learning evidence (orchestrator.py).  A         *)
(* decision may be learnt from only when the market stream was connected   *)
(* and no event of its token was lost during the whole clean window.       *)
(* Losses and outages are remembered as gap timestamps: one for the        *)
(* source, one per token, with a bounded number of tokens.                 *)
(*                                                                         *)
(* Two things read and write that memory: the market worker, when it       *)
(* decides on a token, and the heartbeat, which observes stream health     *)
(* after its own work.  Both use a timestamp taken earlier: the worker the *)
(* receipt time of the event, the heartbeat the start of its tick.  MaxLag *)
(* bounds how old such a timestamp is when it is used.                     *)
(***************************************************************************)
EXTENDS Integers, FiniteSets

CONSTANTS
    Mints,
    Window,            \* _INTEGRITY_LEARNING_CLEAN_WINDOW_SECONDS
    MaxGapMints,       \* _max_integrity_gap_mints
    MaxLag,            \* age of a timestamp when it is used
    MaxTime,           \* bound: seconds of a behaviour
    MaxReconnects      \* bound: connection attempts

ASSUME WindowAssumption ==
    /\ Window \in Nat \ {0} /\ MaxGapMints \in Nat /\ MaxLag \in Nat
    /\ MaxTime \in Nat /\ MaxReconnects \in Nat

VARIABLES
    now,
    \* SolanaLogProvider, as health() reports it.
    healthy, reconnects,
    \* The orchestrator's memory.
    streamGap,        \* _integrity_stream_gap_at
    mintGap,          \* _integrity_mint_gap_at
    lastReconnects,   \* _integrity_last_stream_reconnects
    wasHealthy,       \* _integrity_stream_was_healthy
    seenReconnects,   \* _last_stream_reconnects
    incident,         \* _stream_incident_active
    \* The heartbeat: NoTick, or its timestamp, and the health it has read while
    \* it waits for the incident store ("no" when it does not wait).
    tick, recording,
    \* History: when the stream was last down and when an event was last lost, and
    \* whether the observer has concluded from a reading that was no longer true.
    downAt, lostAt, contradicted

providerVars == <<healthy, reconnects>>
memoryVars == <<streamGap, mintGap, lastReconnects, wasHealthy>>
heartbeatVars == <<seenReconnects, incident, tick, recording>>
historyVars == <<downAt, lostAt, contradicted>>
vars == <<now, providerVars, memoryVars, heartbeatVars, historyVars>>

Never == -1
NoTick == -1

Init ==
    /\ now = 0
    /\ healthy = FALSE /\ reconnects = 0
    /\ streamGap = 0                     \* _start_source
    /\ mintGap = [m \in Mints |-> Never]
    /\ lastReconnects = 0 /\ wasHealthy = FALSE
    /\ seenReconnects = 0 /\ incident \in BOOLEAN
    /\ tick = NoTick /\ recording = "no"
    /\ downAt = 0 /\ lostAt = [m \in Mints |-> Never] /\ contradicted = FALSE

-----------------------------------------------------------------------------
\* Time passes, but never more than MaxLag while a heartbeat tick is open.
Tick ==
    /\ now < MaxTime
    /\ tick # NoTick => now - tick < MaxLag
    /\ now' = now + 1
    /\ downAt' = IF healthy THEN downAt ELSE now + 1
    /\ UNCHANGED <<providerVars, memoryVars, heartbeatVars, lostAt, contradicted>>

\* SolanaLogProvider.run: an attempt ends in an exception and is counted ...
Disconnect ==
    /\ reconnects < MaxReconnects
    /\ healthy' = FALSE /\ reconnects' = reconnects + 1
    /\ downAt' = now
    /\ UNCHANGED <<now, memoryVars, heartbeatVars, lostAt, contradicted>>

\* ... and _run_once reports connected after both acknowledgements.
Reconnect ==
    /\ ~healthy /\ healthy' = TRUE
    /\ UNCHANGED <<now, reconnects, memoryVars, heartbeatVars, historyVars>>

\* Mutant: the end of the window is remembered instead of its start.
MarkStreamGapAsExpiry(at) ==
    /\ streamGap' = at + Window
    /\ mintGap' = [m \in Mints |-> Never]

\* _mark_integrity_stream_gap: the global boundary replaces every local one.
MarkStreamGap(at) ==
    /\ streamGap' = at
    /\ mintGap' = [m \in Mints |-> Never]

\* The provider is configured anew and _start_source restarts the stream.
SourceRestart ==
    /\ healthy' = FALSE /\ wasHealthy' = FALSE
    /\ MarkStreamGap(now)
    /\ downAt' = now
    /\ UNCHANGED <<now, reconnects, lastReconnects, heartbeatVars, lostAt, contradicted>>

-----------------------------------------------------------------------------
\* _note_integrity_mint_gap first forgets the tokens whose window has passed.
Retained(at) == {m \in Mints : mintGap[m] # Never /\ mintGap[m] > at - Window}

\* Mutant: at the limit another token's gap is forgotten.
NoteMintGapEvicting(m) ==
    /\ mintGap' = [x \in Mints |-> IF x = m THEN now
                                   ELSE IF x \in Retained(now)
                                           /\ (m \in Retained(now)
                                               \/ Cardinality(Retained(now)) < MaxGapMints)
                                   THEN mintGap[x] ELSE Never]
    /\ UNCHANGED streamGap

\* Mutant: the limit is not tested.
NoteMintGapUnbounded(m) ==
    /\ mintGap' = [x \in Mints |-> IF x = m THEN now
                                   ELSE IF x \in Retained(now) THEN mintGap[x] ELSE Never]
    /\ UNCHANGED streamGap

NoteMintGap(m) ==
    IF m \notin Retained(now) /\ Cardinality(Retained(now)) >= MaxGapMints
    THEN MarkStreamGap(now)
    ELSE /\ mintGap' = [x \in Mints |-> IF x = m THEN now
                                        ELSE IF x \in Retained(now) THEN mintGap[x] ELSE Never]
         /\ UNCHANGED streamGap

\* An event of m is shed, expired, rejected as reordered, or was in a failed batch.
LoseEvent(m) ==
    /\ lostAt' = [lostAt EXCEPT ![m] = now]
    /\ NoteMintGap(m)
    /\ UNCHANGED <<now, providerVars, lastReconnects, wasHealthy, heartbeatVars, downAt,
                   contradicted>>

\* A lost event without a token could belong to any of them.
LoseUnidentified ==
    /\ lostAt' = [m \in Mints |-> now]
    /\ MarkStreamGap(now)
    /\ UNCHANGED <<now, providerVars, lastReconnects, wasHealthy, heartbeatVars, downAt,
                   contradicted>>

\* A timestamp that was taken at most MaxLag ago.
Usable(at) == at \in Nat /\ at <= now /\ now - at <= MaxLag

\* _integrity_learning_window_complete(m, at), its answer ...
WindowComplete(m, at) ==
    /\ healthy /\ wasHealthy /\ reconnects <= lastReconnects
    /\ at - streamGap >= Window
    /\ mintGap[m] # Never => at - mintGap[m] >= Window

\* Mutant: a reconnect counted since the last look is not a gap.
DecideForgettingReconnects(m, at) ==
    /\ Usable(at)
    /\ lastReconnects' = reconnects
    /\ wasHealthy' = healthy
    /\ IF healthy /\ ~wasHealthy THEN MarkStreamGap(at)
       ELSE UNCHANGED <<streamGap, mintGap>>
    /\ UNCHANGED <<now, providerVars, heartbeatVars, historyVars>>

\* ... and its effect on the memory.
Decide(m, at) ==
    LET stillHealthy == wasHealthy /\ reconnects <= lastReconnects
        passed == /\ at - streamGap >= Window
                  /\ mintGap[m] # Never /\ at - mintGap[m] >= Window
    IN
    /\ Usable(at)
    /\ lastReconnects' = IF reconnects > lastReconnects THEN reconnects ELSE lastReconnects
    /\ wasHealthy' = healthy
    /\ IF healthy /\ ~stillHealthy THEN MarkStreamGap(at)
       ELSE /\ mintGap' = IF healthy /\ passed THEN [mintGap EXCEPT ![m] = Never] ELSE mintGap
            /\ UNCHANGED streamGap
    /\ UNCHANGED <<now, providerVars, heartbeatVars, historyVars>>

-----------------------------------------------------------------------------
\* _heartbeat_loop takes its timestamp and then does the heartbeat's own work.
HeartbeatStart ==
    /\ tick = NoTick
    /\ tick' = now
    /\ UNCHANGED <<now, providerVars, memoryVars, seenReconnects, incident, recording,
                   historyVars>>

\* The end of _update_stream_incident: h is the health read before.  An outage that
\* outlasts the grace period becomes an incident, a recovery resolves it.
FinishObservation(h, was) ==
    /\ IF ~h THEN wasHealthy' = FALSE /\ UNCHANGED <<streamGap, mintGap>>
       ELSE /\ wasHealthy' = TRUE
            /\ IF was THEN UNCHANGED <<streamGap, mintGap>> ELSE MarkStreamGap(tick)
    /\ incident' \in IF h THEN {FALSE, incident} ELSE {incident, TRUE}
    /\ tick' = NoTick

\* _update_stream_incident reads health after the heartbeat's work; during an active
\* incident it awaits the incident store between that read and its conclusion.
ObserveHealth ==
    LET news == reconnects > seenReconnects
        was == wasHealthy /\ ~(news /\ reconnects > lastReconnects)
    IN
    /\ tick # NoTick /\ recording = "no"
    /\ seenReconnects' = IF news THEN reconnects ELSE seenReconnects
    /\ lastReconnects' = IF news /\ reconnects > lastReconnects THEN reconnects
                                                               ELSE lastReconnects
    /\ IF incident /\ news
       THEN /\ recording' = IF healthy THEN "up" ELSE "down"
            /\ wasHealthy' = was
            /\ UNCHANGED <<streamGap, mintGap, incident, tick>>
       ELSE FinishObservation(healthy, was) /\ UNCHANGED recording
    /\ UNCHANGED <<now, providerVars, historyVars>>

\* The incident is stored; the conclusion uses the health read before the wait.
IncidentRecorded ==
    /\ recording # "no"
    /\ recording' = "no"
    /\ FinishObservation(recording = "up", wasHealthy)
    /\ contradicted' = (contradicted \/ (recording = "up" /\ ~healthy))
    /\ UNCHANGED <<now, providerVars, lastReconnects, seenReconnects, downAt, lostAt>>

Next ==
    \/ Tick \/ Disconnect \/ Reconnect \/ SourceRestart
    \/ LoseUnidentified \/ HeartbeatStart \/ ObserveHealth \/ IncidentRecorded
    \/ \E m \in Mints : LoseEvent(m)
    \/ \E m \in Mints, at \in 0..now : Decide(m, at)

Spec == Init /\ [][Next]_vars

-----------------------------------------------------------------------------
FlagsTyped ==
    /\ healthy \in BOOLEAN /\ wasHealthy \in BOOLEAN
    /\ incident \in BOOLEAN /\ contradicted \in BOOLEAN /\ recording \in {"no", "up", "down"}

ClocksTyped ==
    /\ now \in Nat
    /\ reconnects \in Nat /\ lastReconnects \in Nat /\ seenReconnects \in Nat
    /\ lastReconnects <= reconnects /\ seenReconnects <= reconnects
    /\ streamGap \in Nat /\ streamGap <= now
    /\ downAt \in Nat /\ downAt <= now
    /\ mintGap \in [Mints -> Nat \cup {Never}] /\ \A m \in Mints : mintGap[m] <= now
    /\ lostAt \in [Mints -> Nat \cup {Never}] /\ \A m \in Mints : lostAt[m] <= now
    /\ tick \in Nat \cup {NoTick}
    /\ tick # NoTick => tick <= now /\ now - tick <= MaxLag
    /\ recording # "no" => tick # NoTick

\* Timestamps are never in the future and the counters only run behind.
WindowTypeOK == FlagsTyped /\ ClocksTyped

\* The number of tokens with a local gap stays within its bound.
GapMintsBounded == Cardinality({m \in Mints : mintGap[m] # Never}) <= MaxGapMints

\* Whatever broke at `broken` lies outside the window that ends at `at`, up to the age
\* of the timestamps in use.
CleanBefore(broken, at) == broken > at \/ broken <= at - Window + MaxLag

\* A window the code calls complete has no lost event of its token in it, also when the
\* token's own gap was pruned, popped, or given up for a source-wide one at the limit
\* (orchestrator.py:1145-1166, 1190-1204).
NoLossInWindow ==
    \A m \in Mints : \A at \in 0..now :
        Usable(at) /\ WindowComplete(m, at) /\ lostAt[m] # Never => CleanBefore(lostAt[m], at)

\* The stream was never down in a window the code calls complete, also when the outage
\* was over before the observer or a decision looked (orchestrator.py:1171-1190).
NoOutageInWindow ==
    \A m \in Mints : \A at \in 0..now :
        Usable(at) /\ WindowComplete(m, at) => CleanBefore(downAt, at)

\* Unless the observer concludes from a reading that an outage has overtaken, no
\* outage is missed: not one that ends before anybody looks, not one during which the
\* reconnect counter is read early, and not one that begins and ends inside the wait for
\* the incident store (orchestrator.py:1171-1190, 1596-1624).
OutagesExcluded == ~contradicted => NoOutageInWindow
=============================================================================
