--------------------------- MODULE SeasonOperations ---------------------------
(***************************************************************************)
(* The durable operations that start, stop, reset, change and upgrade a    *)
(* paper season (orchestrator.py 5472-5771, 6336-6624, 6786-7424,          *)
(* 8708-8793; api.py 334-343).                                             *)
(*                                                                         *)
(* API mutations are serialised by one lock.  The heartbeat, the market    *)
(* worker, the reset task and the upgrade task run beside them; what they  *)
(* share is guarded by the event lock, which an operation holds over       *)
(* several database writes.  The process may stop between any two writes   *)
(* and the next one reconciles what it finds; one write may fail.          *)
(***************************************************************************)
EXTENDS Integers

CONSTANTS
    MaxOps,         \* bound: season operations
    MaxUpgradePreps,\* bound: upgrade preparations
    MaxStops,       \* bound: restarts of the process
    MaxDbFailures,  \* bound: failing database writes
    MaxSeasons      \* bound: seasons

ASSUME OperationsAssumption == MaxOps \in Nat /\ MaxSeasons \in Nat

VARIABLES
    book,       \* broker and ledger: [season, profile, locked, buys, sells, held]; season 0: none
    running,    \* Orchestrator.running
    pref,       \* the setting trading_enabled
    op,         \* _season_operation, written through
    call,       \* the API mutation in progress: [pc, target, prev]
    reset,      \* the reset task's place
    prep,       \* maintenance operation: [state, prev, requested, pc]
    lock,       \* holder of the event lock across writes
    tick,       \* what the heartbeat read before it awaits the rollover: [op, prev]
    seasonCount, ops, preps, stops, failures,
    halfFrozen  \* history: a transition failed after its operation was written

seasonVars == <<book, running, pref, op, call, reset, prep, lock, tick, seasonCount, ops,
                preps, stops, failures, halfFrozen>>

NoBook == [season |-> 0, profile |-> 0, locked |-> FALSE, buys |-> FALSE, sells |-> FALSE,
           held |-> FALSE]
NoOp == [kind |-> "none", state |-> "none", source |-> 0, target |-> 0, prev |-> FALSE,
         now |-> FALSE, expired |-> FALSE, rolls |-> 0]
NoCall == [pc |-> "idle", target |-> 0, prev |-> FALSE]
NoTick == [op |-> 0, prev |-> FALSE]
NoPrep == [state |-> "none", prev |-> FALSE, requested |-> FALSE, pc |-> "idle"]

SeasonInit ==
    /\ book = NoBook /\ running = FALSE /\ pref = FALSE /\ op = NoOp /\ call = NoCall
    /\ reset = "idle" /\ prep = NoPrep /\ lock = "free"
    /\ tick = NoTick /\ seasonCount = 0 /\ ops = 0 /\ preps = 0 /\ stops = 0 /\ failures = 0
    /\ halfFrozen = FALSE

Counters == <<tick, seasonCount, ops, preps, stops, failures, halfFrozen>>
OpRunning == op.state = "running"
TransitionActive == OpRunning /\ op.kind = "profile_transition"
NoOrders(b) == [b EXCEPT !.buys = FALSE, !.sells = FALSE]

\* An API mutation may start: the mutation lock is free and no upgrade is prepared.
ApiOpen == call.pc = "idle" /\ ~prep.requested

\* _begin_season_operation: refused while another operation runs.
Begins(kind) ==
    /\ ~OpRunning /\ ops < MaxOps
    /\ op' = [NoOp EXCEPT !.kind = kind, !.state = "running", !.source = book.season]
    /\ ops' = ops + 1

----------------------------------------------------------------------------
\* The market worker and the heartbeat's order work, under the event lock.
MarketBuys ==
    /\ lock = "free" /\ running /\ book.season # 0 /\ ~book.buys /\ ~book.held
    /\ book' = [book EXCEPT !.buys = TRUE]
    /\ UNCHANGED <<running, pref, op, call, reset, prep, lock, Counters>>

MarketFills ==
    /\ lock = "free"
    /\ \/ book.buys /\ book' = [book EXCEPT !.buys = FALSE, !.held = TRUE]
       \/ book.sells /\ book' = [book EXCEPT !.sells = FALSE, !.held = FALSE]
    /\ UNCHANGED <<running, pref, op, call, reset, prep, lock, Counters>>

\* _profile_transition_exit_management_active
ExitsManaged == TransitionActive /\ (op.now => ~op.expired)

MarketSells ==
    /\ running \/ ExitsManaged
    /\ lock = "free" /\ book.held /\ ~book.sells
    /\ book' = [book EXCEPT !.sells = TRUE]
    /\ UNCHANGED <<running, pref, op, call, reset, prep, lock, Counters>>

\* _perform_auto_new_season_tick: a new season under the same policy, when nothing else
\* is under way; rollover refuses to discard pending orders.
AutoRollover ==
    /\ lock = "free" /\ running /\ ~OpRunning /\ ~prep.requested
    /\ book.season # 0 /\ ~book.buys /\ ~book.sells /\ seasonCount < MaxSeasons
    /\ book' = [NoBook EXCEPT !.season = seasonCount + 1, !.profile = book.profile,
                              !.locked = TRUE]
    /\ seasonCount' = seasonCount + 1 /\ pref' = TRUE
    /\ UNCHANGED <<running, op, call, reset, prep, lock, ops, preps, stops, failures,
                   halfFrozen, tick>>

----------------------------------------------------------------------------
\* setup_portfolio: operation, ledger, engine off and preference, operation done.
SetupBegins(t) ==
    /\ ApiOpen /\ book.season = 0 /\ seasonCount < MaxSeasons /\ Begins("setup")
    /\ call' = [NoCall EXCEPT !.pc = "setup", !.target = t]
    /\ UNCHANGED <<book, running, pref, reset, prep, lock, seasonCount, preps, stops,
                   failures, halfFrozen, tick>>

SetupInitializes ==
    /\ call.pc = "setup" /\ lock = "free"
    /\ book' = [NoBook EXCEPT !.season = seasonCount + 1, !.profile = call.target]
    /\ seasonCount' = seasonCount + 1 /\ lock' = "api"
    /\ call' = [call EXCEPT !.pc = "setup_stop"]
    /\ UNCHANGED <<running, pref, op, reset, prep, ops, preps, stops, failures, halfFrozen, tick>>

SetupStops ==
    /\ call.pc = "setup_stop"
    /\ running' = FALSE /\ pref' = FALSE /\ lock' = "free"
    /\ call' = [call EXCEPT !.pc = "done"]
    /\ UNCHANGED <<book, op, reset, prep, Counters>>

\* resume_trading: operation, profile locked, engine on and preference.
ResumeBegins ==
    /\ ApiOpen /\ book.season # 0 /\ ~running /\ Begins("start")
    /\ call' = [NoCall EXCEPT !.pc = "start"]
    /\ UNCHANGED <<book, running, pref, reset, prep, lock, seasonCount, preps, stops,
                   failures, halfFrozen, tick>>

ResumeLocksProfile ==
    /\ call.pc = "start" /\ lock = "free"
    /\ book' = [book EXCEPT !.locked = TRUE] /\ running' = TRUE /\ lock' = "api"
    /\ call' = [call EXCEPT !.pc = "start_save"]
    /\ UNCHANGED <<pref, op, reset, prep, Counters>>

ResumeSaves ==
    /\ call.pc = "start_save"
    /\ pref' = TRUE /\ lock' = "free"
    /\ call' = [call EXCEPT !.pc = "done"]
    /\ UNCHANGED <<book, running, op, reset, prep, Counters>>

\* The write failed: the lock is left, the engine is off, the operation failed.
ResumeFails ==
    /\ call.pc = "start_save" /\ failures < MaxDbFailures
    /\ failures' = failures + 1 /\ lock' = "free"
    /\ running' = FALSE /\ pref' = FALSE
    /\ op' = [op EXCEPT !.state = "failed"] /\ call' = NoCall
    /\ UNCHANGED <<book, reset, prep, seasonCount, ops, preps, stops, halfFrozen, tick>>

\* The last write of a setup or a start.
CallCompletes ==
    /\ call.pc = "done"
    /\ op' = [op EXCEPT !.state = "completed"] /\ call' = NoCall
    /\ UNCHANGED <<book, running, pref, reset, prep, lock, Counters>>

\* pause_trading from the API: the preference first, then memory and the orders.
StopSaves ==
    /\ ApiOpen /\ ~TransitionActive /\ lock = "free" /\ (running \/ pref)
    /\ pref' = FALSE /\ lock' = "api"
    /\ call' = [NoCall EXCEPT !.pc = "stop"]
    /\ UNCHANGED <<book, running, op, reset, prep, Counters>>

StopCancels ==
    /\ call.pc = "stop"
    /\ running' = FALSE /\ book' = NoOrders(book) /\ lock' = "free" /\ call' = NoCall
    /\ UNCHANGED <<pref, op, reset, prep, Counters>>

----------------------------------------------------------------------------
\* begin_reset_portfolio and its task: pause, archive, done.
ResetBegins ==
    /\ ApiOpen /\ book.season # 0 /\ reset = "idle" /\ Begins("reset")
    /\ reset' = "pause"
    /\ UNCHANGED <<book, running, pref, call, prep, lock, seasonCount, preps, stops,
                   failures, halfFrozen, tick>>

ResetPauses ==
    /\ reset = "pause" /\ lock = "free"
    /\ pref' = FALSE /\ running' = FALSE /\ book' = NoOrders(book) /\ reset' = "archive"
    /\ UNCHANGED <<op, call, prep, lock, Counters>>

ResetArchives ==
    /\ reset = "archive" /\ lock = "free"
    /\ book' = NoBook /\ pref' = FALSE /\ reset' = "done"
    /\ UNCHANGED <<running, op, call, prep, lock, Counters>>

\* A write of the pause or the archive failed; the engine may be off already.
ResetFails ==
    /\ reset \in {"pause", "archive"} /\ failures < MaxDbFailures
    /\ failures' = failures + 1
    /\ op' = [op EXCEPT !.state = "failed"] /\ reset' = "idle"
    /\ \/ UNCHANGED <<running, pref>>
       \/ lock = "free" /\ running' = FALSE /\ pref' = FALSE
    /\ UNCHANGED <<book, call, prep, lock, seasonCount, ops, preps, stops,
                   halfFrozen, tick>>

ResetCompletes ==
    /\ reset = "done"
    /\ op' = [op EXCEPT !.state = "completed"] /\ reset' = "idle"
    /\ UNCHANGED <<book, running, pref, call, prep, lock, Counters>>

----------------------------------------------------------------------------
\* request_season_profile on an unlocked season: reconfigured at once.
ReconfigureUnstarted(t) ==
    /\ ApiOpen /\ ~OpRunning /\ book.season # 0 /\ ~book.locked /\ t # book.profile
    /\ book' = [book EXCEPT !.profile = t]
    /\ UNCHANGED <<running, pref, op, call, reset, prep, lock, Counters>>

\* On a locked season: the caller has seen no running operation and waits for the lock; no
\* other can begin meanwhile, since every caller holds the mutation lock ...
TransitionWanted(t) ==
    /\ ApiOpen /\ ~OpRunning /\ book.season # 0 /\ book.locked /\ t # book.profile
    /\ call' = [NoCall EXCEPT !.pc = "transition", !.target = t]
    /\ UNCHANGED <<book, running, pref, op, reset, prep, lock, Counters>>

\* ... writes the operation ...
TransitionBegins(now) ==
    /\ call.pc = "transition" /\ lock = "free"
    /\ ~OpRunning /\ ops < MaxOps
    /\ op' = [NoOp EXCEPT !.kind = "profile_transition", !.state = "running",
                          !.source = book.season, !.target = call.target,
                          !.prev = running, !.now = now]
    /\ ops' = ops + 1 /\ lock' = "api"
    /\ call' = [call EXCEPT !.pc = "freeze", !.prev = running]
    /\ UNCHANGED <<book, running, pref, reset, prep, seasonCount, preps, stops, failures,
                   halfFrozen, tick>>

\* Mutant: the entry freeze leaves pending buys alone.
FreezeKeepsBuys ==
    /\ call.pc = "freeze"
    /\ call' = [call EXCEPT !.pc = "freeze_save"]
    /\ UNCHANGED <<book, running, pref, op, reset, prep, lock, Counters>>

\* ... cancels the pending buys ...
FreezeCancels ==
    /\ call.pc = "freeze"
    /\ book' = [book EXCEPT !.buys = FALSE]
    /\ call' = [call EXCEPT !.pc = "freeze_save"]
    /\ UNCHANGED <<running, pref, op, reset, prep, lock, Counters>>

\* ... and turns the engine off, still under the lock.
FreezeStops ==
    /\ call.pc = "freeze_save"
    /\ pref' = FALSE /\ running' = FALSE /\ lock' = "free" /\ call' = NoCall
    /\ UNCHANGED <<book, op, reset, prep, Counters>>

\* One of the two writes failed: the lock is released first, the engine and then the
\* operation are put back afterwards.
FreezeFails ==
    /\ call.pc \in {"freeze", "freeze_save"} /\ failures < MaxDbFailures
    /\ failures' = failures + 1 /\ halfFrozen' = TRUE
    /\ lock' = "free" /\ running' = call.prev
    /\ call' = [call EXCEPT !.pc = "unfreeze"]
    /\ UNCHANGED <<book, pref, op, reset, prep, seasonCount, ops, preps, stops, tick>>

FreezeFailed ==
    /\ call.pc = "unfreeze"
    /\ pref' = call.prev /\ op' = [op EXCEPT !.state = "failed"] /\ call' = NoCall
    /\ UNCHANGED <<book, running, reset, prep, lock, Counters>>

\* The same target requested again with "end now" (6424-6478), under the lock.
EndNow ==
    /\ ApiOpen /\ TransitionActive /\ ~op.now /\ lock = "free"
    /\ op' = [op EXCEPT !.now = TRUE]
    /\ UNCHANGED <<book, running, pref, call, reset, prep, lock, Counters>>

\* Time: the bounded settlement window of an end-now transition closes.
SettlementExpires ==
    /\ TransitionActive /\ op.now /\ ~op.expired
    /\ op' = [op EXCEPT !.expired = TRUE]
    /\ UNCHANGED <<book, running, pref, call, reset, prep, lock, Counters>>

----------------------------------------------------------------------------
\* _profile_transition_tick.  dormant: the holdings waited the whole grace period and
\* have their evidence.
MayRoll(dormant) ==
    IF op.now THEN op.expired \/ (~book.buys /\ ~book.sells /\ ~book.held)
    ELSE ~book.buys /\ ~book.sells /\ (book.held => dormant)

\* end-now before the deadline: exits are scheduled and the tick waits.
TickSchedulesExits ==
    /\ lock = "free" /\ TransitionActive /\ op.source = book.season
    /\ op.now /\ ~op.expired /\ book.held /\ ~book.sells
    /\ book' = [book EXCEPT !.sells = TRUE]
    /\ UNCHANGED <<running, pref, op, call, reset, prep, lock, Counters>>

\* The boundary: rollover is one transaction that also writes the preference.
TickRolls(dormant) ==
    /\ lock = "free" /\ TransitionActive /\ op.source = book.season
    /\ MayRoll(dormant) /\ ~book.buys /\ seasonCount < MaxSeasons
    /\ book' = [NoBook EXCEPT !.season = seasonCount + 1, !.profile = op.target,
                              !.locked = op.prev]
    /\ seasonCount' = seasonCount + 1
    /\ pref' = op.prev
    /\ op' = [op EXCEPT !.rolls = op.rolls + 1]
    /\ lock' = "beat" /\ tick' = [op |-> ops, prev |-> op.prev]
    /\ UNCHANGED <<running, call, reset, prep, ops, preps, stops, failures, halfFrozen>>

\* Memory follows, and the operation if it is still the one the tick began with.
TickCompletes ==
    /\ lock = "beat"
    /\ running' = tick.prev /\ lock' = "free" /\ tick' = NoTick
    /\ op' = IF tick.op = ops THEN [op EXCEPT !.state = "completed"] ELSE op
    /\ UNCHANGED <<book, pref, call, reset, prep, seasonCount, ops, preps, stops, failures,
                   halfFrozen>>

----------------------------------------------------------------------------
\* begin_upgrade_preparation, under the mutation lock.
PrepBegins ==
    /\ call.pc = "idle" /\ ~prep.requested /\ prep.pc = "idle" /\ ~OpRunning
    /\ preps < MaxUpgradePreps /\ preps' = preps + 1
    /\ prep' = [state |-> "running", prev |-> running, requested |-> TRUE, pc |-> "settle"]
    /\ UNCHANGED <<book, running, pref, op, call, reset, lock, seasonCount, ops, stops,
                   failures, halfFrozen, tick>>

\* Mutant: unfilled orders survive the preparation.
PrepStopsOnly ==
    /\ prep.pc = "settle" /\ lock = "free"
    /\ running' = FALSE
    /\ prep' = [prep EXCEPT !.pc = "wait"]
    /\ UNCHANGED <<book, pref, op, call, reset, lock, Counters>>

\* _run_upgrade_preparation: engine off and orders cancelled under the event lock; the
\* saved preference stays.
PrepSettles ==
    /\ prep.pc = "settle" /\ lock = "free"
    /\ running' = FALSE /\ book' = NoOrders(book)
    /\ prep' = [prep EXCEPT !.pc = "wait"]
    /\ UNCHANGED <<pref, op, call, reset, lock, Counters>>

PrepReady ==
    /\ prep.pc = "wait"
    /\ prep' = [prep EXCEPT !.state = "ready", !.pc = "idle"]
    /\ UNCHANGED <<book, running, pref, op, call, reset, lock, Counters>>

\* Mutant: the engine is always started again.
RestoredAlways(r) == book.season # 0

\* _restore_after_maintenance
RestoredRunning(r) == r /\ book.season # 0

\* AI or storage did not settle, or the user cancelled a ready preparation.
PrepGivenUp ==
    /\ lock = "free"
    /\ \/ prep.pc = "wait" /\ prep' = [NoPrep EXCEPT !.state = "failed"]
       \/ /\ prep.state = "ready" /\ prep.requested /\ call.pc = "idle"
          /\ prep' = [NoPrep EXCEPT !.state = "cancelled"]
    /\ running' = RestoredRunning(prep.prev)
    /\ UNCHANGED <<book, pref, op, call, reset, lock, Counters>>

----------------------------------------------------------------------------
\* Mutant: an interrupted transition is always taken up again.
NeverCommitted == FALSE

\* _reconcile_interrupted_season_operation: did the interrupted transition commit?
Committed == book.season # op.source /\ book.profile = op.target

\* An interrupted transition that did not commit goes on draining.
Drains == TransitionActive /\ ~Committed

\* Mutant: the engine stays off after any interrupted transition.
OffAfterTransition == pref /\ book.season # 0 /\ ~TransitionActive

EngineAfterRestart == pref /\ book.season # 0 /\ ~Drains

\* What the next process reports of an operation it finds unfinished.
Reconciled ==
    IF \/ op.kind = "profile_transition"
       \/ op.kind = "reset" /\ book.season = 0
       \/ op.kind = "setup" /\ book.season # 0
       \/ op.kind = "start" /\ EngineAfterRestart
    THEN "completed" ELSE "failed"

\* The process stops anywhere; __init__ loads the preference, cancels orders of a
\* stopped engine and reconciles the interrupted operations.
ProcessRestarts ==
    /\ stops < MaxStops /\ stops' = stops + 1
    /\ running' = EngineAfterRestart /\ pref' = EngineAfterRestart
    /\ op' = IF ~OpRunning \/ Drains THEN op ELSE [op EXCEPT !.state = Reconciled]
    /\ book' = IF \/ ~(pref /\ book.season # 0) /\ ~TransitionActive
                  \/ prep.state = "running"
               THEN NoOrders(book)
               ELSE IF Drains THEN [book EXCEPT !.buys = FALSE] ELSE book
    /\ prep' = IF prep.state \in {"running", "ready"}
               THEN [NoPrep EXCEPT !.state = "completed"] ELSE prep
    /\ call' = NoCall /\ reset' = "idle" /\ lock' = "free"
    /\ tick' = NoTick
    /\ UNCHANGED <<seasonCount, ops, preps, failures, halfFrozen>>

SeasonNext ==
    \/ MarketBuys \/ MarketFills \/ MarketSells \/ AutoRollover
    \/ \E t \in {1, 2} : SetupBegins(t) \/ ReconfigureUnstarted(t) \/ TransitionWanted(t)
    \/ SetupInitializes \/ SetupStops
    \/ ResumeBegins \/ ResumeLocksProfile \/ ResumeSaves \/ ResumeFails \/ CallCompletes
    \/ StopSaves \/ StopCancels
    \/ ResetBegins \/ ResetPauses \/ ResetArchives \/ ResetFails \/ ResetCompletes
    \/ \E n \in BOOLEAN : TransitionBegins(n)
    \/ FreezeCancels \/ FreezeStops \/ FreezeFails \/ FreezeFailed
    \/ EndNow \/ SettlementExpires \/ TickSchedulesExits
    \/ \E d \in BOOLEAN : TickRolls(d)
    \/ TickCompletes
    \/ PrepBegins \/ PrepSettles \/ PrepReady \/ PrepGivenUp
    \/ ProcessRestarts

SeasonSpec == SeasonInit /\ [][SeasonNext]_seasonVars

----------------------------------------------------------------------------
\* Types of the season operations.
SeasonTypeOK ==
    /\ book.season \in 0..MaxSeasons /\ book.profile \in 0..2
    /\ running \in BOOLEAN /\ pref \in BOOLEAN
    /\ op.state \in {"none", "running", "completed", "failed"}
    /\ lock \in {"free", "api", "beat"}
    /\ prep.state \in {"none", "running", "ready", "failed", "cancelled", "completed"}

\* While a season drains for a profile change nothing can enter it: whenever the event
\* lock is free the engine is off and no buy is pending, across restarts, resumed
\* operations and automatic seasons (orchestrator.py 6557-6598, 6812-6836).
DrainIsFrozen ==
    (TransitionActive /\ lock = "free" /\ ~halfFrozen) => ~running /\ ~book.buys

\* A profile change replaces the season exactly once if it is reported completed and
\* never if it is reported failed, wherever the process stopped (5472-5738, 6786-6836).
TransitionOutcome ==
    (op.kind = "profile_transition" /\ ~halfFrozen) =>
        /\ op.rolls <= 1
        /\ op.state = "completed" => op.rolls = 1
        /\ op.state = "failed" => op.rolls = 0
        /\ (TransitionActive /\ lock = "free") => (op.rolls = 0 /\ op.source = book.season)

\* Once the app is reported ready to be stopped for an update the engine is off, no order
\* is pending and no season operation runs (orchestrator.py 7079-7141).
ReadyIsQuiet ==
    (prep.state = "ready" /\ prep.requested) =>
        ~running /\ ~book.buys /\ ~book.sells /\ ~OpRunning

\* When nothing is under way the engine runs exactly if the stored preference says so: a
\* restart would neither start nor stop it (orchestrator.py 707, 7054-7077, 7395-7424).
EngineMatchesPreference ==
    (lock = "free" /\ call.pc = "idle" /\ reset = "idle" /\ ~prep.requested) =>
        (running <=> pref)

\* A completed profile change leaves the engine as it was when the change was requested,
\* even if the process stopped between the boundary and the report (5666-5705).
TransitionRestoresEngine ==
    [][(TransitionActive /\ op'.state = "completed" /\ op'.kind = op.kind)
            => (running' = op.prev /\ pref' = op.prev)]_seasonVars

\* Wherever an operation is stopped, fails or meets another, what is reported of it is what
\* happened: a draining season is frozen, a changed season replaced once, a ready app quiet,
\* and the engine runs as its owner last said (orchestrator.py 5472-5771, 6786-7424).
OperationsRecover ==
    /\ []SeasonTypeOK
    /\ []DrainIsFrozen
    /\ []TransitionOutcome
    /\ []ReadyIsQuiet
    /\ []EngineMatchesPreference
    /\ TransitionRestoresEngine
==============================================================================
