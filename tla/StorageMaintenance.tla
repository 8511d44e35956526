-------------------------- MODULE StorageMaintenance --------------------------
(***************************************************************************)
(* Bounded database cleanup and the learning reserve request it must not   *)
(* waste (orchestrator.py 3474-4157, 4295-4325, 4539-4775, 7015-7141,      *)
(* 8016-8062; database.py 1198-1705, 3408-3457).                           *)
(*                                                                         *)
(* The storage loop runs one pass at a time in worker threads: a capacity  *)
(* read, the age-expired rows of three categories, the retired tables, the *)
(* size budget, an optional category, a second capacity read.  Every one   *)
(* of these steps may be refused by a busy database, and market pressure,  *)
(* a policy change or an upgrade may end the pass between two of them.     *)
(* The reserve worker holds a request of several seconds meanwhile; its    *)
(* answer is thrown away when storage is active as it comes back.          *)
(***************************************************************************)
EXTENDS Integers, FiniteSets

CONSTANTS
    Target,         \* 0.90 * storage_max_bytes, in rows
    Evidence,       \* rows no cleanup may remove
    MaxArrivals,    \* bound: rows that arrive or expire
    MaxPolicies,    \* bound: changes of the storage policy
    MaxUpgradeTries \* bound: upgrade preparations

ASSUME StorageAssumption ==
    Target \in Nat /\ Evidence \in Nat

Categories == <<"raw_trades", "non_entry_decisions", "equity_points">>
Category == {Categories[i] : i \in 1..3}

VARIABLES
    aged,           \* rows past their retention, per category
    recent,         \* younger rows beyond the preserved newest ones
    retired,        \* rows of closed seasons' decision tables
    store,          \* the storage worker: [pc, outdated, urgent, known, more, left, offset]
    requested,      \* _storage_maintenance_requested
    storageActive,  \* _storage_maintenance_active
    budgetState,    \* _storage_budget_state
    pressure,       \* the market path is busy (_storage_market_path_busy)
    yieldSignal,    \* _storage_market_yield_requested
    declared,       \* an upgrade: "no", "requested", "ready" (_maintenance_requested)
    reserve,        \* the reserve worker: "idle", "select", "fetch" or "answered"
    arrivals, policies, tries,
    arrived,        \* history: a row arrived or expired since the last pass began
    excused,        \* history: an upgrade cancelled the outstanding request
    skipped         \* history: history passes since equity_points, the last in line, had a turn

storageVars == <<aged, recent, retired, store, requested, storageActive, budgetState,
                 pressure, yieldSignal, declared, reserve, arrivals, policies, tries, arrived,
                 excused, skipped>>
rowVars == <<aged, recent, retired>>
marketVars == <<pressure, yieldSignal>>
boundVars == <<arrivals, policies, tries>>
ghostVars == <<arrived, excused, skipped>>

Maintenance == declared # "no"
Aged == aged["raw_trades"] + aged["non_entry_decisions"] + aged["equity_points"]
LiveRows == Aged + recent + retired + Evidence
Budgeted == aged["raw_trades"] + aged["non_entry_decisions"] + recent
InFlight == reserve # "idle"                    \* _learning_reserve_in_flight

\* The worker with nothing of a pass decided yet.
StoreAt(pc) == [pc |-> pc, outdated |-> FALSE, urgent |-> FALSE, known |-> FALSE,
                more |-> FALSE, left |-> FALSE, offset |-> store.offset]

StorageInit ==
    /\ aged = [c \in Category |-> 0] /\ recent \in 0..1 /\ retired = 0
    /\ requested = FALSE /\ storageActive = FALSE
    /\ store = [pc |-> "wait", outdated |-> FALSE, urgent |-> FALSE, known |-> FALSE,
                more |-> FALSE, left |-> FALSE, offset |-> 0]
    /\ budgetState = "within_budget"
    /\ pressure = FALSE /\ yieldSignal = FALSE /\ declared = "no"
    /\ reserve = "idle"
    /\ arrivals = 0 /\ policies = 0 /\ tries = 0
    /\ arrived = FALSE /\ excused = FALSE /\ skipped = 0

-----------------------------------------------------------------------------
(* The storage pass *)

\* stop_requested of a pass (3710-3715).
StopRequested == Maintenance \/ store.outdated

\* Every exit of a pass clears the flag and wakes whoever waits for it (4009-4020).
Ends ==
    /\ store' = StoreAt("wait")
    /\ storageActive' = FALSE

\* The loop finds a pass due (3485-3502): on request, or when the interval is over.
LoopTakesPass ==
    /\ store.pc = "wait" /\ ~Maintenance
    /\ requested' = FALSE
    /\ store' = StoreAt("starting")
    /\ UNCHANGED <<rowVars, storageActive, budgetState, marketVars, declared, reserve, boundVars,
                   ghostVars>>

\* A pass with nothing urgent to do waits for an admitted reserve request, as long as
\* the last measurement is recent and the deferral young (3724-3738); time is left open.
MayProtectRequest == InFlight /\ budgetState = "within_budget" /\ LiveRows <= Target

\* Mutant: the pass trusts the check the loop made before it created the task.
NeverRefused == FALSE

\* The pass runs in a task of its own: an upgrade may have come before it (3706-3707).
PassRefused == Maintenance

\* The beginning of a pass (3704-3742).
PassStarts ==
    /\ store.pc = "starting"
    /\ \/ /\ PassRefused
          /\ store' = StoreAt("wait") /\ excused' = TRUE
          /\ UNCHANGED <<requested, storageActive, arrived>>
       \/ /\ ~PassRefused /\ MayProtectRequest
          /\ store' = StoreAt("wait") /\ requested' = TRUE
          /\ UNCHANGED <<storageActive, arrived, excused>>
       \/ /\ ~PassRefused
          /\ store' = StoreAt("before") /\ storageActive' = TRUE
          /\ arrived' = FALSE /\ excused' = FALSE
          /\ UNCHANGED requested
    /\ UNCHANGED <<rowVars, budgetState, marketVars, declared, reserve, boundVars, skipped>>

\* The budget state after a measurement, before any cleanup (3777-3787).
Measured ==
    IF LiveRows <= Target THEN "within_budget"
    ELSE IF budgetState \in {"within_budget", "capacity_unknown"} THEN "cleanup_needed"
    ELSE budgetState

\* The first capacity read, refused when the reader is busy, and the bounded deferral
\* of ordinary work to the market (3757-3809); how long it lasted is left open.
CapacityBefore ==
    /\ store.pc = "before"
    /\ \E refused \in {b \in BOOLEAN : Maintenance => b}, young \in BOOLEAN :
        LET urgent == ~refused /\ LiveRows > Target
        IN  /\ budgetState' = IF refused THEN "capacity_unknown"
                              ELSE IF StopRequested THEN budgetState
                              ELSE Measured
            /\ IF StopRequested \/ (pressure /\ ~urgent /\ young)
               THEN Ends /\ requested' = TRUE
               ELSE /\ store' = [store EXCEPT !.pc = "history", !.urgent = urgent,
                                              !.known = ~refused]
                    /\ requested' = (requested \/ refused)
                    /\ UNCHANGED storageActive
    /\ UNCHANGED <<rowVars, marketVars, declared, reserve, boundVars, ghostVars>>

\* Mutant: every pass starts with the raw trades.
FixedTurn(i) == Categories[i]

\* The i-th category of this pass: the admission rotates (3811-3813, database.py 1287-1290).
Turn(i) == Categories[((store.offset + i - 1) % 3) + 1]

\* prune_history (database.py 1198-1328): a prefix of the categories loses a chunk
\* (one row), the next one is rolled back at the deadline, the others wait.
PruneHistory ==
    /\ store.pc = "history"
    /\ \E n \in IF StopRequested THEN {0} ELSE 0..3 :
        LET done == {Turn(i) : i \in 1..n}
            tried == {Turn(i) : i \in {j \in 1..3 : j <= n + 1}}
            removed == {c \in done : aged[c] > 0}
        IN  /\ aged' = [c \in Category |-> aged[c] - IF c \in removed THEN 1 ELSE 0]
            /\ store' = [store EXCEPT !.pc = "retired", !.more = n < 3 \/ removed # {},
                                      !.offset = (@ + 1) % 3]
            /\ skipped' = IF StopRequested \/ "equity_points" \in tried THEN 0 ELSE skipped + 1
    /\ UNCHANGED <<recent, retired, requested, storageActive, budgetState, marketVars,
                   declared, reserve, boundVars, arrived, excused>>

\* prune_retired_decisions (database.py 1330-1380), then the checks before the
\* budget (3845-3867): any retired table found means that work remains.
PruneRetired ==
    /\ store.pc = "retired"
    /\ \E refused \in {b \in BOOLEAN : StopRequested => b}, removes \in BOOLEAN :
        /\ retired' = IF refused \/ ~removes \/ retired = 0 THEN retired ELSE retired - 1
        /\ IF StopRequested \/ (pressure /\ ~store.urgent)
           THEN Ends /\ requested' = TRUE
           ELSE /\ store' = [store EXCEPT !.pc = "budget",
                                          !.more = @ \/ refused \/ retired > 0]
                /\ UNCHANGED <<requested, storageActive>>
    /\ UNCHANGED <<aged, recent, budgetState, marketVars, declared, reserve, boundVars, ghostVars>>

\* The chunks one budget pass may delete: none, one, or all that is not preserved.
Deletes ==
    \/ aged' = [c \in Category |-> IF c = "equity_points" THEN aged[c] ELSE 0] /\ recent' = 0
    \/ \E c \in Category \ {"equity_points"} :
         aged[c] > 0 /\ aged' = [aged EXCEPT ![c] = @ - 1] /\ UNCHANGED recent
    \/ recent > 0 /\ recent' = recent - 1 /\ UNCHANGED aged
    \/ UNCHANGED <<aged, recent>>

\* Mutant: a budget pass that was cut short reports what it deleted and no more.
NothingLeft(interrupted) == FALSE

\* work_remaining of enforce_storage_budget (database.py 1543-1564, 1693-1704): a
\* refused read, or the size still above the target with rows to delete.
WorkLeft(interrupted) == interrupted \/ (LiveRows' > Target /\ Budgeted' > 0)

\* enforce_storage_budget (database.py 1503-1704, orchestrator.py 3869-3896): no work
\* without a measurement, none inside the budget, chunks until it is interrupted.
EnforceBudget ==
    /\ store.pc = "budget"
    /\ yieldSignal' = (yieldSignal \/ pressure)
    /\ UNCHANGED retired
    /\ LET stopped == StopRequested \/ (yieldSignal' /\ ~store.urgent)
       IN  \E interrupted \in {b \in BOOLEAN : stopped => b} :
            /\ IF store.known /\ LiveRows > Target /\ ~stopped
               THEN Deletes
               ELSE UNCHANGED <<aged, recent>>
            /\ IF StopRequested
               THEN Ends /\ requested' = TRUE
               ELSE /\ store' = [store EXCEPT !.pc = "optional",
                                              !.left = ~store.known \/ WorkLeft(interrupted)]
                    /\ UNCHANGED <<requested, storageActive>>
    /\ UNCHANGED <<budgetState, pressure, declared, reserve, boundVars, ghostVars>>

\* The optional category of a pass (3897-3900), abstracted to the time it takes.
PruneOptional ==
    /\ store.pc = "optional"
    /\ IF StopRequested
       THEN Ends /\ requested' = TRUE
       ELSE store' = [store EXCEPT !.pc = "after"] /\ UNCHANGED <<requested, storageActive>>
    /\ UNCHANGED <<rowVars, budgetState, marketVars, declared, reserve, boundVars, ghostVars>>

\* Mutant: only the size budget asks for another pass.
AgainForBudget == store.left

\* Whether another pass is needed (3938-3940).
AgainNeeded == store.more \/ store.left

\* The second read and the verdict of the pass (3905-3990).
CapacityAfter ==
    /\ store.pc = "after"
    /\ \E refused \in {b \in BOOLEAN : Maintenance => b} :
        /\ Ends
        /\ budgetState' = IF refused THEN "capacity_unknown"
                          ELSE IF StopRequested THEN budgetState
                          ELSE IF LiveRows <= Target THEN "within_budget"
                          ELSE IF store.more \/ store.left THEN "cleanup_needed"
                          ELSE "retained_evidence_above_target"
        /\ requested' = (requested \/ refused \/ StopRequested \/ AgainNeeded)
    /\ UNCHANGED <<rowVars, marketVars, declared, reserve, boundVars, ghostVars>>

\* An error ends the pass; the loop asks for another one (3503-3511, 4000-4020).
PassFails ==
    /\ store.pc \in {"before", "history", "retired", "budget", "optional", "after"}
    /\ Ends /\ requested' = TRUE
    /\ UNCHANGED <<rowVars, budgetState, marketVars, declared, reserve, boundVars, ghostVars>>

\* Optional housekeeping of its own between passes (3503-3507).
LoopTakesOptional ==
    /\ store.pc = "wait" /\ ~Maintenance /\ ~requested
    /\ store' = StoreAt("optional starting")
    /\ UNCHANGED <<rowVars, requested, storageActive, budgetState, marketVars, declared, reserve,
                   boundVars, ghostVars>>

\* Mutant: only the upgrade and another pass hold optional work back.
RefusedByPass == Maintenance \/ storageActive

\* What holds optional work back (3555-3563).
OptionalRefused == Maintenance \/ storageActive \/ InFlight

OptionalStarts ==
    /\ store.pc = "optional starting"
    /\ IF OptionalRefused
       THEN store' = StoreAt("wait") /\ UNCHANGED storageActive
       ELSE store' = StoreAt("optional only") /\ storageActive' = TRUE
    /\ UNCHANGED <<rowVars, requested, budgetState, marketVars, declared, reserve, boundVars, ghostVars>>

OptionalEnds ==
    /\ store.pc = "optional only" /\ Ends
    /\ UNCHANGED <<rowVars, requested, budgetState, marketVars, declared, reserve, boundVars, ghostVars>>

-----------------------------------------------------------------------------
(* The learning reserve request *)

\* _learning_reserve_blocked_reason (4295-4318).
ReserveBlocked == Maintenance \/ storageActive \/ pressure

\* Everything but the reserve worker is left alone.
OnlyReserve ==
    UNCHANGED <<rowVars, store, requested, storageActive, budgetState, marketVars, declared,
                boundVars, ghostVars>>

\* The worker's turn: the request counts as in flight from here (4545-4549, 4568-4570).
ReserveTurn ==
    /\ reserve = "idle" /\ ~ReserveBlocked
    /\ reserve' = "select"
    /\ OnlyReserve

\* Selection under the event lock: the guards are checked again (4634-4700).
ReserveSelects ==
    /\ reserve = "select"
    /\ reserve' \in IF ReserveBlocked THEN {"idle"} ELSE {"idle", "fetch"}
    /\ OnlyReserve

\* The request is answered, fails or times out (4701-4729).
ReserveAnswers ==
    /\ reserve = "fetch"
    /\ reserve' \in {"answered", "idle"}
    /\ OnlyReserve

\* The answer is kept for a moment while storage is active, then applied or thrown
\* away under the event lock (4577-4632, 4730-4775).
ReserveConcludes ==
    /\ reserve = "answered"
    /\ reserve' = "idle"
    /\ OnlyReserve

-----------------------------------------------------------------------------
(* The surroundings *)

\* A row is written, or a kept one reaches its age.
RowArrives ==
    /\ arrivals < MaxArrivals /\ arrivals' = arrivals + 1
    /\ arrived' = TRUE
    /\ \/ recent' = recent + 1 /\ UNCHANGED <<aged, retired>>
       \/ retired' = retired + 1 /\ UNCHANGED <<aged, recent>>
       \/ \E c \in Category : aged' = [aged EXCEPT ![c] = @ + 1] /\ UNCHANGED <<recent, retired>>
    /\ UNCHANGED <<store, requested, storageActive, budgetState, marketVars, declared, reserve,
                   policies, tries, excused, skipped>>

\* Market pressure comes and goes; the signal to the worker thread is set with it
\* and cleared by an idle queue (2238-2240, 3474-3483, 3528-3531).
MarketMoves ==
    /\ pressure' = ~pressure
    /\ yieldSignal' \in IF pressure THEN {yieldSignal, FALSE} ELSE {TRUE}
    /\ UNCHANGED <<rowVars, store, requested, storageActive, budgetState, declared, reserve,
                   boundVars, ghostVars>>

\* configure_storage (8016-8062): a pass under way belongs to an older revision.
ConfigureStorage ==
    /\ policies < MaxPolicies /\ policies' = policies + 1
    /\ store' = [store EXCEPT !.outdated = storageActive]
    /\ requested' = TRUE
    /\ budgetState' \in IF budgetState = "capacity_unknown" THEN {budgetState}
                        ELSE {"cleanup_needed", "within_budget"}
    /\ UNCHANGED <<rowVars, storageActive, marketVars, declared, reserve, arrivals, tries, ghostVars>>

\* begin_upgrade_preparation cancels the request (7028-7036).
UpgradeDeclared ==
    /\ declared = "no" /\ tries < MaxUpgradeTries
    /\ declared' = "requested" /\ tries' = tries + 1
    /\ requested' = FALSE /\ excused' = TRUE
    /\ UNCHANGED <<rowVars, store, storageActive, budgetState, marketVars, reserve, arrivals, policies,
                   arrived, skipped>>

\* The preparation waits for the cleanup to settle (7116-7141).
UpgradeReady ==
    /\ declared = "requested" /\ ~storageActive
    /\ declared' = "ready"
    /\ UNCHANGED <<rowVars, store, requested, storageActive, budgetState, marketVars, reserve,
                   boundVars, ghostVars>>

\* It fails, times out or is cancelled (7126-7129, 7142-7192).
UpgradeGivenUp ==
    /\ declared # "no" /\ declared' = "no"
    /\ UNCHANGED <<rowVars, store, requested, storageActive, budgetState, marketVars, reserve,
                   boundVars, ghostVars>>

StorageNext ==
    \/ LoopTakesPass \/ PassStarts \/ CapacityBefore \/ PruneHistory \/ PruneRetired
    \/ EnforceBudget \/ PruneOptional \/ CapacityAfter \/ PassFails
    \/ LoopTakesOptional \/ OptionalStarts \/ OptionalEnds
    \/ ReserveTurn \/ ReserveSelects \/ ReserveAnswers \/ ReserveConcludes
    \/ RowArrives \/ MarketMoves \/ ConfigureStorage
    \/ UpgradeDeclared \/ UpgradeReady \/ UpgradeGivenUp

StorageSpec == StorageInit /\ [][StorageNext]_storageVars

-----------------------------------------------------------------------------
(* Properties *)

\* The variables have the types the code gives them.
StorageTypeOK ==
    /\ aged \in [Category -> Nat] /\ recent \in Nat /\ retired \in Nat
    /\ requested \in BOOLEAN /\ storageActive \in BOOLEAN
    /\ budgetState \in {"within_budget", "cleanup_needed", "capacity_unknown",
                        "retained_evidence_above_target"}
    /\ declared \in {"no", "requested", "ready"}
    /\ reserve \in {"idle", "select", "fetch", "answered"}
    /\ storageActive <=> store.pc \notin {"wait", "starting", "optional starting"}

\* A pass that leaves work behind is followed by another one, whatever ended it: a
\* deferral, a refused read, an error, a policy change or a full chunk
\* (orchestrator.py 3509, 3737, 3769-3801, 3863-3940).  Only an upgrade may drop it.
CleanupRemembered ==
    (store.pc = "wait" /\ ~arrived /\ ~excused /\ (Aged > 0 \/ retired > 0)) => requested

\* A pass reports the budget as filled by immutable evidence only when it left no
\* removable row, unless rows came in while it ran (orchestrator.py 3930-3936).
RetainedIsExhausted ==
    [][(budgetState # budgetState' /\ budgetState' = "retained_evidence_above_target"
            /\ ~arrived) => Budgeted = 0]_storageVars

\* Once an upgrade is reported ready no cleanup is running or can begin
\* (orchestrator.py 7116-7141 against the task switch at 3553-3554).
UpgradeIsQuiet == declared = "ready" => ~storageActive

\* Optional housekeeping never runs beside a reserve request that is under way: its
\* answer would be thrown away (orchestrator.py 3558-3560, 4568-4570).
OptionalYieldsToLearning ==
    ~(store.pc = "optional only" /\ reserve \in {"fetch", "answered"})

\* A backlog in one category never keeps another from its turn for three history
\* passes, as long as none of them is stopped (orchestrator.py 3811-3813).
HistoryTurnsShared == skipped <= 2

\* Cleanup that had to stop is taken up again, reports truthfully why it ends, shares its turns
\* and stays out of the way of learning and upgrades (orchestrator.py 3474-3940, 4568-4570).
CleanupCompletes ==
    /\ []StorageTypeOK
    /\ []CleanupRemembered
    /\ []UpgradeIsQuiet
    /\ []OptionalYieldsToLearning
    /\ []HistoryTurnsShared
    /\ RetainedIsExhausted
=============================================================================
