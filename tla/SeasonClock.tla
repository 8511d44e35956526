----------------------------- MODULE SeasonClock -----------------------------
(***************************************************************************)
(* The countdown to an automatic new season (orchestrator.py 5773-5938,    *)
(* 6219-6335, 6876-6950, 6984-7077).                                       *)
(*                                                                         *)
(* A season may be replaced after it has been dormant for a whole grace    *)
(* period of verified time.  The clock is three timestamps, kept in memory *)
(* and, at checkpoints, in the database: the start of the window, the      *)
(* start of a pause, the last heartbeat that saw the season dormant.       *)
(* Missing data pauses it, a long pause or a sell throws it away, a gap    *)
(* between heartbeats is not credited, a restart goes on from the          *)
(* database, an upgrade carries the remaining time over.  The host clock   *)
(* may step backwards.                                                     *)
(***************************************************************************)
EXTENDS Integers

CONSTANTS
    Grace,          \* auto_new_season_grace_seconds
    MaxGap,         \* AUTO_NEW_SEASON_MAX_CONTINUITY_GAP_SECONDS
    PauseReset,     \* AUTO_NEW_SEASON_DATA_INTERRUPTION_RESET_SECONDS
    CheckpointEvery,\* AUTO_NEW_SEASON_CLOCK_CHECKPOINT_SECONDS
    Resolution,     \* AUTO_NEW_SEASON_TERMINAL_RESOLUTION_SECONDS
    MaxNow,         \* bound: time
    MaxBack,        \* bound: backward steps of the host clock
    MaxRestarts,    \* bound: restarts of the process
    MaxUpgrades,    \* bound: upgrade preparations
    NIL             \* an absent timestamp

ASSUME ClockAssumption ==
    /\ Grace \in Nat \ {0} /\ Resolution \in Nat
    /\ MaxGap \in Nat /\ PauseReset \in Nat \ {0} /\ CheckpointEvery \in Nat
    /\ MaxNow \in Nat /\ NIL \notin Int

VARIABLES
    wall,           \* the host clock
    clk,            \* in memory: [since, paused, seen, saved]
    durable,        \* in the database: [since, paused, seen]
    deadline,       \* _terminal_resolution's deadline, written through
    upgrade,        \* upgrade preparation: [pc, remaining]
    seasons,        \* automatic rollovers
    backs, restarts, upgrades,
    verified,       \* history: dormant time really observed
    unseen,         \* history: time since the last dormant heartbeat, as the host shows it
    missed,         \* history: a heartbeat without data came since then
    overtaken       \* history: a heartbeat or a sell came after an upgrade read what is counted

clockVars == <<wall, clk, durable, deadline, upgrade, seasons, backs, restarts, upgrades,
               verified, unseen, missed, overtaken>>
ghosts == <<verified, unseen, missed, overtaken>>

Stopped == [since |-> NIL, paused |-> NIL, seen |-> NIL, saved |-> NIL]
NoUpgrade == [pc |-> "none", remaining |-> NIL]
OnDisk(c) == [since |-> c.since, paused |-> c.paused, seen |-> c.seen]

ClockInit ==
    /\ wall = 0 /\ clk = Stopped /\ durable = OnDisk(Stopped) /\ deadline = NIL
    /\ upgrade = NoUpgrade /\ seasons = 0 /\ backs = 0 /\ restarts = 0 /\ upgrades = 0
    /\ verified = 0 /\ unseen = 0 /\ missed = FALSE /\ overtaken = FALSE

Least(a, b) == IF a < b THEN a ELSE b
Most(a, b) == IF a > b THEN a ELSE b

----------------------------------------------------------------------------
\* _set_auto_new_season_clock: memory and database together.
ClockSet(since, paused, seen) ==
    [since |-> since, paused |-> paused, seen |-> seen, saved |-> seen]

\* _checkpoint_auto_new_season_clock: memory every time, the database now and then.
CheckpointDue(c) == \/ c.saved = NIL
                    \/ wall < c.saved
                    \/ wall - c.saved >= CheckpointEvery
Checkpointed(c) == [c EXCEPT !.seen = wall,
                             !.saved = IF CheckpointDue(c) THEN wall ELSE c.saved]

\* _pause_auto_new_season_clock
PausedSince(c) ==
    LET p == IF c.paused # NIL THEN c.paused ELSE IF c.seen # NIL THEN c.seen ELSE wall
    IN  Least(p, wall)
ClockPaused(c) ==
    IF c.since = NIL THEN c
    ELSE IF wall - PausedSince(c) >= PauseReset THEN Stopped
    ELSE IF c.paused = NIL THEN ClockSet(c.since, PausedSince(c), c.seen)
    ELSE c

\* Mutant: a gap between two heartbeats is credited.
ClockResumedCredited(c) ==
    IF c.since = NIL THEN ClockSet(wall, NIL, wall)
    ELSE IF c.paused # NIL
    THEN IF wall - c.paused >= PauseReset THEN ClockSet(wall, NIL, wall)
         ELSE ClockSet(c.since + Most(0, wall - c.paused), NIL, wall)
    ELSE Checkpointed(c)

\* _resume_auto_new_season_clock
ClockResumed(c) ==
    LET gap == wall - c.seen
        paused == IF c.paused = NIL /\ c.seen # NIL /\ gap > MaxGap THEN c.seen ELSE c.paused
        lost == Most(0, wall - paused)
    IN  IF c.since = NIL THEN ClockSet(wall, NIL, wall)
        ELSE IF c.paused = NIL /\ c.seen # NIL /\ gap < 0
        THEN ClockSet(c.since + gap, NIL, wall)
        ELSE IF paused # NIL
        THEN ClockSet(IF lost >= PauseReset THEN wall ELSE c.since + lost, NIL, wall)
        ELSE Checkpointed(c)

\* _auto_new_season_elapsed_seconds
Elapsed(c) ==
    IF c.since = NIL THEN 0
    ELSE Most(0, Least(Grace, (IF c.paused # NIL THEN c.paused ELSE wall) - c.since))

\* Mutant: only the time of the heartbeat is written, not the shifted window.
SavesHeartbeat(c) == durable' = IF c.since = NIL \/ durable.since = NIL THEN OnDisk(c)
                               ELSE [durable EXCEPT !.seen = c.seen]

\* Mutant: one heartbeat early.
GraceAlmostOver(c) == Elapsed(c) >= Grace - 1

GraceOver(c) == Elapsed(c) >= Grace

\* What the database holds after memory became c: everything, except that an ordinary
\* heartbeat between two checkpoints saves nothing.
Saves(c) == durable' = IF c.seen = c.saved \/ c.since = NIL THEN OnDisk(c)
                      ELSE IF c.paused # clk.paused \/ c.since # clk.since THEN OnDisk(c)
                      ELSE durable

----------------------------------------------------------------------------
\* The environment
TimePasses ==
    /\ wall < MaxNow
    /\ wall' = wall + 1 /\ unseen' = unseen + 1
    /\ UNCHANGED <<clk, durable, deadline, upgrade, seasons, backs, restarts, upgrades,
                   verified, missed, overtaken>>

HostClockStepsBack ==
    /\ backs < MaxBack /\ wall > 0
    /\ wall' = wall - 1 /\ backs' = backs + 1 /\ unseen' = unseen - 1
    /\ UNCHANGED <<clk, durable, deadline, upgrade, seasons, restarts, upgrades, verified,
                   missed, overtaken>>

\* The dormant time a heartbeat proves: the time since the previous one, if nothing was
\* missing and the gap is small; a long interruption proves that nothing is known.
Proven == IF missed \/ unseen > MaxGap
          THEN IF unseen >= PauseReset THEN 0 ELSE verified
          ELSE verified + Most(0, unseen)

\* _perform_auto_new_season_tick, not eligible for want of data: the clock is paused.
TickWithoutData ==
    /\ upgrade.pc # "active"
    /\ clk' = ClockPaused(clk) /\ Saves(clk')
    /\ missed' = TRUE
    /\ overtaken' = (overtaken \/ upgrade.pc = "storing")
    /\ UNCHANGED <<wall, deadline, upgrade, seasons, backs, restarts, upgrades, verified, unseen>>

\* The season is not dormant (or a sell was filled, in the worker or in the heartbeat):
\* the clock is thrown away, and with it the resolution unless only a sell did it.
ClockDiscarded(sell) ==
    /\ upgrade.pc # "active" \/ sell
    /\ clk' = Stopped /\ durable' = OnDisk(Stopped)
    /\ deadline' = IF sell THEN deadline ELSE NIL
    /\ verified' = 0 /\ unseen' = 0 /\ missed' = FALSE
    /\ overtaken' = (upgrade.pc # "none")
    /\ UNCHANGED <<wall, upgrade, seasons, backs, restarts, upgrades>>

\* Mutant: the deadline of the resolution starts again at every heartbeat.
DeadlineRestarted == wall + Resolution

\* The deadline after this heartbeat: set once, then only ever shortened (6243-6270).
DeadlineNow == IF deadline = NIL THEN wall + Resolution
               ELSE Least(deadline, wall + Resolution)

\* A heartbeat that finds the season dormant.  waits: a holding still lacks evidence;
\* ready: the event queue reached the boundary.
DormantTick(waits, ready) ==
    /\ upgrade.pc # "active"
    /\ LET c == ClockResumed(clk)
           due == GraceOver(c)
           rolls == due /\ ready /\ (waits => wall >= DeadlineNow)
       IN  /\ (~due => ~waits /\ ~ready)
           /\ IF rolls
              THEN /\ clk' = Stopped /\ durable' = OnDisk(Stopped) /\ deadline' = NIL
                   /\ seasons' = seasons + 1
                   /\ verified' = 0 /\ overtaken' = (upgrade.pc = "storing")
              ELSE /\ clk' = c /\ Saves(c)
                   /\ deadline' = IF due THEN DeadlineNow ELSE deadline
                   /\ verified' = IF clk.since = NIL THEN 0 ELSE Proven
                   /\ overtaken' = (overtaken \/ upgrade.pc = "storing") /\ UNCHANGED seasons
    /\ missed' = FALSE /\ unseen' = 0
    /\ UNCHANGED <<wall, upgrade, backs, restarts, upgrades>>

\* configure_auto_new_season: the preference and the cleared clock in one write.
SwitchedOff == ClockDiscarded(FALSE)

----------------------------------------------------------------------------
\* begin_upgrade_preparation reads the remaining time without the event lock ...
UpgradeReads ==
    /\ upgrade.pc = "none" /\ upgrades < MaxUpgrades
    /\ upgrade' = [pc |-> "storing",
                   remaining |-> IF clk.since = NIL THEN NIL ELSE Grace - Elapsed(clk)]
    /\ upgrades' = upgrades + 1
    \* the time up to the preparation is taken as dormant although no heartbeat saw it
    /\ IF clk.since # NIL /\ clk.paused = NIL
       THEN verified' = verified + Most(0, unseen) /\ unseen' = Least(0, unseen)
       ELSE UNCHANGED <<verified, unseen>>
    /\ UNCHANGED <<wall, clk, durable, deadline, seasons, backs, restarts, missed, overtaken>>

\* ... and exposes the operation, with the clock cleared, once it is stored.
UpgradeStored ==
    /\ upgrade.pc = "storing"
    /\ upgrade' = [upgrade EXCEPT !.pc = "active"]
    /\ clk' = Stopped /\ durable' = OnDisk(Stopped)
    /\ UNCHANGED <<wall, deadline, seasons, backs, restarts, upgrades, ghosts>>

\* Mutant: the time spent in the upgrade counts as dormant.
RestoredSinceBegin == IF upgrade.remaining = NIL THEN NIL
                      ELSE (wall - (Grace - upgrade.remaining)) - unseen

\* _restored_auto_season_eligible_since
RestoredSince == IF upgrade.remaining = NIL THEN NIL
                 ELSE wall - (Grace - upgrade.remaining)

RestoredClock(previousRunning) ==
    IF RestoredSince = NIL \/ ~previousRunning THEN Stopped
    ELSE ClockSet(RestoredSince, NIL, wall)

\* Cancelled or failed (_restore_after_maintenance), or found again after a restart
\* (_reconcile_interrupted_maintenance_operation).
UpgradeEnds(previousRunning) ==
    /\ upgrade.pc = "active"
    /\ clk' = RestoredClock(previousRunning) /\ durable' = OnDisk(clk')
    /\ upgrade' = NoUpgrade
    /\ unseen' = 0 /\ missed' = FALSE
    /\ UNCHANGED <<wall, deadline, seasons, backs, restarts, upgrades, verified, overtaken>>

\* The process stops anywhere and comes back with what the database holds.
ClockRestarts ==
    /\ restarts < MaxRestarts /\ upgrade.pc # "active"
    /\ clk' = [since |-> durable.since, paused |-> durable.paused, seen |-> durable.seen,
               saved |-> durable.seen]
    /\ upgrade' = NoUpgrade
    /\ restarts' = restarts + 1
    /\ UNCHANGED <<wall, durable, deadline, seasons, backs, upgrades, ghosts>>

ClockNext ==
    \/ TimePasses \/ HostClockStepsBack
    \/ TickWithoutData \/ SwitchedOff \/ ClockDiscarded(TRUE)
    \/ \E w, r \in BOOLEAN : DormantTick(w, r)
    \/ UpgradeReads \/ UpgradeStored
    \/ \E p \in BOOLEAN : UpgradeEnds(p)
    \/ ClockRestarts

ClockSpec == ClockInit /\ [][ClockNext]_clockVars

----------------------------------------------------------------------------
\* Types of the season clock.
ClockTypeOK ==
    /\ wall \in 0..MaxNow /\ upgrade.pc \in {"none", "storing", "active"}
    /\ upgrade.remaining \in {NIL} \cup 0..Grace
    /\ missed \in BOOLEAN /\ overtaken \in BOOLEAN
    /\ verified \in Nat /\ unseen \in Int

\* The clock never credits more dormant time than heartbeats observed: not the gap of a
\* restart, of a stalled loop, of missing data, of an upgrade or of a host clock that
\* steps back (orchestrator.py 5865-5938, 6876-6892).
CreditIsVerified ==
    (~overtaken /\ clk.since # NIL) =>
        Least(Grace, (IF clk.paused # NIL THEN clk.paused ELSE clk.seen) - clk.since)
            <= verified

\* A season is replaced only after a whole grace period of verified dormant time
\* (orchestrator.py 6236-6241).
RolloverEarned == [][seasons' # seasons /\ ~overtaken => Proven >= Grace]_clockVars

\* What a restart would load credits no more than what memory credits
\* (orchestrator.py 727-733, 5865-5876).
StoredNeverAhead ==
    (clk.since # NIL /\ durable.since # NIL) =>
        (IF durable.paused # NIL THEN durable.paused ELSE durable.seen) - durable.since
            <= (IF clk.paused # NIL THEN clk.paused ELSE clk.seen) - clk.since

\* While one resolution lasts its deadline is never extended (orchestrator.py 6257-6261).
DeadlineNeverExtended ==
    [][(deadline # NIL /\ deadline' # NIL) => deadline' <= deadline]_clockVars

\* The countdown to an automatic season credits observed dormant time only, in memory and after
\* a restart, rolls over only when it is complete, and never moves its deadline away
\* (orchestrator.py 5865-5938, 6219-6335).
CountdownIsHonest ==
    /\ []ClockTypeOK
    /\ []CreditIsVerified
    /\ []StoredNeverAhead
    /\ RolloverEarned
    /\ DeadlineNeverExtended
==============================================================================
