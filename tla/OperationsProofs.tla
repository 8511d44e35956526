--------------------------- MODULE OperationsProofs ---------------------------
(***************************************************************************)
(* The parts that operate a season keep their promises, for every value of *)
(* their constants.                                                        *)
(*                                                                         *)
(* The countdown to an automatic season is honest (SeasonClock), however   *)
(* far the host clock moves.  What the clock counts is bounded by what     *)
(* heartbeats saw at every moment                                          *)
(* (CountsNoMore: with the time since the last heartbeat while it runs,    *)
(* without it while it is paused), and the database holds the same clock   *)
(* as of its last checkpoint, which is no later (ClockRuns).  The          *)
(* remainder an upgrade takes over obeys the same bound (UpgradeHolds).    *)
(*                                                                         *)
(* Database cleanup completes (StorageMaintenance): a pass that will not   *)
(* ask for another one has emptied what it has been through, and between   *)
(* passes nothing is left without a request (PassRemembers); optional work *)
(* began beside an idle reserve worker (OptionalAlone), and the rotating   *)
(* admission bounds how long a category is left out (TurnsRotate).         *)
(*                                                                         *)
(* The durable operations of a season report what happened                 *)
(* (SeasonOperations), although the process may stop and a write may fail  *)
(* between any two of their steps.  Every caller, task and lock belongs to *)
(* the operation that runs (CallersOwn); a profile change draws on the     *)
(* season it began in until its boundary, and from the boundary to its     *)
(* report what the heartbeat read before it waited is still true           *)
(* (TransitionDrains); the engine differs from its stored preference only  *)
(* by the write under way (EngineKnown); and an upgrade is prepared with   *)
(* nothing else under way (PrepAlone).                                     *)
(*                                                                         *)
(* The local critic accounts for what it takes up (AiLab): a token waits   *)
(* once and not while the worker has it (QueuedOnce), a task's row is its  *)
(* own until it is published (RowsOwned), whatever passes for qualified    *)
(* was audited although audits end late (AuditsKnown), and a paused lab    *)
(* has nothing waiting (PausedIsQuiet).                                    *)
(***************************************************************************)
EXTENDS SeasonClock, SeasonOperations, StorageMaintenance, AiLab, TLAPS

\* A running clock.
Clocks == [since : Int, paused : Int \cup {NIL}, seen : Int, saved : Int]

\* The clock is off, or its heartbeat is no later than the history knows and a pause began before.
ClockRuns ==
    \/ clk = Stopped
    \/ /\ clk \in Clocks
       /\ clk.saved <= clk.seen /\ unseen <= wall - clk.seen
       /\ clk.paused # NIL => clk.paused <= wall - unseen

\* What the clock has counted was verified, or passed since the last heartbeat.
CountsNoMore ==
    ~overtaken /\ clk.since # NIL =>
        IF clk.paused = NIL THEN wall - clk.since <= verified + unseen
        ELSE clk.paused - clk.since <= verified

\* What an upgrade took over was verified; the clock is off while it lasts.
UpgradeHolds ==
    /\ upgrade \in [pc : {"none", "storing", "active"}, remaining : {NIL} \cup 0..Grace]
    /\ ~overtaken /\ upgrade.remaining # NIL => Grace - upgrade.remaining <= verified
    /\ upgrade.pc = "none" => upgrade.remaining = NIL
    /\ upgrade.pc = "active" => clk = Stopped

ClockTypes ==
    /\ wall \in 0..MaxNow /\ verified \in Nat /\ unseen \in Int
    /\ missed \in BOOLEAN /\ overtaken \in BOOLEAN /\ deadline \in Int \cup {NIL}

ClockInv ==
    /\ ClockTypes /\ ClockRuns /\ CountsNoMore /\ UpgradeHolds
    /\ durable = [since |-> clk.since, paused |-> clk.paused, seen |-> clk.saved]
    /\ missed /\ clk.since # NIL => clk.paused # NIL

RolloverStep == seasons' # seasons /\ ~overtaken => Proven >= Grace
DeadlineStep == deadline # NIL /\ deadline' # NIL => deadline' <= deadline

ClockStepped == ClockInv' /\ RolloverStep /\ DeadlineStep

LEMMA StoppedFacts ==
    /\ Stopped.since = NIL /\ Stopped.paused = NIL /\ Stopped.seen = NIL /\ Stopped.saved = NIL
    /\ OnDisk(Stopped) = [since |-> NIL, paused |-> NIL, seen |-> NIL]
    /\ NIL \notin Int
BY ClockAssumption DEF Stopped, OnDisk

LEMMA PassesStep == ClockInv /\ (TimePasses \/ HostClockStepsBack) => ClockStepped
BY ClockAssumption, StoppedFacts
   DEF ClockInv, ClockStepped, TimePasses, HostClockStepsBack, ClockTypes, ClockRuns, CountsNoMore,
       UpgradeHolds, Clocks, RolloverStep, DeadlineStep

LEMMA UpgradeReadsStep == ClockInv /\ UpgradeReads => ClockStepped
BY ClockAssumption, StoppedFacts
   DEF ClockInv, ClockStepped, UpgradeReads, ClockTypes, ClockRuns, CountsNoMore, Elapsed,
       UpgradeHolds, Clocks, RolloverStep, DeadlineStep, Most, Least

LEMMA UpgradeStoredStep == ClockInv /\ UpgradeStored => ClockStepped
BY ClockAssumption, StoppedFacts
   DEF ClockInv, ClockStepped, UpgradeStored, ClockTypes, ClockRuns, CountsNoMore, ghosts,
       UpgradeHolds, Clocks, RolloverStep, DeadlineStep

LEMMA DiscardedStep == ASSUME NEW sell \in BOOLEAN PROVE ClockInv /\ ClockDiscarded(sell) => ClockStepped
<1> SUFFICES ASSUME ClockInv, ClockDiscarded(sell) PROVE ClockStepped
  OBVIOUS
<1>1. /\ clk' = Stopped /\ durable' = OnDisk(Stopped) /\ deadline' \in {deadline, NIL}
      /\ verified' = 0 /\ unseen' = 0 /\ missed' = FALSE /\ overtaken' = (upgrade.pc # "none")
      /\ UNCHANGED <<wall, upgrade, seasons>>
  BY DEF ClockDiscarded
<1>2. UpgradeHolds'
  <2>1. overtaken' \/ upgrade.remaining = NIL
    BY <1>1 DEF ClockInv, UpgradeHolds
  <2> QED
    BY <1>1, <2>1 DEF ClockInv, UpgradeHolds
<1>5. overtaken' \in BOOLEAN /\ missed' \in BOOLEAN
  BY <1>1
<1>6. ClockTypes'
  BY <1>1, <1>5 DEF ClockInv, ClockTypes
<1>3. ClockRuns' /\ CountsNoMore'
  BY <1>1, StoppedFacts DEF ClockRuns, CountsNoMore
<1>4. DeadlineStep
  BY <1>1 DEF ClockInv, ClockTypes, DeadlineStep
<1> QED
  BY <1>1, <1>2, <1>3, <1>4, <1>6, StoppedFacts DEF ClockInv, ClockStepped, RolloverStep

\* A restart goes on from what is saved, which is no later than the last heartbeat.
LEMMA ClockRestartsStep == ClockInv /\ ClockRestarts => ClockStepped
<1> SUFFICES ASSUME ClockInv, ClockRestarts PROVE ClockStepped
  OBVIOUS
<1>1. /\ clk' = [since |-> clk.since, paused |-> clk.paused, seen |-> clk.saved, saved |-> clk.saved]
      /\ upgrade.pc # "active" /\ upgrade' = [pc |-> "none", remaining |-> NIL]
      /\ UNCHANGED <<wall, durable, deadline, seasons, verified, unseen, missed, overtaken>>
  BY DEF ClockRestarts, ClockInv, ghosts, NoUpgrade
<1>2. CASE clk = Stopped
  <2>1. clk' = Stopped
    BY <1>1, <1>2, StoppedFacts DEF Stopped
  <2> QED
    BY <1>1, <1>2, <2>1, StoppedFacts
       DEF ClockInv, ClockStepped, ClockTypes, ClockRuns, CountsNoMore, UpgradeHolds, RolloverStep, DeadlineStep
<1>3. CASE clk # Stopped
  <2>1. /\ clk \in Clocks /\ clk.saved <= clk.seen /\ unseen <= wall - clk.seen
        /\ wall \in Int /\ unseen \in Int
    BY <1>3 DEF ClockInv, ClockRuns, ClockTypes
  <2>2. clk' \in Clocks /\ unseen <= wall - clk.saved
    BY <1>1, <2>1 DEF Clocks
  <2>3. ClockRuns' /\ CountsNoMore'
    BY <1>1, <1>3, <2>1, <2>2 DEF ClockInv, ClockRuns, CountsNoMore, Clocks
  <2> QED
    BY <1>1, <2>1, <2>3, StoppedFacts
       DEF ClockInv, ClockStepped, ClockTypes, UpgradeHolds, RolloverStep, DeadlineStep
<1> QED
  BY <1>2, <1>3

\* The restored clock has counted what remained to be counted when the upgrade began.
LEMMA UpgradeEndsStep ==
    ASSUME NEW previousRunning \in BOOLEAN, ClockInv, UpgradeEnds(previousRunning) PROVE ClockStepped
<1>1. /\ upgrade.pc = "active" /\ clk' = RestoredClock(previousRunning) /\ durable' = OnDisk(clk')
      /\ upgrade' = [pc |-> "none", remaining |-> NIL] /\ unseen' = 0 /\ missed' = FALSE
      /\ UNCHANGED <<wall, deadline, seasons, verified, overtaken>>
  BY DEF UpgradeEnds, NoUpgrade
<1>8. missed' \in BOOLEAN /\ overtaken' \in BOOLEAN
  BY <1>1 DEF ClockInv, ClockTypes
<1>6. ClockTypes'
  BY <1>1, <1>8 DEF ClockInv, ClockTypes
<1>7. /\ upgrade' \in [pc : {"none", "storing", "active"}, remaining : {NIL} \cup 0..Grace]
      /\ upgrade'.remaining = NIL /\ upgrade'.pc = "none"
  BY <1>1
<1>4. ClockTypes' /\ UpgradeHolds'
  BY <1>6, <1>7 DEF UpgradeHolds
<1>5. RolloverStep /\ DeadlineStep
  BY <1>1 DEF ClockInv, ClockTypes, RolloverStep, DeadlineStep
<1>2. CASE clk' = Stopped
  <2>1. ClockRuns' /\ CountsNoMore'
    BY <1>2, StoppedFacts DEF ClockRuns, CountsNoMore
  <2> QED
    BY <1>1, <1>2, <1>4, <1>5, <2>1, StoppedFacts DEF ClockInv, ClockStepped
<1>3. CASE clk' # Stopped
  <2>1. RestoredSince # NIL /\ clk' = ClockSet(RestoredSince, NIL, wall)
    BY <1>1, <1>3 DEF RestoredClock
  <2>4. upgrade.remaining # NIL
    BY <2>1 DEF RestoredSince
  <2>5. clk' = [since |-> wall - (Grace - upgrade.remaining), paused |-> NIL, seen |-> wall, saved |-> wall]
    BY <2>1, <2>4 DEF RestoredSince, ClockSet
  <2>2. /\ wall \in Int /\ upgrade.remaining \in Int /\ Grace \in Int /\ verified \in Nat
        /\ ~overtaken => Grace - upgrade.remaining <= verified
    BY <2>4, ClockAssumption DEF ClockInv, ClockTypes, UpgradeHolds
  <2>3. ClockRuns' /\ CountsNoMore'
    BY <1>1, <2>5, <2>2, StoppedFacts DEF ClockRuns, CountsNoMore, Clocks
  <2>7. durable' = [since |-> clk'.since, paused |-> clk'.paused, seen |-> clk'.saved]
    BY <1>1, <2>5 DEF OnDisk
  <2> QED
    BY <1>1, <1>4, <1>5, <2>3, <2>7 DEF ClockInv, ClockStepped
<1> QED
  BY <1>2, <1>3

\* What a dormant heartbeat makes of the clock: it counts no time that the history does not.
LEMMA ResumedCounts ==
    ASSUME ClockInv
    PROVE  LET c == ClockResumed(clk)
           IN  /\ c \in Clocks /\ c.paused = NIL /\ c.seen = wall /\ c.saved <= wall
               /\ c.saved # wall => c.saved = clk.saved /\ c.since = clk.since /\ clk.paused = NIL
               /\ clk.since = NIL => c.since = wall
               /\ clk.since # NIL /\ ~overtaken => wall - c.since <= Proven
<1> DEFINE c == ClockResumed(clk)
<1>1. /\ wall \in Nat /\ verified \in Nat /\ unseen \in Int /\ Grace \in Nat /\ MaxGap \in Nat
      /\ PauseReset \in Nat /\ PauseReset > 0 /\ NIL \notin Int /\ NIL \in {NIL}
  BY ClockAssumption DEF ClockInv, ClockTypes
<1>2. CASE clk.since = NIL
  <2>1. c = [since |-> wall, paused |-> NIL, seen |-> wall, saved |-> wall]
    BY <1>2 DEF ClockResumed, ClockSet
  <2> QED
    BY <1>1, <1>2, <2>1 DEF Clocks
<1>3. CASE clk.since # NIL
  <2> DEFINE gap == wall - clk.seen
             lost == wall - clk.paused
  <2>1. /\ clk \in Clocks /\ clk.saved <= clk.seen /\ unseen <= gap
        /\ clk.paused # NIL => unseen <= lost
        /\ clk.since \in Int /\ clk.seen \in Int /\ clk.saved \in Int /\ clk.paused \in Int \cup {NIL}
        /\ missed => clk.paused # NIL
    BY <1>1, <1>3, StoppedFacts DEF ClockInv, ClockRuns, Clocks
  <2>2. ~overtaken => IF clk.paused = NIL THEN wall - clk.since <= verified + unseen
                      ELSE clk.paused - clk.since <= verified
    BY <1>3 DEF ClockInv, CountsNoMore
  <2>3. CASE clk.paused = NIL
    <3>1. CASE gap < 0
      <4>1. c = [since |-> clk.since + gap, paused |-> NIL, seen |-> wall, saved |-> wall]
        BY <1>3, <2>1, <2>3, <3>1, <1>1 DEF ClockResumed, ClockSet
      <4> QED
        BY <1>1, <1>3, <2>1, <2>2, <2>3, <3>1, <4>1 DEF Clocks, Proven, Most
    <3>2. CASE gap > MaxGap /\ gap >= PauseReset
      <4>1. c = [since |-> wall, paused |-> NIL, seen |-> wall, saved |-> wall]
        BY <1>3, <2>1, <2>3, <3>2, <1>1 DEF ClockResumed, ClockSet, Most
      <4> QED
        BY <1>1, <1>3, <2>1, <4>1 DEF Clocks, Proven, Most
    <3>3. CASE gap > MaxGap /\ gap < PauseReset
      <4>1. c = [since |-> clk.since + gap, paused |-> NIL, seen |-> wall, saved |-> wall]
        BY <1>3, <2>1, <2>3, <3>3, <1>1 DEF ClockResumed, ClockSet, Most
      <4> QED
        BY <1>1, <1>3, <2>1, <2>2, <2>3, <3>3, <4>1 DEF Clocks, Proven, Most
    <3>4. CASE 0 <= gap /\ gap <= MaxGap
      <4>1. c = Checkpointed(clk)
        BY <1>3, <2>1, <2>3, <3>4, <1>1 DEF ClockResumed
      <4>2. /\ c = [since |-> clk.since, paused |-> NIL, seen |-> wall, saved |-> c.saved]
            /\ c.saved \in {wall, clk.saved}
        BY <2>1, <2>3, <4>1 DEF Checkpointed, Clocks
      <4> QED
        BY <1>1, <1>3, <2>1, <2>2, <2>3, <3>4, <4>2 DEF Clocks, Proven, Most
    <3> QED
      BY <1>1, <2>1, <3>1, <3>2, <3>3, <3>4
  <2>4. CASE clk.paused # NIL
    <3>1. CASE lost >= PauseReset
      <4>1. c = [since |-> wall, paused |-> NIL, seen |-> wall, saved |-> wall]
        BY <1>3, <2>1, <2>4, <3>1, <1>1 DEF ClockResumed, ClockSet, Most
      <4> QED
        BY <1>1, <1>3, <2>1, <4>1 DEF Clocks, Proven, Most
    <3>2. CASE lost < PauseReset
      <4>1. c = [since |-> clk.since + Most(0, lost), paused |-> NIL, seen |-> wall, saved |-> wall]
        BY <1>3, <2>1, <2>4, <3>2, <1>1 DEF ClockResumed, ClockSet, Most
      <4> QED
        BY <1>1, <1>3, <2>1, <2>2, <2>4, <3>2, <4>1 DEF Clocks, Proven, Most
    <3> QED
      BY <1>1, <2>1, <2>4, <3>1, <3>2
  <2> QED
    BY <2>3, <2>4
<1> QED
  BY <1>2, <1>3

\* After a heartbeat the database holds the clock as it was last saved.
LEMMA SavesClock ==
    ASSUME NEW c, c.since # NIL,
           durable = [since |-> clk.since, paused |-> clk.paused, seen |-> clk.saved],
           c.saved # c.seen => c.saved = clk.saved /\ c.since = clk.since /\ c.paused = clk.paused,
           Saves(c)
    PROVE  durable' = [since |-> c.since, paused |-> c.paused, seen |-> c.saved]
BY DEF Saves, OnDisk

LEMMA DeadlineShortens ==
    ASSUME ClockInv
    PROVE  DeadlineNow \in Int /\ (deadline # NIL => DeadlineNow <= deadline)
BY ClockAssumption DEF ClockInv, ClockTypes, DeadlineNow, Least

\* A dormant heartbeat: it counts on, or it is the one that ends the season.
LEMMA DormantStep ==
    ASSUME NEW waits \in BOOLEAN, NEW ready \in BOOLEAN, ClockInv, DormantTick(waits, ready)
    PROVE  ClockStepped
<1> DEFINE c == ClockResumed(clk)
           rolls == GraceOver(c) /\ ready /\ (waits => wall >= DeadlineNow)
<1>1. /\ upgrade.pc # "active" /\ missed' = FALSE /\ unseen' = 0 /\ UNCHANGED <<wall, upgrade>>
      /\ rolls => /\ clk' = Stopped /\ durable' = OnDisk(Stopped) /\ deadline' = NIL
                  /\ verified' = 0 /\ overtaken' = (upgrade.pc = "storing")
      /\ ~rolls => /\ clk' = c /\ Saves(c) /\ deadline' \in {DeadlineNow, deadline}
                   /\ verified' = IF clk.since = NIL THEN 0 ELSE Proven
                   /\ overtaken' = (overtaken \/ upgrade.pc = "storing") /\ seasons' = seasons
  BY Zenon DEF DormantTick
<1>2. /\ c \in Clocks /\ c.paused = NIL /\ c.seen = wall /\ c.saved <= wall
      /\ c.saved # wall => c.saved = clk.saved /\ c.since = clk.since /\ clk.paused = NIL
      /\ clk.since = NIL => c.since = wall
      /\ clk.since # NIL /\ ~overtaken => wall - c.since <= Proven
  BY ResumedCounts
<1> HIDE DEF c
<1>3. /\ wall \in Nat /\ verified \in Nat /\ unseen \in Int /\ Grace \in Nat /\ Grace > 0 /\ NIL \notin Int
      /\ c.since \in Int
  BY <1>2, ClockAssumption DEF ClockInv, ClockTypes, Clocks
<1>4. Proven \in Nat
  BY <1>3 DEF Proven, Most
<1>5. overtaken' \in BOOLEAN /\ missed' \in BOOLEAN
  <2> HIDE DEF rolls
  <2> QED
    BY <1>1
<1>6. upgrade.pc = "storing" \/ upgrade.remaining = NIL
  BY <1>1 DEF ClockInv, UpgradeHolds
<1>7. upgrade.pc = "storing" => overtaken'
  <2> HIDE DEF rolls
  <2> QED
    BY <1>1
<1>8. UpgradeHolds'
  BY <1>1, <1>6, <1>7 DEF ClockInv, UpgradeHolds
<1>9. DeadlineStep
  <2> HIDE DEF rolls
  <2> QED
    BY <1>1, DeadlineShortens DEF DeadlineStep, ClockInv, ClockTypes
<1>10. ClockTypes'
  <2>1. deadline' \in Int \cup {NIL} /\ verified' \in Nat
    <3> HIDE DEF rolls
    <3> QED
      BY <1>1, <1>4, DeadlineShortens DEF ClockInv, ClockTypes
  <2> QED
    BY <1>1, <1>5, <2>1 DEF ClockInv, ClockTypes
<1>11. CASE rolls
  <2>1. wall - c.since >= Grace
    BY <1>2, <1>3, <1>11 DEF GraceOver, Elapsed, Most, Least
  <2>2. RolloverStep
    BY <1>2, <1>3, <1>4, <2>1 DEF RolloverStep
  <2>3. ClockRuns' /\ CountsNoMore'
    BY <1>1, <1>11, StoppedFacts DEF ClockRuns, CountsNoMore
  <2> QED
    BY <1>1, <1>8, <1>9, <1>10, <1>11, <2>2, <2>3, StoppedFacts DEF ClockInv, ClockStepped
<1>12. CASE ~rolls
  <2>1. ClockRuns'
    BY <1>1, <1>2, <1>3, <1>12 DEF ClockRuns
  <2>2. ~overtaken' => ~overtaken
    BY <1>1, <1>12
  <2>3. CountsNoMore'
    <3>1. ~overtaken => wall - c.since <= verified'
      BY <1>1, <1>2, <1>3, <1>4, <1>12
    <3>2. verified' \in Nat
      BY <1>1, <1>4, <1>12
    <3> QED
      BY <1>1, <1>2, <1>3, <1>12, <2>2, <3>1, <3>2 DEF CountsNoMore
  <2>4. durable' = [since |-> clk'.since, paused |-> clk'.paused, seen |-> clk'.saved]
    <3>1. c.since # NIL /\ (c.saved # c.seen => c.saved = clk.saved /\ c.since = clk.since /\ c.paused = clk.paused)
      BY <1>2, <1>3
    <3>2. Saves(c) /\ clk' = c
      BY <1>1, <1>12
    <3>3. durable = [since |-> clk.since, paused |-> clk.paused, seen |-> clk.saved]
      BY DEF ClockInv
    <3> QED
      BY <3>1, <3>2, <3>3, SavesClock
  <2>5. RolloverStep
    BY <1>1, <1>12 DEF RolloverStep
  <2> QED
    BY <1>1, <1>8, <1>9, <1>10, <2>1, <2>3, <2>4, <2>5 DEF ClockInv, ClockStepped
<1> QED
  BY <1>11, <1>12

\* A heartbeat without data: the pause begins no later than the last dormant heartbeat.
LEMMA PausedStep == ClockInv /\ TickWithoutData => ClockStepped
<1> SUFFICES ASSUME ClockInv, TickWithoutData PROVE ClockStepped
  OBVIOUS
<1> DEFINE c == ClockPaused(clk)
<1>1. /\ upgrade.pc # "active" /\ clk' = c /\ Saves(c) /\ missed' = TRUE
      /\ overtaken' = (overtaken \/ upgrade.pc = "storing")
      /\ UNCHANGED <<wall, deadline, upgrade, seasons, verified, unseen>>
  BY DEF TickWithoutData
<1>2. /\ wall \in Nat /\ verified \in Nat /\ unseen \in Int /\ NIL \notin Int /\ PauseReset \in Nat
      /\ durable = [since |-> clk.since, paused |-> clk.paused, seen |-> clk.saved]
  BY ClockAssumption DEF ClockInv, ClockTypes
<1>3. overtaken' \in BOOLEAN /\ missed' \in BOOLEAN /\ (upgrade.pc = "storing" => overtaken')
  BY <1>1
<1>4. ClockTypes' /\ RolloverStep /\ DeadlineStep
  <2>1. ClockTypes'
    BY <1>1, <1>3 DEF ClockInv, ClockTypes
  <2> QED
    BY <1>1, <2>1 DEF RolloverStep, DeadlineStep, ClockTypes
<1>5. UpgradeHolds'
  <2>1. upgrade.pc = "storing" \/ upgrade.remaining = NIL
    BY <1>1 DEF ClockInv, UpgradeHolds
  <2> QED
    BY <1>1, <1>3, <2>1 DEF ClockInv, UpgradeHolds
<1>6. ~overtaken' => ~overtaken
  BY <1>1
<1>7. CASE c = Stopped
  <2>1. ClockRuns' /\ CountsNoMore'
    BY <1>1, <1>7, StoppedFacts DEF ClockRuns, CountsNoMore
  <2>2. durable' = OnDisk(Stopped)
    BY <1>1, <1>7, StoppedFacts DEF Saves
  <2> QED
    BY <1>1, <1>4, <1>5, <1>7, <2>1, <2>2, StoppedFacts DEF ClockInv, ClockStepped
<1>8. CASE c # Stopped
  <2>1. clk # Stopped /\ clk.since # NIL
    BY <1>8, StoppedFacts DEF ClockPaused, ClockInv, ClockRuns, Clocks
  <2>2. /\ clk \in Clocks /\ clk.saved <= clk.seen /\ unseen <= wall - clk.seen
        /\ clk.paused # NIL => clk.paused <= wall - unseen
        /\ clk.since \in Int /\ clk.seen \in Int /\ clk.saved \in Int /\ clk.paused \in Int \cup {NIL}
    BY <2>1 DEF ClockInv, ClockRuns, Clocks
  <2>3. ~overtaken => IF clk.paused = NIL THEN wall - clk.since <= verified + unseen
                      ELSE clk.paused - clk.since <= verified
    BY <2>1 DEF ClockInv, CountsNoMore
  <2>4. CASE clk.paused # NIL
    <3>1. c = clk
      BY <1>8, <2>1, <2>4 DEF ClockPaused
    <3>2. ClockRuns' /\ CountsNoMore'
      BY <1>1, <1>6, <2>1, <2>2, <2>3, <2>4, <3>1 DEF ClockRuns, CountsNoMore
    <3>3. durable' = [since |-> c.since, paused |-> c.paused, seen |-> c.saved]
      BY <1>1, <1>2, <2>1, <3>1, SavesClock
    <3> QED
      BY <1>1, <1>4, <1>5, <2>4, <3>1, <3>2, <3>3 DEF ClockInv, ClockStepped
  <2>5. CASE clk.paused = NIL
    <3> DEFINE p == PausedSince(clk)
    <3>1. p \in Int /\ p <= clk.seen /\ p <= wall
      BY <1>2, <2>2, <2>5 DEF PausedSince, Least
    <3>2. c = [since |-> clk.since, paused |-> p, seen |-> clk.seen, saved |-> clk.seen]
      BY <1>8, <2>1, <2>5 DEF ClockPaused, ClockSet
    <3> HIDE DEF p, c
    <3>3. c \in Clocks /\ p # NIL
      BY <1>2, <2>2, <3>1, <3>2 DEF Clocks
    <3>4. ClockRuns'
      BY <1>1, <1>2, <2>2, <3>1, <3>2, <3>3 DEF ClockRuns
    <3>5. CountsNoMore'
      BY <1>1, <1>2, <1>6, <2>2, <2>3, <2>5, <3>1, <3>2, <3>3 DEF CountsNoMore
    <3>6. durable' = [since |-> c.since, paused |-> c.paused, seen |-> c.saved]
      BY <1>1, <1>2, <2>1, <3>2, SavesClock
    <3> QED
      BY <1>1, <1>4, <1>5, <3>2, <3>3, <3>4, <3>5, <3>6 DEF ClockInv, ClockStepped
  <2> QED
    BY <2>4, <2>5
<1> QED
  BY <1>7, <1>8

LEMMA ClockStep == ClockInv /\ [ClockNext]_clockVars => ClockStepped
<1> SUFFICES ASSUME ClockInv, [ClockNext]_clockVars PROVE ClockStepped
  OBVIOUS
<1>1. CASE UNCHANGED clockVars
  BY <1>1 DEF ClockInv, ClockStepped, ClockTypes, ClockRuns, CountsNoMore, UpgradeHolds, RolloverStep,
              DeadlineStep, clockVars
<1>2. ASSUME NEW waits \in BOOLEAN, NEW ready \in BOOLEAN, DormantTick(waits, ready) PROVE ClockStepped
  BY <1>2, DormantStep
<1>3. ASSUME NEW previousRunning \in BOOLEAN, UpgradeEnds(previousRunning) PROVE ClockStepped
  BY <1>3, UpgradeEndsStep
<1>4. CASE SwitchedOff \/ ClockDiscarded(TRUE)
  BY <1>4, DiscardedStep DEF SwitchedOff
<1>5. CASE ClockNext
  BY <1>2, <1>3, <1>4, <1>5, PassesStep, PausedStep, UpgradeReadsStep, UpgradeStoredStep,
     ClockRestartsStep DEF ClockNext
<1> QED
  BY <1>1, <1>5

LEMMA ClockBegins == ClockInit => ClockInv
<1> SUFFICES ASSUME ClockInit PROVE ClockInv
  OBVIOUS
<1>1. /\ wall = 0 /\ clk = Stopped /\ durable = OnDisk(Stopped) /\ deadline = NIL
      /\ upgrade = [pc |-> "none", remaining |-> NIL]
      /\ verified = 0 /\ unseen = 0 /\ missed = FALSE /\ overtaken = FALSE
  BY DEF ClockInit, NoUpgrade
<1>5. missed \in BOOLEAN /\ overtaken \in BOOLEAN
  BY <1>1
<1>2. ClockTypes
  BY <1>1, <1>5, ClockAssumption DEF ClockTypes
<1>3. ClockRuns /\ CountsNoMore
  BY <1>1, StoppedFacts DEF ClockRuns, CountsNoMore
<1>4. UpgradeHolds
  BY <1>1 DEF UpgradeHolds
<1> QED
  BY <1>1, <1>2, <1>3, <1>4, StoppedFacts DEF ClockInv

LEMMA ClockImplied == ClockInv => ClockTypeOK /\ CreditIsVerified /\ StoredNeverAhead
<1> SUFFICES ASSUME ClockInv PROVE ClockTypeOK /\ CreditIsVerified /\ StoredNeverAhead
  OBVIOUS
<1>1. ClockTypeOK
  BY DEF ClockInv, ClockTypes, UpgradeHolds, ClockTypeOK
<1>2. /\ wall \in Int /\ unseen \in Int /\ verified \in Nat /\ Grace \in Nat
      /\ durable = [since |-> clk.since, paused |-> clk.paused, seen |-> clk.saved]
  BY ClockAssumption DEF ClockInv, ClockTypes
<1>3. clk.since # NIL => clk \in Clocks /\ clk.saved <= clk.seen /\ unseen <= wall - clk.seen
  BY StoppedFacts DEF ClockInv, ClockRuns
<1>4. CreditIsVerified
  <2> SUFFICES ASSUME ~overtaken, clk.since # NIL
               PROVE  Least(Grace, (IF clk.paused # NIL THEN clk.paused ELSE clk.seen) - clk.since) <= verified
    BY DEF CreditIsVerified
  <2>1. (IF clk.paused # NIL THEN clk.paused ELSE clk.seen) - clk.since <= verified
    BY <1>2, <1>3 DEF ClockInv, CountsNoMore, Clocks
  <2>2. (IF clk.paused # NIL THEN clk.paused ELSE clk.seen) - clk.since \in Int
    BY <1>3 DEF Clocks
  <2> QED
    BY <1>2, <2>1, <2>2 DEF Least
<1>5. StoredNeverAhead
  BY <1>2, <1>3 DEF StoredNeverAhead, Clocks
<1> QED
  BY <1>1, <1>4, <1>5

\* The countdown to an automatic season credits observed dormant time only, in memory and after a
\* restart, ends a season only when it is complete and never moves its deadline away, for every
\* grace period, gap and pause limit, checkpoint interval and step of the host clock
\* (orchestrator.py 5835-5938, 6219-6335, 6876-6892).
THEOREM CountdownAlwaysHonest == ClockSpec => CountdownIsHonest
<1>1. ClockInit => ClockInv
  BY ClockBegins
<1>2. ClockInv /\ [ClockNext]_clockVars => ClockInv' /\ RolloverStep /\ DeadlineStep
  BY ClockStep DEF ClockStepped
<1>3. ClockInv => ClockTypeOK /\ CreditIsVerified /\ StoredNeverAhead
  BY ClockImplied
<1>4. ClockSpec => [][RolloverStep]_clockVars
  BY <1>1, <1>2, PTL DEF ClockSpec
<1>5. ClockSpec => [][DeadlineStep]_clockVars
  BY <1>1, <1>2, PTL DEF ClockSpec
<1>6. ClockSpec => []ClockTypeOK /\ []CreditIsVerified /\ []StoredNeverAhead
  BY <1>1, <1>2, <1>3, PTL DEF ClockSpec
<1>7. ClockSpec => RolloverEarned /\ DeadlineNeverExtended
  BY <1>4, <1>5 DEF RolloverEarned, DeadlineNeverExtended, RolloverStep, DeadlineStep
<1> QED
  BY <1>6, <1>7 DEF CountdownIsHonest

-----------------------------------------------------------------------------
(* Storage maintenance *)

\* Between passes; the loop takes a pass only from "wait".
Between == {"wait", "optional starting", "optional only"}
Stores ==
    [pc : Between \cup {"starting", "before", "history", "retired", "budget", "optional", "after"},
     outdated : BOOLEAN, urgent : BOOLEAN, known : BOOLEAN, more : BOOLEAN, left : BOOLEAN,
     offset : 0..2]

StorageTypes ==
    /\ StorageTypeOK /\ store \in Stores /\ skipped \in Nat
    /\ arrived \in BOOLEAN /\ excused \in BOOLEAN /\ pressure \in BOOLEAN /\ yieldSignal \in BOOLEAN

\* A pass that will not ask for another one has found nothing of what it has been through, and
\* between passes only what arrived since, or what an upgrade dropped, is left unrequested.
PassRemembers ==
    ~arrived =>
        /\ store.pc \in {"retired", "budget", "optional", "after"} /\ ~store.more => Aged = 0
        /\ store.pc \in {"budget", "optional", "after"} /\ ~store.more => retired = 0
        /\ store.pc \in {"optional", "after"} /\ ~store.left => LiveRows <= Target \/ Budgeted = 0
        /\ store.pc \in Between /\ ~excused /\ (Aged > 0 \/ retired > 0) => requested

\* Optional work began beside an idle reserve worker, which waits for it.
OptionalAlone == store.pc = "optional only" => reserve = "idle"

\* equity_points is last, second and first in turn as the admission rotates.
TurnsRotate == skipped <= store.offset

StorageInv == StorageTypes /\ PassRemembers /\ UpgradeIsQuiet /\ OptionalAlone /\ TurnsRotate

ExhaustedStep ==
    budgetState # budgetState' /\ budgetState' = "retained_evidence_above_target" /\ ~arrived
        => Budgeted = 0

StorageStepped == StorageInv' /\ ExhaustedStep

LEMMA CategoryFacts == Category = {"raw_trades", "non_entry_decisions", "equity_points"}
<1>1. Category = {Categories[1], Categories[2], Categories[3]}
  <2>1. 1..3 = {1, 2, 3}
    OBVIOUS
  <2> QED
    BY <2>1 DEF Category
<1> QED
  BY <1>1 DEF Categories

LEMMA TurnFacts ==
    ASSUME store.offset \in 0..2
    PROVE  /\ {Turn(i) : i \in 1..3} = Category
           /\ store.offset = 2 => Turn(1) = "equity_points"
<1>1. 1..3 = {1, 2, 3}
  OBVIOUS
<1>2. 0 % 3 = 0 /\ 1 % 3 = 1 /\ 2 % 3 = 2 /\ 3 % 3 = 0 /\ 4 % 3 = 1
  OBVIOUS
<1>3. CASE store.offset = 0
  <2>1. Turn(1) = Categories[1] /\ Turn(2) = Categories[2] /\ Turn(3) = Categories[3]
    BY <1>2, <1>3 DEF Turn
  <2> QED
    BY <1>1, <1>3, <2>1 DEF Category
<1>4. CASE store.offset = 1
  <2>1. Turn(1) = Categories[2] /\ Turn(2) = Categories[3] /\ Turn(3) = Categories[1]
    BY <1>2, <1>4 DEF Turn
  <2> QED
    BY <1>1, <1>4, <2>1 DEF Category
<1>5. CASE store.offset = 2
  <2>1. Turn(1) = Categories[3] /\ Turn(2) = Categories[1] /\ Turn(3) = Categories[2]
    BY <1>2, <1>5 DEF Turn
  <2> QED
    BY <1>1, <1>5, <2>1 DEF Category, Categories
<1> QED
  BY <1>3, <1>4, <1>5

LEMMA RowTypes ==
    ASSUME aged \in [Category -> Nat], recent \in Nat, retired \in Nat
    PROVE  /\ aged["raw_trades"] \in Nat /\ aged["non_entry_decisions"] \in Nat
           /\ aged["equity_points"] \in Nat
           /\ Aged \in Nat /\ LiveRows \in Nat /\ Budgeted \in Nat
           /\ Aged = 0 => \A c \in Category : aged[c] = 0
<1>1. /\ aged["raw_trades"] \in Nat /\ aged["non_entry_decisions"] \in Nat
      /\ aged["equity_points"] \in Nat
  BY CategoryFacts
<1>2. Aged \in Nat
  BY <1>1 DEF Aged
<1>3. LiveRows \in Nat /\ Budgeted \in Nat
  BY <1>1, <1>2, StorageAssumption DEF LiveRows, Budgeted
<1>4. ASSUME Aged = 0
      PROVE  aged["raw_trades"] = 0 /\ aged["non_entry_decisions"] = 0 /\ aged["equity_points"] = 0
  <2> DEFINE a == aged["raw_trades"]
             b == aged["non_entry_decisions"]
             c == aged["equity_points"]
  <2>1. a \in Nat /\ b \in Nat /\ c \in Nat /\ a + b + c = 0
    BY <1>1, <1>4 DEF Aged
  <2> HIDE DEF a, b, c
  <2>2. a = 0 /\ b = 0 /\ c = 0
    BY <2>1
  <2> QED
    BY <2>2 DEF a, b, c
<1> QED
  BY <1>1, <1>2, <1>3, <1>4, CategoryFacts

\* Steps that touch neither rows nor the worker.
LEMMA AsideStep ==
    ASSUME StorageInv, UNCHANGED <<rowVars, store, requested, storageActive, budgetState, ghostVars>>,
           pressure' \in BOOLEAN, yieldSignal' \in BOOLEAN,
           declared' \in {"no", "requested", "ready"}, declared' = "ready" => ~storageActive,
           reserve' \in {"idle", "select", "fetch", "answered"},
           reserve' # "idle" => reserve # "idle" \/ ~storageActive
    PROVE  StorageStepped
<1>1. StorageTypes'
  BY DEF StorageInv, StorageTypes, StorageTypeOK, rowVars, ghostVars
<1>2. PassRemembers' /\ TurnsRotate' /\ UpgradeIsQuiet'
  BY DEF StorageInv, PassRemembers, TurnsRotate, UpgradeIsQuiet, Aged, LiveRows, Budgeted, rowVars, ghostVars
<1>3. OptionalAlone'
  BY DEF StorageInv, StorageTypes, StorageTypeOK, OptionalAlone
<1> QED
  BY <1>1, <1>2, <1>3 DEF StorageInv, StorageStepped, ExhaustedStep

LEMMA ReserveSteps ==
    StorageInv /\ (ReserveTurn \/ ReserveSelects \/ ReserveAnswers \/ ReserveConcludes) => StorageStepped
<1> SUFFICES ASSUME StorageInv, ReserveTurn \/ ReserveSelects \/ ReserveAnswers \/ ReserveConcludes
             PROVE  StorageStepped
  OBVIOUS
<1>1. OnlyReserve
  BY DEF ReserveTurn, ReserveSelects, ReserveAnswers, ReserveConcludes
<1>2. /\ reserve' \in {"idle", "select", "fetch", "answered"}
      /\ reserve' # "idle" => reserve # "idle" \/ ~storageActive
  BY DEF ReserveTurn, ReserveSelects, ReserveAnswers, ReserveConcludes, ReserveBlocked
<1>3. pressure \in BOOLEAN /\ yieldSignal \in BOOLEAN /\ declared \in {"no", "requested", "ready"}
      /\ (declared = "ready" => ~storageActive)
  BY DEF StorageInv, StorageTypes, StorageTypeOK, UpgradeIsQuiet
<1>4. /\ UNCHANGED <<rowVars, store, requested, storageActive, budgetState, ghostVars>>
      /\ UNCHANGED <<pressure, yieldSignal, declared>>
  BY <1>1 DEF OnlyReserve, marketVars
<1> QED
  BY <1>2, <1>3, <1>4, AsideStep

LEMMA SurroundingSteps == StorageInv /\ (MarketMoves \/ UpgradeReady \/ UpgradeGivenUp) => StorageStepped
<1> SUFFICES ASSUME StorageInv, MarketMoves \/ UpgradeReady \/ UpgradeGivenUp PROVE StorageStepped
  OBVIOUS
<1>1. /\ UNCHANGED <<rowVars, store, requested, storageActive, budgetState, ghostVars>>
      /\ reserve' = reserve
  BY DEF MarketMoves, UpgradeReady, UpgradeGivenUp
<1>2. /\ pressure \in BOOLEAN /\ yieldSignal \in BOOLEAN
      /\ reserve \in {"idle", "select", "fetch", "answered"} /\ declared \in {"no", "requested", "ready"}
      /\ (declared = "ready" => ~storageActive)
  BY DEF StorageInv, StorageTypes, StorageTypeOK, UpgradeIsQuiet
<1>3. CASE MarketMoves
  <2>1. pressure' \in BOOLEAN /\ yieldSignal' \in BOOLEAN /\ declared' = declared
    BY <1>2, <1>3 DEF MarketMoves
  <2> QED
    BY <1>1, <1>2, <2>1, AsideStep
<1>4. CASE UpgradeReady \/ UpgradeGivenUp
  <2>1. /\ pressure' = pressure /\ yieldSignal' = yieldSignal
        /\ declared' \in {"no", "ready"} /\ (declared' = "ready" => ~storageActive)
    BY <1>4 DEF UpgradeReady, UpgradeGivenUp, marketVars
  <2> QED
    BY <1>1, <1>2, <2>1, AsideStep
<1> QED
  BY <1>3, <1>4

\* Steps of the worker keep what the others rest on; what remains is what it remembers.
LEMMA WorkerStep ==
    ASSUME StorageInv, UNCHANGED <<pressure, declared, reserve, skipped>>, yieldSignal' \in BOOLEAN,
           aged' \in [Category -> Nat], recent' \in Nat, retired' \in Nat,
           store' \in Stores, store'.offset = store.offset,
           requested' \in BOOLEAN, storageActive' \in BOOLEAN, excused' \in BOOLEAN, arrived' \in BOOLEAN,
           budgetState' \in {"within_budget", "cleanup_needed", "capacity_unknown",
                             "retained_evidence_above_target"},
           storageActive' <=> store'.pc \notin {"wait", "starting", "optional starting"},
           storageActive' => storageActive \/ declared # "ready",
           store'.pc = "optional only" => reserve = "idle",
           PassRemembers'
    PROVE  StorageInv'
<1>1. StorageTypes'
  BY DEF StorageInv, StorageTypes, StorageTypeOK
<1>2. UpgradeIsQuiet' /\ OptionalAlone' /\ TurnsRotate'
  BY DEF StorageInv, UpgradeIsQuiet, OptionalAlone, TurnsRotate
<1> QED
  BY <1>1, <1>2 DEF StorageInv

LEMMA StoreAtFacts ==
    ASSUME StorageInv, NEW pc \in Between \cup {"starting", "before"}
    PROVE  StoreAt(pc) \in Stores /\ StoreAt(pc).pc = pc /\ StoreAt(pc).offset = store.offset
<1>1. store.offset \in 0..2
  BY DEF StorageInv, StorageTypes, Stores
<1> QED
  BY <1>1 DEF StoreAt, Stores

\* Whatever ends a pass and asks for another forgets nothing.
LEMMA EndsStep ==
    ASSUME StorageInv, Ends, requested' = TRUE, UNCHANGED <<pressure, declared, reserve, ghostVars>>,
           yieldSignal' \in BOOLEAN, aged' \in [Category -> Nat], recent' \in Nat, retired' \in Nat,
           budgetState' \in {"within_budget", "cleanup_needed", "capacity_unknown",
                             "retained_evidence_above_target"}
    PROVE  StorageInv'
<1>1. store' = StoreAt("wait") /\ storageActive' = FALSE /\ store' \in Stores
      /\ store'.pc = "wait" /\ store'.offset = store.offset
  BY StoreAtFacts DEF Ends, Between
<1>2. PassRemembers'
  BY <1>1 DEF PassRemembers
<1>3. skipped' = skipped /\ excused' \in BOOLEAN /\ arrived' \in BOOLEAN
  BY DEF ghostVars, StorageInv, StorageTypes
<1>4. requested' \in BOOLEAN /\ storageActive' \in BOOLEAN
  BY <1>1
<1> QED
  BY <1>1, <1>2, <1>3, <1>4, WorkerStep

LEMMA Typed ==
    ASSUME StorageInv
    PROVE  /\ aged \in [Category -> Nat] /\ recent \in Nat /\ retired \in Nat /\ store \in Stores
           /\ requested \in BOOLEAN /\ storageActive \in BOOLEAN /\ skipped \in Nat
           /\ arrived \in BOOLEAN /\ excused \in BOOLEAN /\ pressure \in BOOLEAN /\ yieldSignal \in BOOLEAN
           /\ budgetState \in {"within_budget", "cleanup_needed", "capacity_unknown",
                               "retained_evidence_above_target"}
           /\ (storageActive <=> store.pc \notin {"wait", "starting", "optional starting"})
BY DEF StorageInv, StorageTypes, StorageTypeOK

LEMMA LoopSteps == StorageInv /\ (LoopTakesPass \/ LoopTakesOptional) => StorageStepped
<1> SUFFICES ASSUME StorageInv, LoopTakesPass \/ LoopTakesOptional PROVE StorageStepped
  OBVIOUS
<1>1. /\ UNCHANGED <<rowVars, storageActive, budgetState, marketVars, declared, reserve, ghostVars>>
      /\ store.pc = "wait" /\ requested' \in {requested, FALSE}
      /\ store' \in {StoreAt("starting"), StoreAt("optional starting")}
      /\ store' = StoreAt("optional starting") => ~requested /\ requested' = requested
  <2>1. StoreAt("starting").pc = "starting" /\ StoreAt("optional starting").pc = "optional starting"
    BY DEF StoreAt
  <2> QED
    BY <2>1 DEF LoopTakesPass, LoopTakesOptional
<1>2. /\ store' \in Stores /\ store'.offset = store.offset
      /\ store'.pc \in {"starting", "optional starting"}
      /\ store'.pc = "optional starting" => requested' = requested
  BY <1>1, StoreAtFacts DEF Between
<1>3. PassRemembers'
  <2>1. UNCHANGED <<Aged, retired, arrived, excused>>
    BY <1>1 DEF rowVars, ghostVars, Aged
  <2>2. ~arrived /\ ~excused /\ (Aged > 0 \/ retired > 0) => requested
    BY <1>1 DEF StorageInv, PassRemembers, Between
  <2>3. store'.pc \notin {"retired", "budget", "optional", "after"}
    BY <1>2
  <2>4. store'.pc \in Between => requested' = requested
    BY <1>2 DEF Between
  <2> QED
    BY <2>1, <2>2, <2>3, <2>4 DEF PassRemembers
<1>4. StorageInv'
  <2>1. requested' \in BOOLEAN
    BY <1>1, Typed
  <2> QED
    BY <1>1, <1>2, <1>3, <2>1, Typed, WorkerStep DEF rowVars, marketVars, ghostVars
<1> QED
  BY <1>1, <1>4 DEF StorageStepped, ExhaustedStep

LEMMA PassStartsStep == StorageInv /\ PassStarts => StorageStepped
<1> SUFFICES ASSUME StorageInv, PassStarts PROVE StorageStepped
  OBVIOUS
<1>1. /\ UNCHANGED <<rowVars, budgetState, marketVars, declared, reserve, skipped>>
      /\ store.pc = "starting"
  BY DEF PassStarts
<1>2. CASE store' = StoreAt("wait")
  <2>1. /\ store' \in Stores /\ store'.offset = store.offset /\ store'.pc = "wait"
    BY <1>2, StoreAtFacts DEF Between
  <2>2. StoreAt("before").pc = "before"
    BY DEF StoreAt
  <2>3. /\ storageActive' = storageActive /\ arrived' = arrived
        /\ \/ excused' = TRUE /\ requested' = requested
           \/ requested' = TRUE /\ excused' = excused
    BY <2>1, <2>2 DEF PassStarts
  <2>4. PassRemembers'
    BY <1>1, <2>1, <2>3 DEF PassRemembers
  <2>5. requested' \in BOOLEAN /\ excused' \in BOOLEAN
    BY <2>3, Typed
  <2> QED
    BY <1>1, <2>1, <2>3, <2>4, <2>5, Typed, WorkerStep DEF rowVars, marketVars, StorageStepped, ExhaustedStep
<1>3. CASE store' # StoreAt("wait")
  <2>1. /\ store' = StoreAt("before") /\ storageActive' = TRUE /\ arrived' = FALSE /\ excused' = FALSE
        /\ requested' = requested /\ ~Maintenance
    BY <1>3 DEF PassStarts, PassRefused
  <2>2. store' \in Stores /\ store'.offset = store.offset /\ store'.pc = "before"
    BY <2>1, StoreAtFacts
  <2>3. PassRemembers'
    BY <2>2 DEF PassRemembers, Between
  <2>4. declared # "ready" /\ excused' \in BOOLEAN /\ arrived' \in BOOLEAN
    BY <2>1 DEF Maintenance
  <2> QED
    BY <1>1, <2>1, <2>2, <2>3, <2>4, Typed, WorkerStep DEF rowVars, marketVars, StorageStepped, ExhaustedStep
<1> QED
  BY <1>2, <1>3

\* Within a pass: the worker moves on to its next stage.
LEMMA StageStep ==
    ASSUME StorageInv,
           store.pc \in {"before", "history", "retired", "budget", "optional"},
           store'.pc \in {"history", "retired", "budget", "optional", "after"},
           store' \in Stores, store'.offset = store.offset,
           UNCHANGED <<pressure, declared, reserve, ghostVars, storageActive>>,
           requested' \in BOOLEAN, yieldSignal' \in BOOLEAN,
           aged' \in [Category -> Nat], recent' \in Nat, retired' \in Nat,
           budgetState' \in {"within_budget", "cleanup_needed", "capacity_unknown",
                             "retained_evidence_above_target"},
           PassRemembers'
    PROVE  StorageInv'
<1>1. storageActive = TRUE /\ storageActive' = TRUE
  BY Typed
<1>2. storageActive' <=> store'.pc \notin {"wait", "starting", "optional starting"}
  BY <1>1
<1>3. skipped' = skipped /\ excused' \in BOOLEAN /\ arrived' \in BOOLEAN
  BY Typed DEF ghostVars
<1> QED
  BY <1>1, <1>2, <1>3, WorkerStep

LEMMA CapacityBeforeStep == StorageInv /\ CapacityBefore => StorageStepped
<1> SUFFICES ASSUME StorageInv, CapacityBefore PROVE StorageStepped
  OBVIOUS
<1>1. /\ UNCHANGED <<rowVars, marketVars, declared, reserve, ghostVars>> /\ store.pc = "before"
  BY DEF CapacityBefore
<1>2. PICK refused \in BOOLEAN, young \in BOOLEAN :
        /\ budgetState' = IF refused THEN "capacity_unknown"
                          ELSE IF StopRequested THEN budgetState ELSE Measured
        /\ \/ Ends /\ requested' = TRUE
           \/ /\ store' = [store EXCEPT !.pc = "history", !.urgent = ~refused /\ LiveRows > Target,
                                        !.known = ~refused]
              /\ requested' = (requested \/ refused)
              /\ UNCHANGED storageActive
  BY Zenon DEF CapacityBefore
<1>3. /\ budgetState' \in {"within_budget", "cleanup_needed", "capacity_unknown",
                            "retained_evidence_above_target"}
      /\ budgetState' = "retained_evidence_above_target" => budgetState' = budgetState
  BY <1>2, Typed DEF Measured
<1>4. /\ aged' \in [Category -> Nat] /\ recent' \in Nat /\ retired' \in Nat /\ yieldSignal' \in BOOLEAN
      /\ UNCHANGED <<pressure, declared, reserve>>
  BY <1>1, Typed DEF rowVars, marketVars
<1>5. CASE Ends /\ requested' = TRUE
  BY <1>1, <1>3, <1>4, <1>5, EndsStep DEF StorageStepped, ExhaustedStep
<1>6. CASE ~(Ends /\ requested' = TRUE)
  <2>1. /\ store' = [store EXCEPT !.pc = "history", !.urgent = ~refused /\ LiveRows > Target,
                                   !.known = ~refused]
        /\ requested' = (requested \/ refused) /\ UNCHANGED storageActive
    BY <1>2, <1>6
  <2>2. (~refused /\ LiveRows > Target) \in BOOLEAN /\ (~refused) \in BOOLEAN
    OBVIOUS
  <2>3. store' \in Stores /\ store'.pc = "history" /\ store'.offset = store.offset
    BY <2>1, <2>2, Typed DEF Stores
  <2>4. PassRemembers'
    BY <2>3 DEF PassRemembers, Between
  <2>5. requested' \in BOOLEAN
    BY <2>1
  <2> QED
    BY <1>1, <1>3, <1>4, <2>1, <2>3, <2>4, <2>5, StageStep DEF StorageStepped, ExhaustedStep
<1> QED
  BY <1>5, <1>6

LEMMA PruneOptionalStep == StorageInv /\ PruneOptional => StorageStepped
<1> SUFFICES ASSUME StorageInv, PruneOptional PROVE StorageStepped
  OBVIOUS
<1>1. /\ UNCHANGED <<rowVars, budgetState, marketVars, declared, reserve, ghostVars>>
      /\ store.pc = "optional"
  BY DEF PruneOptional
<1>2. /\ aged' \in [Category -> Nat] /\ recent' \in Nat /\ retired' \in Nat /\ yieldSignal' \in BOOLEAN
      /\ UNCHANGED <<pressure, declared, reserve, budgetState>>
  BY <1>1, Typed DEF rowVars, marketVars
<1>3. CASE Ends /\ requested' = TRUE
  BY <1>1, <1>2, <1>3, Typed, EndsStep DEF StorageStepped, ExhaustedStep
<1>4. CASE store' = [store EXCEPT !.pc = "after"] /\ UNCHANGED <<requested, storageActive>>
  <2>1. /\ store' \in Stores /\ store'.pc = "after" /\ store'.offset = store.offset
        /\ store'.more = store.more /\ store'.left = store.left
    BY <1>4, Typed DEF Stores
  <2>2. UNCHANGED <<Aged, LiveRows, Budgeted, arrived, retired>>
    BY <1>1 DEF rowVars, ghostVars, Aged, LiveRows, Budgeted
  <2>3. PassRemembers'
    BY <1>1, <2>1, <2>2 DEF StorageInv, PassRemembers, Between
  <2>4. requested' \in BOOLEAN
    BY <1>4, Typed
  <2> QED
    BY <1>1, <1>2, <1>4, <2>1, <2>3, <2>4, Typed, StageStep DEF StorageStepped, ExhaustedStep
<1> QED
  BY <1>3, <1>4 DEF PruneOptional

LEMMA PassFailsStep == StorageInv /\ PassFails => StorageStepped
<1> SUFFICES ASSUME StorageInv, PassFails PROVE StorageStepped
  OBVIOUS
<1>1. /\ UNCHANGED <<rowVars, budgetState, marketVars, declared, reserve, ghostVars>>
      /\ Ends /\ requested' = TRUE
  BY DEF PassFails
<1>2. /\ aged' \in [Category -> Nat] /\ recent' \in Nat /\ retired' \in Nat /\ yieldSignal' \in BOOLEAN
      /\ UNCHANGED <<pressure, declared, reserve, budgetState>>
  BY <1>1, Typed DEF rowVars, marketVars
<1> QED
  BY <1>1, <1>2, Typed, EndsStep DEF StorageStepped, ExhaustedStep

LEMMA OptionalSteps == StorageInv /\ (OptionalStarts \/ OptionalEnds) => StorageStepped
<1> SUFFICES ASSUME StorageInv, OptionalStarts \/ OptionalEnds PROVE StorageStepped
  OBVIOUS
<1>1. /\ UNCHANGED <<rowVars, requested, budgetState, marketVars, declared, reserve, ghostVars>>
      /\ store.pc \in Between
  BY DEF OptionalStarts, OptionalEnds, Between
  \* "optional starting" and "optional only" are both between passes
<1>2. /\ store' \in {StoreAt("wait"), StoreAt("optional only")}
      /\ store' = StoreAt("wait") => storageActive' = FALSE
      /\ store' = StoreAt("optional only") => storageActive' = TRUE /\ reserve = "idle" /\ ~Maintenance
  <2>1. StoreAt("wait").pc = "wait" /\ StoreAt("optional only").pc = "optional only"
    BY DEF StoreAt
  <2>2. OptionalStarts => storageActive = FALSE
    BY Typed DEF OptionalStarts
  <2> QED
    BY <2>1, <2>2 DEF OptionalStarts, OptionalEnds, Ends, OptionalRefused, InFlight
<1>3. /\ store' \in Stores /\ store'.offset = store.offset /\ store'.pc \in {"wait", "optional only"}
      /\ store'.pc = "wait" => storageActive' = FALSE
      /\ store'.pc = "optional only" => storageActive' = TRUE /\ reserve = "idle" /\ declared # "ready"
  <2>1. StoreAt("wait").pc = "wait" /\ StoreAt("optional only").pc = "optional only"
    BY DEF StoreAt
  <2> QED
    BY <1>2, <2>1, StoreAtFacts DEF Between, Maintenance
<1>4. PassRemembers'
  <2>1. UNCHANGED <<Aged, retired, arrived, excused, requested>>
    BY <1>1 DEF rowVars, ghostVars, Aged
  <2>2. ~arrived /\ ~excused /\ (Aged > 0 \/ retired > 0) => requested
    BY <1>1 DEF StorageInv, PassRemembers
  <2> QED
    BY <1>3, <2>1, <2>2 DEF PassRemembers
<1>5. /\ UNCHANGED <<pressure, declared, reserve, skipped, aged, recent, retired, yieldSignal, requested,
                     arrived, excused, budgetState>>
      /\ storageActive' \in BOOLEAN
      /\ storageActive' <=> store'.pc \notin {"wait", "starting", "optional starting"}
      /\ storageActive' => storageActive \/ declared # "ready"
  BY <1>1, <1>3 DEF rowVars, ghostVars, marketVars
<1> QED
  BY <1>3, <1>4, <1>5, Typed, WorkerStep DEF StorageStepped, ExhaustedStep

\* The rows one history pass removes.
Removed(n) == {c \in {Turn(i) : i \in 1..n} : aged[c] > 0}

LEMMA PruneHistoryStep == StorageInv /\ PruneHistory => StorageStepped
<1> SUFFICES ASSUME StorageInv, PruneHistory PROVE StorageStepped
  OBVIOUS
<1>1. /\ UNCHANGED <<recent, retired, requested, storageActive, budgetState, marketVars,
                     declared, reserve, boundVars, arrived, excused>>
      /\ store.pc = "history"
  BY DEF PruneHistory
<1>2. PICK n \in (IF StopRequested THEN {0} ELSE 0..3) :
        /\ aged' = [c \in Category |-> aged[c] - IF c \in Removed(n) THEN 1 ELSE 0]
        /\ store' = [store EXCEPT !.pc = "retired", !.more = n < 3 \/ Removed(n) # {},
                                  !.offset = (store.offset + 1) % 3]
        /\ skipped' = IF StopRequested
                         \/ "equity_points" \in {Turn(i) : i \in {j \in 1..3 : j <= n + 1}}
                      THEN 0 ELSE skipped + 1
  BY Zenon DEF PruneHistory, Removed
<1>3. n \in 0..3
  BY <1>2
<1>4. /\ aged' \in [Category -> Nat]
      /\ \A c \in Category : aged'[c] <= aged[c]
  <2>1. ASSUME NEW c \in Category
        PROVE  aged[c] - (IF c \in Removed(n) THEN 1 ELSE 0) \in 0..aged[c]
    <3>1. aged[c] \in Nat
      BY Typed
    <3>2. c \in Removed(n) => aged[c] > 0
      BY DEF Removed
    <3> QED
      BY <3>1, <3>2
  <2>2. ASSUME NEW c \in Category
        PROVE  aged'[c] \in 0..aged[c]
    BY <1>2, <2>1
  <2>3. \A c \in Category : aged[c] \in Nat
    BY Typed
  <2> QED
    BY <1>2, <2>1, <2>2, <2>3
<1>5. /\ store.offset \in 0..2 /\ (store.offset + 1) % 3 \in 0..2
      /\ store.offset < 2 => (store.offset + 1) % 3 = store.offset + 1
  <2>1. store.offset \in 0..2
    BY Typed DEF Stores
  <2> QED
    BY <2>1
<1>6. /\ store'.pc = "retired" /\ store'.more = (n < 3 \/ Removed(n) # {})
      /\ store'.offset = (store.offset + 1) % 3
      /\ store' \in Stores
  <2>1. (n < 3 \/ Removed(n) # {}) \in BOOLEAN
    OBVIOUS
  <2> QED
    BY <1>2, <1>5, <2>1, Typed DEF Stores
<1>7. ~store'.more => Aged' = 0
  <2> SUFFICES ASSUME ~store'.more PROVE Aged' = 0
    OBVIOUS
  <2>1. n = 3 /\ Removed(n) = {}
    <3>1. ~(n < 3) /\ Removed(n) = {}
      BY <1>6, Zenon
    <3> QED
      BY <1>3, <3>1
  <2>2. {Turn(i) : i \in 1..n} = Category
    BY <1>5, <2>1, TurnFacts
  <2>3. ASSUME NEW c \in Category PROVE aged'[c] = 0
    <3>1. ~(aged[c] > 0)
      BY <2>1, <2>2 DEF Removed
    <3>2. aged[c] \in Nat /\ aged'[c] \in Nat /\ aged'[c] <= aged[c]
      BY <1>4, Typed
    <3> QED
      BY <3>1, <3>2
  <2> QED
    BY <2>3, CategoryFacts DEF Aged
<1>8. PassRemembers'
  BY <1>6, <1>7 DEF PassRemembers, Between
<1>9. skipped' \in Nat /\ skipped' <= store'.offset
  <2>1. skipped \in Nat /\ skipped <= store.offset
    BY Typed DEF StorageInv, TurnsRotate
  <2>2. CASE skipped' = 0
    BY <1>5, <1>6, <2>2
  <2>3. CASE skipped' # 0
    <3>1. /\ skipped' = skipped + 1
          /\ "equity_points" \notin {Turn(i) : i \in {j \in 1..3 : j <= n + 1}}
      BY <1>2, <2>3
    <3>2. 1 \in {j \in 1..3 : j <= n + 1}
      BY <1>3
    <3>3. Turn(1) # "equity_points"
      BY <3>1, <3>2
    <3>4. store.offset < 2
      BY <1>5, <3>3, TurnFacts
    <3> QED
      BY <1>5, <1>6, <2>1, <3>1, <3>4
  <2> QED
    BY <2>2, <2>3
<1>10. StorageTypes'
  <2>1. /\ storageActive' /\ arrived' \in BOOLEAN /\ excused' \in BOOLEAN /\ pressure' \in BOOLEAN
        /\ yieldSignal' \in BOOLEAN
    BY <1>1, Typed DEF marketVars
  <2>2. StorageTypeOK'
    BY <1>1, <1>4, <1>6, <2>1, Typed DEF StorageInv, StorageTypes, StorageTypeOK
  <2> QED
    BY <1>6, <1>9, <2>1, <2>2 DEF StorageTypes
<1>11. UpgradeIsQuiet' /\ OptionalAlone' /\ TurnsRotate'
  BY <1>1, <1>6, <1>9 DEF StorageInv, UpgradeIsQuiet, OptionalAlone, TurnsRotate
<1> QED
  BY <1>1, <1>8, <1>10, <1>11 DEF StorageInv, StorageStepped, ExhaustedStep

LEMMA PruneRetiredStep == StorageInv /\ PruneRetired => StorageStepped
<1> SUFFICES ASSUME StorageInv, PruneRetired PROVE StorageStepped
  OBVIOUS
<1>1. /\ UNCHANGED <<aged, recent, budgetState, marketVars, declared, reserve, ghostVars>>
      /\ store.pc = "retired"
  BY DEF PruneRetired
<1>2. PICK refused \in BOOLEAN, removes \in BOOLEAN :
        /\ retired' = IF refused \/ ~removes \/ retired = 0 THEN retired ELSE retired - 1
        /\ \/ Ends /\ requested' = TRUE
           \/ /\ store' = [store EXCEPT !.pc = "budget",
                                        !.more = store.more \/ refused \/ retired > 0]
              /\ UNCHANGED <<requested, storageActive>>
  BY Zenon DEF PruneRetired
<1>3. /\ retired' \in Nat /\ retired' <= retired
  <2>1. retired \in Nat
    BY Typed
  <2>2. retired' = retired \/ (retired # 0 /\ retired' = retired - 1)
    BY <1>2
  <2> QED
    BY <2>1, <2>2
<1>4. /\ aged' \in [Category -> Nat] /\ recent' \in Nat /\ yieldSignal' \in BOOLEAN
      /\ UNCHANGED <<pressure, declared, reserve, budgetState>>
  BY <1>1, Typed DEF marketVars
<1>5. CASE Ends /\ requested' = TRUE
  BY <1>1, <1>3, <1>4, <1>5, Typed, EndsStep DEF StorageStepped, ExhaustedStep
<1>6. CASE ~(Ends /\ requested' = TRUE)
  <2>1. /\ store' = [store EXCEPT !.pc = "budget", !.more = store.more \/ refused \/ retired > 0]
        /\ UNCHANGED <<requested, storageActive>>
    BY <1>2, <1>6
  <2>2. (store.more \/ refused \/ retired > 0) \in BOOLEAN
    OBVIOUS
  <2>3. /\ store' \in Stores /\ store'.pc = "budget" /\ store'.offset = store.offset
        /\ store'.more = (store.more \/ refused \/ retired > 0)
    BY <2>1, <2>2, Typed DEF Stores
  <2>4. UNCHANGED <<Aged, arrived>>
    BY <1>1 DEF ghostVars, Aged
  <2>5. ~store'.more => ~store.more /\ ~(retired > 0)
    BY <2>3, Zenon
  <2>6. ~(retired > 0) => retired' = 0
    <3>1. retired \in Nat
      BY Typed
    <3> QED
      BY <1>3, <3>1
  <2>7. PassRemembers'
    BY <1>1, <2>3, <2>4, <2>5, <2>6 DEF StorageInv, PassRemembers, Between
  <2>8. requested' \in BOOLEAN
    BY <2>1, Typed
  <2> QED
    BY <1>1, <1>3, <1>4, <2>1, <2>3, <2>7, <2>8, Typed, StageStep DEF StorageStepped, ExhaustedStep
<1> QED
  BY <1>5, <1>6

LEMMA DeletesFacts ==
    ASSUME StorageInv, Deletes, UNCHANGED retired
    PROVE  /\ aged' \in [Category -> Nat] /\ recent' \in Nat
           /\ Aged = 0 => Aged' = 0
<1>1. aged \in [Category -> Nat] /\ recent \in Nat
  BY Typed
<1>2. /\ recent' \in Nat
      /\ aged' \in [Category -> Nat]
      /\ \A c \in Category : aged'[c] <= aged[c]
  <2>1. CASE /\ aged' = [c \in Category |-> IF c = "equity_points" THEN aged[c] ELSE 0]
             /\ recent' = 0
    BY <1>1, <2>1
  <2>2. CASE \E c \in Category \ {"equity_points"} :
               aged[c] > 0 /\ aged' = [aged EXCEPT ![c] = aged[c] - 1] /\ UNCHANGED recent
    <3>1. PICK c \in Category :
            aged[c] > 0 /\ aged' = [aged EXCEPT ![c] = aged[c] - 1] /\ UNCHANGED recent
      BY <2>2
    <3>2. aged[c] - 1 \in Nat /\ aged[c] - 1 <= aged[c]
      BY <1>1, <3>1
    <3> QED
      BY <1>1, <3>1, <3>2
  <2>3. CASE recent > 0 /\ recent' = recent - 1 /\ UNCHANGED aged
    BY <1>1, <2>3
  <2>4. CASE UNCHANGED <<aged, recent>>
    BY <1>1, <2>4
  <2> QED
    BY <2>1, <2>2, <2>3, <2>4 DEF Deletes
<1>3. ASSUME Aged = 0 PROVE Aged' = 0
  <2>1. ASSUME NEW c \in Category PROVE aged'[c] = 0
    <3>1. aged[c] = 0
      BY <1>1, <1>3, RowTypes, Typed
    <3>2. aged'[c] \in Nat /\ aged'[c] <= aged[c]
      BY <1>2
    <3> QED
      BY <3>1, <3>2
  <2> QED
    BY <2>1, CategoryFacts DEF Aged
<1> QED
  BY <1>2, <1>3

LEMMA EnforceBudgetStep == StorageInv /\ EnforceBudget => StorageStepped
<1> SUFFICES ASSUME StorageInv, EnforceBudget PROVE StorageStepped
  OBVIOUS
<1>1. /\ UNCHANGED <<retired, budgetState, pressure, declared, reserve, ghostVars>>
      /\ store.pc = "budget" /\ yieldSignal' = (yieldSignal \/ pressure)
  BY DEF EnforceBudget
<1>2. PICK interrupted \in BOOLEAN :
        /\ Deletes \/ UNCHANGED <<aged, recent>>
        /\ \/ Ends /\ requested' = TRUE
           \/ /\ store' = [store EXCEPT !.pc = "optional",
                                        !.left = ~store.known \/ WorkLeft(interrupted)]
              /\ UNCHANGED <<requested, storageActive>>
  BY Zenon DEF EnforceBudget
<1>3. /\ aged' \in [Category -> Nat] /\ recent' \in Nat /\ retired' \in Nat
      /\ Aged = 0 => Aged' = 0
  <2>1. CASE Deletes
    BY <1>1, <2>1, DeletesFacts, Typed
  <2>2. CASE UNCHANGED <<aged, recent>>
    BY <1>1, <2>2, Typed DEF Aged
  <2> QED
    BY <1>2, <2>1, <2>2
<1>4. yieldSignal' \in BOOLEAN /\ UNCHANGED <<pressure, declared, reserve, budgetState>>
  BY <1>1
<1>5. CASE Ends /\ requested' = TRUE
  BY <1>1, <1>3, <1>4, <1>5, Typed, EndsStep DEF StorageStepped, ExhaustedStep
<1>6. CASE ~(Ends /\ requested' = TRUE)
  <2>1. /\ store' = [store EXCEPT !.pc = "optional", !.left = ~store.known \/ WorkLeft(interrupted)]
        /\ UNCHANGED <<requested, storageActive>>
    BY <1>2, <1>6
  <2>2. (~store.known \/ WorkLeft(interrupted)) \in BOOLEAN
    OBVIOUS
  <2>3. /\ store' \in Stores /\ store'.pc = "optional" /\ store'.offset = store.offset
        /\ store'.more = store.more /\ store'.left = (~store.known \/ WorkLeft(interrupted))
    BY <2>1, <2>2, Typed DEF Stores
  <2>4. ~store'.left => LiveRows' <= Target \/ Budgeted' = 0
    <3>1. ~store'.left => ~(LiveRows' > Target /\ Budgeted' > 0)
      BY <2>3, Zenon DEF WorkLeft
    <3>2. /\ aged'["raw_trades"] \in Nat /\ aged'["non_entry_decisions"] \in Nat
          /\ aged'["equity_points"] \in Nat
      BY <1>3, CategoryFacts
    <3>3. Aged' \in Nat
      BY <3>2 DEF Aged
    <3>4. LiveRows' \in Nat /\ Budgeted' \in Nat /\ Target \in Nat
      <4>1. recent' \in Nat /\ retired' \in Nat /\ Evidence \in Nat /\ Target \in Nat
        BY <1>3, StorageAssumption
      <4>2. LiveRows' \in Nat
        BY <3>2, <4>1 DEF LiveRows, Aged
      <4>3. Budgeted' \in Nat
        BY <3>2, <4>1 DEF Budgeted
      <4> QED
        BY <4>1, <4>2, <4>3
    <3>5. ~(LiveRows' > Target /\ Budgeted' > 0) => LiveRows' <= Target \/ Budgeted' = 0
      BY <3>4
    <3> QED
      BY <3>1, <3>5
  <2>5. /\ ~arrived /\ ~store.more => Aged' = 0 /\ retired' = 0
        /\ arrived' = arrived
    BY <1>1, <1>3 DEF StorageInv, PassRemembers, ghostVars
  <2>6. PassRemembers'
    BY <2>3, <2>4, <2>5 DEF PassRemembers, Between
  <2>7. requested' \in BOOLEAN
    BY <2>1, Typed
  <2> QED
    BY <1>1, <1>3, <1>4, <2>1, <2>3, <2>6, <2>7, Typed, StageStep DEF StorageStepped, ExhaustedStep
<1> QED
  BY <1>5, <1>6

LEMMA CapacityAfterStep == StorageInv /\ CapacityAfter => StorageStepped
<1> SUFFICES ASSUME StorageInv, CapacityAfter PROVE StorageStepped
  OBVIOUS
<1>1. /\ UNCHANGED <<rowVars, marketVars, declared, reserve, ghostVars>>
      /\ store.pc = "after"
  BY DEF CapacityAfter
<1>2. PICK refused \in BOOLEAN :
        /\ Ends
        /\ budgetState' = IF refused THEN "capacity_unknown"
                          ELSE IF StopRequested THEN budgetState
                          ELSE IF LiveRows <= Target THEN "within_budget"
                          ELSE IF store.more \/ store.left THEN "cleanup_needed"
                          ELSE "retained_evidence_above_target"
        /\ requested' = (requested \/ refused \/ StopRequested \/ AgainNeeded)
  BY Zenon DEF CapacityAfter
<1>3. budgetState' \in {"within_budget", "cleanup_needed", "capacity_unknown",
                        "retained_evidence_above_target"}
  BY <1>2, Typed
<1>4. ExhaustedStep
  <2> SUFFICES ASSUME budgetState # budgetState', budgetState' = "retained_evidence_above_target", ~arrived
               PROVE  Budgeted = 0
    BY DEF ExhaustedStep
  <2>1. ~(LiveRows <= Target) /\ ~store.left
    BY <1>2
  <2> QED
    BY <1>1, <2>1 DEF StorageInv, PassRemembers
<1>5. /\ store' \in Stores /\ store'.pc = "wait" /\ store'.offset = store.offset
      /\ storageActive' = FALSE
  BY <1>2, StoreAtFacts DEF Ends, Between
<1>6. PassRemembers'
  <2>1. UNCHANGED <<Aged, retired, arrived>>
    BY <1>1 DEF rowVars, ghostVars, Aged
  <2>2. ~arrived /\ ~store.more => Aged = 0 /\ retired = 0
    BY <1>1 DEF StorageInv, PassRemembers
  <2>3. store.more => requested'
    BY <1>2, Zenon DEF AgainNeeded
  <2>4. ~arrived' /\ (Aged' > 0 \/ retired' > 0) => requested'
    BY <2>1, <2>2, <2>3
  <2> QED
    BY <1>5, <2>4 DEF PassRemembers
<1>7. /\ requested' \in BOOLEAN
      /\ UNCHANGED <<pressure, declared, reserve, skipped, aged, recent, retired, yieldSignal,
                     arrived, excused>>
  BY <1>1, <1>2 DEF rowVars, marketVars, ghostVars
<1> QED
  BY <1>3, <1>4, <1>5, <1>6, <1>7, Typed, WorkerStep DEF StorageStepped

\* A row that comes in excuses the pass of whatever it leaves.
LEMMA RowArrivesStep == StorageInv /\ RowArrives => StorageStepped
<1> SUFFICES ASSUME StorageInv, RowArrives PROVE StorageStepped
  OBVIOUS
<1>1. /\ arrived' = TRUE
      /\ UNCHANGED <<store, requested, storageActive, budgetState, marketVars, declared, reserve,
                     excused, skipped>>
  BY DEF RowArrives
<1>2. aged' \in [Category -> Nat] /\ recent' \in Nat /\ retired' \in Nat
  <2>1. aged \in [Category -> Nat] /\ recent \in Nat /\ retired \in Nat
    BY Typed
  <2>2. CASE recent' = recent + 1 /\ UNCHANGED <<aged, retired>>
    BY <2>1, <2>2
  <2>3. CASE retired' = retired + 1 /\ UNCHANGED <<aged, recent>>
    BY <2>1, <2>3
  <2>4. CASE \E c \in Category :
               aged' = [aged EXCEPT ![c] = aged[c] + 1] /\ UNCHANGED <<recent, retired>>
    BY <2>1, <2>4
  <2> QED
    BY <2>2, <2>3, <2>4 DEF RowArrives
<1>3. PassRemembers'
  BY <1>1 DEF PassRemembers
<1>4. /\ UNCHANGED <<pressure, declared, reserve, skipped, store, requested, storageActive, yieldSignal,
                     excused, budgetState>>
      /\ arrived' \in BOOLEAN
      /\ store'.offset = store.offset
  BY <1>1 DEF marketVars
<1>5. store'.pc = "optional only" => reserve = "idle"
  BY <1>4 DEF StorageInv, OptionalAlone
<1> QED
  BY <1>2, <1>3, <1>4, <1>5, Typed, WorkerStep DEF StorageStepped, ExhaustedStep

LEMMA ConfigureStep == StorageInv /\ ConfigureStorage => StorageStepped
<1> SUFFICES ASSUME StorageInv, ConfigureStorage PROVE StorageStepped
  OBVIOUS
<1>1. /\ store' = [store EXCEPT !.outdated = storageActive] /\ requested' = TRUE
      /\ budgetState' \in IF budgetState = "capacity_unknown" THEN {budgetState}
                          ELSE {"cleanup_needed", "within_budget"}
      /\ UNCHANGED <<rowVars, storageActive, marketVars, declared, reserve, arrivals, tries, ghostVars>>
  BY DEF ConfigureStorage
<1>2. /\ store' \in Stores /\ store'.pc = store.pc /\ store'.offset = store.offset
      /\ store'.more = store.more /\ store'.left = store.left
  BY <1>1, Typed DEF Stores
<1>3. /\ budgetState' \in {"within_budget", "cleanup_needed", "capacity_unknown"}
      /\ requested' \in BOOLEAN
  BY <1>1
<1>4. PassRemembers'
  <2>1. UNCHANGED <<Aged, LiveRows, Budgeted, retired, arrived>>
    BY <1>1 DEF rowVars, ghostVars, Aged, LiveRows, Budgeted
  <2> QED
    BY <1>1, <1>2, <2>1 DEF StorageInv, PassRemembers
<1>5. store'.pc = "optional only" => reserve = "idle"
  BY <1>2 DEF StorageInv, OptionalAlone
<1>6. UNCHANGED <<pressure, declared, reserve, skipped, storageActive, yieldSignal, arrived, excused,
                  aged, recent, retired>>
  BY <1>1 DEF marketVars, ghostVars, rowVars
<1> QED
  BY <1>2, <1>3, <1>4, <1>5, <1>6, Typed, WorkerStep DEF StorageStepped, ExhaustedStep

LEMMA DeclaredStep == StorageInv /\ UpgradeDeclared => StorageStepped
<1> SUFFICES ASSUME StorageInv, UpgradeDeclared PROVE StorageStepped
  OBVIOUS
<1>1. /\ declared' = "requested" /\ requested' = FALSE /\ excused' = TRUE
      /\ UNCHANGED <<aged, recent, retired, store, storageActive, budgetState, pressure, yieldSignal,
                     reserve, arrived, skipped>>
  BY DEF UpgradeDeclared, rowVars, marketVars
<1>2. PassRemembers'
  <2>1. UNCHANGED <<Aged, LiveRows, Budgeted>>
    BY <1>1 DEF Aged, LiveRows, Budgeted
  <2> QED
    BY <1>1, <2>1 DEF StorageInv, PassRemembers
<1>3. StorageTypes'
  <2>1. StorageTypeOK'
    BY <1>1 DEF StorageInv, StorageTypes, StorageTypeOK
  <2> QED
    BY <1>1, <2>1 DEF StorageInv, StorageTypes
<1>4. UpgradeIsQuiet' /\ OptionalAlone' /\ TurnsRotate'
  BY <1>1 DEF StorageInv, UpgradeIsQuiet, OptionalAlone, TurnsRotate
<1> QED
  BY <1>1, <1>2, <1>3, <1>4 DEF StorageInv, StorageStepped, ExhaustedStep

LEMMA StorageBegins == StorageInit => StorageInv
<1> SUFFICES ASSUME StorageInit PROVE StorageInv
  OBVIOUS
<1>1. /\ store \in Stores /\ store.pc = "wait" /\ store.offset = 0
      /\ aged \in [Category -> Nat] /\ recent \in Nat /\ retired = 0
  BY DEF StorageInit, Stores, Between
<1>2. StorageTypes
  <2>1. skipped = 0 /\ arrived = FALSE /\ excused = FALSE /\ pressure = FALSE /\ yieldSignal = FALSE
    BY DEF StorageInit
  <2>2. /\ storageActive = FALSE /\ requested = FALSE /\ budgetState = "within_budget"
        /\ declared = "no" /\ reserve = "idle"
    BY DEF StorageInit
  <2>3. retired \in Nat /\ ~(store.pc \notin {"wait", "starting", "optional starting"})
    BY <1>1
  <2>4. StorageTypeOK
    BY <1>1, <2>2, <2>3 DEF StorageTypeOK
  <2> QED
    BY <1>1, <2>1, <2>4 DEF StorageTypes
<1>3. Aged = 0
  BY CategoryFacts DEF StorageInit, Aged
<1>4. PassRemembers
  <2>1. ~(Aged > 0 \/ retired > 0)
    BY <1>1, <1>3
  <2> QED
    BY <1>1, <2>1 DEF PassRemembers
<1>5. UpgradeIsQuiet /\ OptionalAlone /\ TurnsRotate
  BY <1>1 DEF StorageInit, UpgradeIsQuiet, OptionalAlone, TurnsRotate
<1> QED
  BY <1>2, <1>4, <1>5 DEF StorageInv

LEMMA StorageKept == StorageInv /\ [StorageNext]_storageVars => StorageStepped
<1> SUFFICES ASSUME StorageInv, [StorageNext]_storageVars PROVE StorageStepped
  OBVIOUS
<1>1. CASE StorageNext
  BY <1>1, LoopSteps, PassStartsStep, CapacityBeforeStep, PruneHistoryStep, PruneRetiredStep,
     EnforceBudgetStep, PruneOptionalStep, CapacityAfterStep, PassFailsStep, OptionalSteps,
     ReserveSteps, RowArrivesStep, SurroundingSteps, ConfigureStep, DeclaredStep DEF StorageNext
<1>2. CASE UNCHANGED storageVars
  <2>1. /\ UNCHANGED <<rowVars, store, requested, storageActive, budgetState, ghostVars>>
        /\ UNCHANGED <<pressure, yieldSignal, declared, reserve>>
    BY <1>2 DEF storageVars, rowVars, ghostVars
  <2>2. /\ declared \in {"no", "requested", "ready"} /\ (declared = "ready" => ~storageActive)
        /\ reserve \in {"idle", "select", "fetch", "answered"}
    BY DEF StorageInv, StorageTypes, StorageTypeOK, UpgradeIsQuiet
  <2> QED
    BY <2>1, <2>2, Typed, AsideStep
<1> QED
  BY <1>1, <1>2

LEMMA StorageImplied ==
    StorageInv => /\ StorageTypeOK /\ CleanupRemembered /\ UpgradeIsQuiet
                  /\ OptionalYieldsToLearning /\ HistoryTurnsShared
<1> SUFFICES ASSUME StorageInv
             PROVE  /\ StorageTypeOK /\ CleanupRemembered /\ UpgradeIsQuiet
                    /\ OptionalYieldsToLearning /\ HistoryTurnsShared
  OBVIOUS
<1>1. StorageTypeOK /\ UpgradeIsQuiet
  BY DEF StorageInv, StorageTypes
<1>2. CleanupRemembered
  BY DEF StorageInv, PassRemembers, CleanupRemembered, Between
<1>3. OptionalYieldsToLearning
  BY DEF StorageInv, OptionalAlone, OptionalYieldsToLearning
<1>4. HistoryTurnsShared
  <2>1. store.offset \in 0..2 /\ skipped \in Nat /\ skipped <= store.offset
    BY Typed DEF StorageInv, TurnsRotate, Stores
  <2> QED
    BY <2>1 DEF HistoryTurnsShared
<1> QED
  BY <1>1, <1>2, <1>3, <1>4

\* Whatever ends a storage pass, the work it leaves is asked for again unless an upgrade drops it;
\* the verdict "retained evidence" is given only with nothing removable left; a ready upgrade is
\* quiet, optional work never meets a reserve request and no category misses three turns
\* (orchestrator.py 3474-3940, 4568-4570, 7116-7141), for every target and amount of evidence.
THEOREM StorageAlwaysCompletes == StorageSpec => CleanupCompletes
<1>1. StorageInit => StorageInv
  BY StorageBegins
<1>2. StorageInv /\ [StorageNext]_storageVars => StorageInv'
  BY StorageKept DEF StorageStepped
<1>3. StorageInv /\ [StorageNext]_storageVars
        => [(budgetState # budgetState' /\ budgetState' = "retained_evidence_above_target"
              /\ ~arrived) => Budgeted = 0]_storageVars
  BY StorageKept DEF StorageStepped, ExhaustedStep
<1> QED
  BY <1>1, <1>2, <1>3, StorageImplied, PTL DEF StorageSpec, CleanupCompletes, RetainedIsExhausted

-----------------------------------------------------------------------------
(* The operations of a season *)

\* Where an API mutation holds the event lock over several writes.
Holding == {"setup_stop", "start_save", "stop", "freeze", "freeze_save"}

\* Where the books, the operation, an API mutation and an upgrade preparation may be.
Books == [season : 0..seasonCount, profile : 0..2, locked : BOOLEAN, buys : BOOLEAN,
          sells : BOOLEAN, held : BOOLEAN]
Operations == [kind : {"none", "setup", "start", "reset", "profile_transition"},
               state : {"none", "running", "completed", "failed"}, source : 0..seasonCount,
               target : 0..2, prev : BOOLEAN, now : BOOLEAN, expired : BOOLEAN, rolls : Nat]
Calls == [pc : {"idle", "setup", "start", "done", "transition", "unfreeze"} \cup Holding,
          target : 0..2, prev : BOOLEAN]
Preps == [state : {"none", "running", "ready", "failed", "cancelled", "completed"},
          prev : BOOLEAN, requested : BOOLEAN, pc : {"idle", "settle", "wait"}]

SeasonTypes ==
    /\ SeasonTypeOK
    /\ book \in Books
    /\ op \in Operations
    /\ call \in Calls
    /\ reset \in {"idle", "pause", "archive", "done"}
    /\ prep \in Preps
    /\ tick \in [op : Nat, prev : BOOLEAN]
    /\ seasonCount \in 0..MaxSeasons /\ ops \in Nat /\ halfFrozen \in BOOLEAN

\* Whose operation is running, and who holds the event lock.
CallersOwn ==
    /\ call.pc \in {"setup", "setup_stop"} => OpRunning /\ op.kind = "setup"
    /\ call.pc = "setup" => seasonCount < MaxSeasons
    /\ call.pc \in {"start", "start_save"} => OpRunning /\ op.kind = "start" /\ book.season # 0
    /\ call.pc = "done" => OpRunning /\ op.kind \in {"setup", "start"}
    /\ call.pc = "transition" => ~OpRunning /\ book.season # 0
    /\ call.pc \in {"freeze", "freeze_save"} => TransitionActive
    /\ call.pc = "unfreeze" => op.kind = "profile_transition" /\ halfFrozen
    /\ reset # "idle" => OpRunning /\ op.kind = "reset"
    /\ lock = "api" <=> call.pc \in Holding

\* A transition draws on the season it began in until its boundary, and then replaced it once.
TransitionDrains ==
    /\ TransitionActive /\ lock # "beat" => op.rolls = 0 /\ op.source = book.season /\ book.season # 0
    /\ TransitionActive /\ lock = "beat" =>
         /\ op.rolls = 1 /\ op.source # book.season /\ op.target = book.profile
         /\ tick.op = ops /\ tick.prev = op.prev
    /\ lock = "beat" /\ ~TransitionActive => halfFrozen
    /\ lock = "beat" => /\ book.season # 0 /\ tick.op <= ops
                        /\ tick.op = ops => op.kind = "profile_transition"
    /\ ~halfFrozen /\ op.kind = "profile_transition" =>
         /\ op.state \in {"running", "completed", "failed"}
         /\ op.state = "completed" => op.rolls = 1
         /\ op.state = "failed" => op.rolls = 0

Frozen ==
    TransitionActive /\ ~halfFrozen =>
        /\ lock = "free" => ~running /\ ~book.buys
        /\ call.pc = "freeze_save" => ~book.buys

\* The engine and its stored preference agree but for the write under way.
EngineKnown ==
    /\ lock = "beat" => pref = tick.prev /\ (~TransitionActive => running = tick.prev)
    /\ lock # "beat" /\ call.pc \notin {"start_save", "stop"} /\ ~prep.requested => running = pref
    /\ prep.requested => pref = prep.prev
    /\ running \/ pref => book.season # 0
    /\ call.pc = "start_save" => running
    /\ call.pc = "stop" => ~pref
    /\ reset = "archive" => ~running /\ ~pref /\ lock # "beat"
    /\ call.pc \in {"freeze", "freeze_save", "unfreeze"} => call.prev = op.prev /\ running = call.prev

\* An upgrade is prepared with nothing else under way.
PrepAlone ==
    /\ prep.requested <=> prep.state \in {"running", "ready"}
    /\ prep.state = "running" <=> prep.pc # "idle"
    /\ prep.requested => call.pc = "idle" /\ reset = "idle" /\ ~OpRunning
    /\ prep.requested /\ prep.pc # "settle" =>
         ~running /\ ~book.buys /\ ~book.sells /\ lock # "beat"

\* A completed change leaves the engine as it was when the change was requested.
RestoreStep ==
    TransitionActive /\ op'.state = "completed" /\ op'.kind = op.kind
        => running' = op.prev /\ pref' = op.prev

SeasonInv == SeasonTypes /\ CallersOwn /\ TransitionDrains /\ Frozen /\ EngineKnown /\ PrepAlone

SeasonStepped == SeasonInv' /\ RestoreStep

\* What every proof of a step needs to know of the variables.
LEMMA SeasonTyped ==
    ASSUME SeasonInv
    PROVE  /\ book \in Books
           /\ running \in BOOLEAN /\ pref \in BOOLEAN
           /\ seasonCount \in Nat /\ seasonCount <= MaxSeasons /\ MaxSeasons \in Nat /\ ops \in Nat
<1>1. MaxSeasons \in Nat
  BY OperationsAssumption
<1> QED
  BY <1>1 DEF SeasonInv, SeasonTypes, SeasonTypeOK

\* Steps of the market in the current season, while the event lock is free.
LEMMA MarketStep ==
    ASSUME SeasonInv, MarketBuys \/ MarketFills \/ MarketSells \/ TickSchedulesExits
    PROVE  SeasonStepped
<1>1. /\ UNCHANGED <<running, pref, op, call, reset, prep, lock, Counters>>
      /\ lock = "free"
  BY DEF MarketBuys, MarketFills, MarketSells, TickSchedulesExits
<1>2. /\ book' \in Books
      /\ book'.season = book.season /\ book'.profile = book.profile
      /\ book'.buys => book.buys \/ running
      /\ book'.sells => book.sells \/ running \/ OpRunning
  BY SeasonTyped
     DEF MarketBuys, MarketFills, MarketSells, TickSchedulesExits, ExitsManaged, TransitionActive, Books
<1>3. UNCHANGED <<tick, seasonCount, ops, halfFrozen, OpRunning, TransitionActive>>
  BY <1>1 DEF Counters, OpRunning, TransitionActive
<1>4. SeasonTypes'
  BY <1>1, <1>2, <1>3 DEF SeasonInv, SeasonTypes, SeasonTypeOK, Operations, Books
<1>5. CallersOwn' /\ TransitionDrains' /\ EngineKnown'
  BY <1>1, <1>2, <1>3 DEF SeasonInv, CallersOwn, TransitionDrains, EngineKnown
<1>6. Frozen'
  BY <1>1, <1>2, <1>3 DEF SeasonInv, CallersOwn, Frozen, Holding
<1>7. PrepAlone'
  BY <1>1, <1>2, <1>3 DEF SeasonInv, PrepAlone
<1>8. RestoreStep
  BY <1>1 DEF RestoreStep, TransitionActive, OpRunning
<1> QED
  BY <1>4, <1>5, <1>6, <1>7, <1>8 DEF SeasonInv, SeasonStepped

LEMMA RolloverKept == ASSUME SeasonInv, AutoRollover PROVE SeasonStepped
<1>1. /\ UNCHANGED <<running, op, call, reset, prep, lock, ops, preps, stops, failures, halfFrozen, tick>>
      /\ lock = "free" /\ running /\ ~OpRunning /\ ~prep.requested /\ seasonCount < MaxSeasons
      /\ seasonCount' = seasonCount + 1 /\ pref' = TRUE /\ book.season # 0
      /\ book' = [NoBook EXCEPT !.season = seasonCount + 1, !.profile = book.profile, !.locked = TRUE]
  BY DEF AutoRollover, Counters
<1>2. /\ seasonCount' \in Nat /\ seasonCount' <= MaxSeasons /\ seasonCount <= seasonCount'
      /\ seasonCount' # 0
  BY <1>1, SeasonTyped
<1>3. /\ book' \in Books'
      /\ book'.season = seasonCount + 1 /\ book'.season # 0 /\ ~book'.buys /\ ~book'.sells
  <2>1. book' = [season |-> seasonCount + 1, profile |-> book.profile, locked |-> TRUE,
                 buys |-> FALSE, sells |-> FALSE, held |-> FALSE]
    BY <1>1 DEF NoBook
  <2>2. seasonCount + 1 \in 0..seasonCount' /\ seasonCount + 1 # 0 /\ book.profile \in 0..2
    BY <1>1, SeasonTyped DEF Operations, Books
  <2> QED
    BY <2>1, <2>2 DEF Operations, Books
<1>4. op.source \in 0..seasonCount'
  BY <1>2, SeasonTyped DEF SeasonInv, SeasonTypes, Operations
<1>5. ~TransitionActive /\ UNCHANGED <<OpRunning, TransitionActive>>
  BY <1>1 DEF OpRunning, TransitionActive
<1>6. SeasonTypes'
  BY <1>1, <1>2, <1>3, <1>4, SeasonTyped DEF SeasonInv, SeasonTypes, SeasonTypeOK, Operations
<1>7. CallersOwn' /\ TransitionDrains'
  <2>1. call.pc # "setup"
    BY <1>1 DEF SeasonInv, CallersOwn
  <2> QED
    BY <1>1, <1>3, <1>5, <2>1 DEF SeasonInv, CallersOwn, TransitionDrains
<1>8. Frozen' /\ PrepAlone'
  BY <1>1, <1>5 DEF SeasonInv, PrepAlone, Frozen
<1>9. EngineKnown'
  <2>1. running = TRUE /\ pref' = TRUE
    BY <1>1, SeasonTyped
  <2>2. call.pc \notin {"start_save", "stop"}
    BY <1>1 DEF SeasonInv, CallersOwn, Holding
  <2> QED
    BY <1>1, <1>3, <1>5, <2>1, <2>2 DEF SeasonInv, EngineKnown
<1>10. RestoreStep
  BY <1>5 DEF RestoreStep
<1> QED
  BY <1>6, <1>7, <1>8, <1>9, <1>10 DEF SeasonInv, SeasonStepped

\* Steps of an API mutation that leave the seasons, the operation and the tick alone.
LEMMA BeginsFacts ==
    ASSUME SeasonInv, NEW kind \in {"setup", "start", "reset"}, Begins(kind)
    PROVE  /\ op' \in Operations
           /\ op'.kind = kind /\ op'.state = "running" /\ OpRunning' /\ ~TransitionActive'
           /\ ~OpRunning /\ ~TransitionActive /\ ops' = ops + 1 /\ ops' \in Nat
<1>1. /\ op' = [NoOp EXCEPT !.kind = kind, !.state = "running", !.source = book.season]
      /\ ops' = ops + 1 /\ ~OpRunning
  BY DEF Begins
<1>2. book.season \in 0..seasonCount /\ 0 \in 0..2 /\ 0 \in Nat
  BY SeasonTyped DEF Operations, Books
<1>3. /\ op' \in Operations
      /\ op'.kind = kind /\ op'.state = "running"
  BY <1>1, <1>2 DEF NoOp, Operations
<1>4. OpRunning' /\ ~TransitionActive' /\ ~TransitionActive
  BY <1>1, <1>3 DEF OpRunning, TransitionActive
<1>5. ops' \in Nat
  BY <1>1, SeasonTyped
<1> QED
  BY <1>1, <1>3, <1>4, <1>5

\* A setup, a start or a reset begins: nothing but the operation and its owner changes.
LEMMA BeginStep ==
    ASSUME SeasonInv, NEW kind \in {"setup", "start", "reset"}, Begins(kind), ApiOpen,
           UNCHANGED <<book, running, pref, prep, lock, seasonCount, halfFrozen, tick>>,
           call' \in [pc : {"idle", "setup", "start"}, target : 0..2, prev : BOOLEAN],
           reset' \in {"idle", "pause"},
           call'.pc = "setup" => kind = "setup" /\ seasonCount < MaxSeasons,
           call'.pc = "start" => kind = "start" /\ book.season # 0,
           reset' = "pause" => kind = "reset"
    PROVE  SeasonStepped
<1>1. /\ op' \in Operations
      /\ op'.kind = kind /\ op'.state = "running" /\ OpRunning' /\ ~TransitionActive'
      /\ ~OpRunning /\ ~TransitionActive /\ ops' = ops + 1 /\ ops' \in Nat
  BY BeginsFacts
<1>2. call.pc = "idle" /\ ~prep.requested /\ reset = "idle"
  BY <1>1 DEF ApiOpen, SeasonInv, CallersOwn
<1>3. SeasonTypes'
  <2>1. /\ call' \in Calls
        /\ reset' \in {"idle", "pause", "archive", "done"}
    BY DEF Operations, Calls
  <2>2. SeasonTypeOK'
    BY <1>1 DEF SeasonInv, SeasonTypes, SeasonTypeOK
  <2> QED
    BY <1>1, <2>1, <2>2 DEF SeasonInv, SeasonTypes, Operations, Books
<1>4. CallersOwn'
  BY <1>1, <1>2 DEF SeasonInv, CallersOwn, Holding
<1>5. TransitionDrains'
  <2>1. lock = "beat" => tick.op <= ops /\ tick.op # ops' /\ tick.op <= ops'
    <3>1. tick.op \in Nat /\ ops \in Nat
      BY DEF SeasonInv, SeasonTypes
    <3>2. lock = "beat" => tick.op <= ops
      BY DEF SeasonInv, TransitionDrains
    <3> QED
      BY <1>1, <3>1, <3>2
  <2> QED
    BY <1>1, <2>1 DEF SeasonInv, TransitionDrains
<1>6. Frozen'
  BY <1>1 DEF Frozen
<1>7. EngineKnown'
  BY <1>1, <1>2 DEF SeasonInv, EngineKnown
<1>8. PrepAlone'
  BY <1>1, <1>2 DEF SeasonInv, PrepAlone
<1> QED
  BY <1>1, <1>3, <1>4, <1>5, <1>6, <1>7, <1>8 DEF SeasonInv, SeasonStepped, RestoreStep

LEMMA BeginSteps ==
    ASSUME SeasonInv, (\E t \in {1, 2} : SetupBegins(t)) \/ ResumeBegins \/ ResetBegins
    PROVE  SeasonStepped
<1>1. CASE \E t \in {1, 2} : SetupBegins(t)
  <2>1. PICK t \in {1, 2} : SetupBegins(t)
    BY <1>1
  <2>2. /\ Begins("setup") /\ ApiOpen /\ call' = [NoCall EXCEPT !.pc = "setup", !.target = t]
        /\ seasonCount < MaxSeasons
        /\ UNCHANGED <<book, running, pref, prep, lock, seasonCount, halfFrozen, tick, reset>>
    BY <2>1 DEF SetupBegins
  <2>3. call' \in [pc : {"idle", "setup", "start"}, target : 0..2, prev : BOOLEAN] /\ call'.pc = "setup"
    <3>1. call' = [pc |-> "setup", target |-> t, prev |-> FALSE]
      BY <2>2 DEF NoCall
    <3>2. t \in 0..2
      OBVIOUS
    <3> QED
      BY <3>1, <3>2
  <2>4. reset = "idle"
    BY <2>2 DEF Begins, SeasonInv, CallersOwn
  <2> QED
    BY <2>2, <2>3, <2>4, BeginStep
<1>2. CASE ResumeBegins
  <2>1. /\ Begins("start") /\ ApiOpen /\ call' = [NoCall EXCEPT !.pc = "start"] /\ book.season # 0
        /\ UNCHANGED <<book, running, pref, prep, lock, seasonCount, halfFrozen, tick, reset>>
    BY <1>2 DEF ResumeBegins
  <2>2. call' \in [pc : {"idle", "setup", "start"}, target : 0..2, prev : BOOLEAN] /\ call'.pc = "start"
    <3>1. call' = [pc |-> "start", target |-> 0, prev |-> FALSE]
      BY <2>1 DEF NoCall
    <3>2. 0 \in 0..2
      OBVIOUS
    <3> QED
      BY <3>1, <3>2
  <2>3. reset = "idle"
    BY <2>1 DEF Begins, SeasonInv, CallersOwn
  <2> QED
    BY <2>1, <2>2, <2>3, BeginStep
<1>3. CASE ResetBegins
  <2>1. /\ Begins("reset") /\ ApiOpen /\ reset' = "pause"
        /\ UNCHANGED <<book, running, pref, prep, lock, seasonCount, halfFrozen, tick, call>>
    BY <1>3 DEF ResetBegins
  <2>2. call' \in [pc : {"idle", "setup", "start"}, target : 0..2, prev : BOOLEAN] /\ call'.pc = "idle"
    BY <2>1 DEF ApiOpen, SeasonInv, SeasonTypes, Operations, Calls
  <2> QED
    BY <2>1, <2>2, BeginStep
<1> QED
  BY <1>1, <1>2, <1>3

LEMMA CallTyped ==
    ASSUME SeasonInv
    PROVE  /\ book \in Books /\ call \in Calls /\ prep \in Preps
           /\ reset \in {"idle", "pause", "archive", "done"} /\ lock \in {"free", "api", "beat"}
           /\ running \in BOOLEAN /\ pref \in BOOLEAN
BY DEF SeasonInv, SeasonTypes, SeasonTypeOK, Calls, Preps, Books

\* Steps that leave the operation, the season and the tick as they are.
LEMMA KeptStep ==
    ASSUME SeasonInv, UNCHANGED <<op, tick, seasonCount, ops, halfFrozen>>,
           lock' \in {"free", "api", "beat"}, lock' = "beat" <=> lock = "beat",
           book' \in Books, book'.season = book.season, TransitionActive => book'.profile = book.profile,
           call' \in Calls, reset' \in {"idle", "pause", "archive", "done"}, prep' \in Preps,
           running' \in BOOLEAN, pref' \in BOOLEAN,
           CallersOwn', Frozen', EngineKnown', PrepAlone'
    PROVE  SeasonStepped
<1>1. SeasonTypes'
  <2>1. SeasonTypeOK'
    BY DEF SeasonInv, SeasonTypes, SeasonTypeOK, Preps, Books
  <2> QED
    BY <2>1 DEF SeasonInv, SeasonTypes, Preps, Calls, Books, Operations
<1>2. UNCHANGED <<OpRunning, TransitionActive>>
  BY DEF OpRunning, TransitionActive
<1>3. TransitionDrains'
  BY <1>2 DEF SeasonInv, TransitionDrains
<1>4. RestoreStep
  BY DEF RestoreStep, TransitionActive, OpRunning
<1> QED
  BY <1>1, <1>3, <1>4 DEF SeasonInv, SeasonStepped

\* The locks and states a caller at call.pc excludes.
LEMMA CallFacts ==
    ASSUME SeasonInv
    PROVE  /\ call.pc # "idle" => ~prep.requested
           /\ call.pc \in Holding <=> lock = "api"
           /\ call.pc \in {"setup", "setup_stop", "start", "start_save", "done"} =>
                OpRunning /\ ~TransitionActive /\ reset = "idle"
           /\ call.pc \in {"freeze", "freeze_save"} => TransitionActive /\ reset = "idle"
           /\ call.pc \in {"transition", "unfreeze"} => reset = "idle"
BY DEF SeasonInv, CallersOwn, PrepAlone, TransitionActive

LEMMA SetupStopsStep == ASSUME SeasonInv, SetupStops PROVE SeasonStepped
<1>1. /\ call.pc = "setup_stop" /\ running' = FALSE /\ pref' = FALSE /\ lock' = "free"
      /\ call' = [call EXCEPT !.pc = "done"]
      /\ UNCHANGED <<book, op, reset, prep, tick, seasonCount, ops, halfFrozen>>
  BY DEF SetupStops, Counters
<1>2. call' \in Calls /\ call'.pc = "done" /\ call'.pc \notin Holding
  BY <1>1, CallTyped DEF Calls, Holding
<1>3. /\ lock = "api" /\ OpRunning /\ ~TransitionActive /\ reset = "idle" /\ ~prep.requested
      /\ UNCHANGED <<OpRunning, TransitionActive>>
  BY <1>1, CallFacts DEF Holding, OpRunning, TransitionActive
<1>4. CallersOwn'
  BY <1>1, <1>2, <1>3 DEF SeasonInv, CallersOwn
<1>5. Frozen' /\ EngineKnown' /\ PrepAlone'
  BY <1>1, <1>2, <1>3 DEF SeasonInv, Frozen, EngineKnown, PrepAlone
<1> QED
  BY <1>1, <1>2, <1>3, <1>4, <1>5, CallTyped, KeptStep DEF Books

LEMMA ResumeLocksStep == ASSUME SeasonInv, ResumeLocksProfile PROVE SeasonStepped
<1>1. /\ call.pc = "start" /\ lock = "free" /\ running' = TRUE /\ lock' = "api"
      /\ call' = [call EXCEPT !.pc = "start_save"] /\ book' = [book EXCEPT !.locked = TRUE]
      /\ UNCHANGED <<pref, op, reset, prep, tick, seasonCount, ops, halfFrozen>>
  BY DEF ResumeLocksProfile, Counters
<1>2. /\ call' \in Calls /\ call'.pc = "start_save" /\ call'.pc \in Holding
      /\ book' \in Books /\ book'.season = book.season /\ book'.profile = book.profile
      /\ book'.buys = book.buys /\ book'.sells = book.sells
  BY <1>1, CallTyped DEF Calls, Holding, Books
<1>3. /\ OpRunning /\ ~TransitionActive /\ reset = "idle" /\ ~prep.requested
      /\ UNCHANGED <<OpRunning, TransitionActive>>
  BY <1>1, CallFacts DEF OpRunning, TransitionActive
<1>4. CallersOwn' /\ book.season # 0
  BY <1>1, <1>2, <1>3 DEF SeasonInv, CallersOwn
<1>5. Frozen' /\ EngineKnown' /\ PrepAlone'
  BY <1>1, <1>2, <1>3, <1>4 DEF SeasonInv, Frozen, EngineKnown, PrepAlone
<1> QED
  BY <1>1, <1>2, <1>3, <1>4, <1>5, CallTyped, KeptStep DEF Books

LEMMA ResumeSavesStep == ASSUME SeasonInv, ResumeSaves PROVE SeasonStepped
<1>1. /\ call.pc = "start_save" /\ pref' = TRUE /\ lock' = "free"
      /\ call' = [call EXCEPT !.pc = "done"]
      /\ UNCHANGED <<book, running, op, reset, prep, tick, seasonCount, ops, halfFrozen>>
  BY DEF ResumeSaves, Counters
<1>2. call' \in Calls /\ call'.pc = "done" /\ call'.pc \notin Holding
  BY <1>1, CallTyped DEF Calls, Holding
<1>3. /\ lock = "api" /\ OpRunning /\ ~TransitionActive /\ reset = "idle" /\ ~prep.requested
      /\ UNCHANGED <<OpRunning, TransitionActive>>
  BY <1>1, CallFacts DEF Holding, OpRunning, TransitionActive
<1>4. CallersOwn' /\ book.season # 0 /\ running = TRUE
  BY <1>1, <1>2, <1>3, CallTyped DEF SeasonInv, CallersOwn, EngineKnown
<1>5. Frozen' /\ EngineKnown' /\ PrepAlone'
  BY <1>1, <1>2, <1>3, <1>4 DEF SeasonInv, Frozen, EngineKnown, PrepAlone
<1> QED
  BY <1>1, <1>2, <1>3, <1>4, <1>5, CallTyped, KeptStep DEF Books

LEMMA StopSavesStep == ASSUME SeasonInv, StopSaves PROVE SeasonStepped
<1>1. /\ call.pc = "idle" /\ ~prep.requested /\ ~TransitionActive /\ lock = "free"
      /\ pref' = FALSE /\ lock' = "api" /\ call' = [NoCall EXCEPT !.pc = "stop"]
      /\ UNCHANGED <<book, running, op, reset, prep, tick, seasonCount, ops, halfFrozen>>
  BY DEF StopSaves, ApiOpen, Counters
<1>2. call' \in Calls /\ call'.pc = "stop" /\ call'.pc \in Holding
  <2>1. call' = [pc |-> "stop", target |-> 0, prev |-> FALSE]
    BY <1>1 DEF NoCall
  <2>2. 0 \in 0..2
    OBVIOUS
  <2> QED
    BY <2>1, <2>2 DEF Calls, Holding
<1>3. UNCHANGED <<OpRunning, TransitionActive>>
  BY <1>1 DEF OpRunning, TransitionActive
<1>4. CallersOwn'
  BY <1>1, <1>2, <1>3 DEF SeasonInv, CallersOwn
<1>5. Frozen' /\ EngineKnown' /\ PrepAlone'
  BY <1>1, <1>2, <1>3 DEF SeasonInv, Frozen, EngineKnown, PrepAlone
<1> QED
  BY <1>1, <1>2, <1>3, <1>4, <1>5, CallTyped, KeptStep DEF Books

LEMMA NoOrdersFacts ==
    ASSUME SeasonInv
    PROVE  /\ NoOrders(book) \in Books /\ NoOrders(book).season = book.season
           /\ NoOrders(book).profile = book.profile
           /\ ~NoOrders(book).buys /\ ~NoOrders(book).sells
BY CallTyped DEF NoOrders, Books

LEMMA StopCancelsStep == ASSUME SeasonInv, StopCancels PROVE SeasonStepped
<1>1. /\ call.pc = "stop" /\ running' = FALSE /\ book' = NoOrders(book) /\ lock' = "free"
      /\ call' = NoCall
      /\ UNCHANGED <<pref, op, reset, prep, tick, seasonCount, ops, halfFrozen>>
  BY DEF StopCancels, Counters
<1>2. call' \in Calls /\ call'.pc = "idle" /\ call'.pc \notin Holding
  <2>1. 0 \in 0..2
    OBVIOUS
  <2> QED
    BY <1>1, <2>1 DEF NoCall, Calls, Holding
<1>3. lock = "api" /\ ~prep.requested /\ UNCHANGED <<OpRunning, TransitionActive>>
  BY <1>1, CallFacts DEF Holding, OpRunning, TransitionActive
<1>4. CallersOwn' /\ pref = FALSE
  BY <1>1, <1>2, <1>3, CallTyped DEF SeasonInv, CallersOwn, EngineKnown
<1>5. Frozen' /\ EngineKnown' /\ PrepAlone'
  BY <1>1, <1>2, <1>3, <1>4, NoOrdersFacts DEF SeasonInv, Frozen, EngineKnown, PrepAlone
<1> QED
  BY <1>1, <1>2, <1>3, <1>4, <1>5, CallTyped, NoOrdersFacts, KeptStep DEF Books

\* The reset task.
LEMMA ResetPausesStep == ASSUME SeasonInv, ResetPauses PROVE SeasonStepped
<1>1. /\ reset = "pause" /\ lock = "free" /\ pref' = FALSE /\ running' = FALSE
      /\ book' = NoOrders(book) /\ reset' = "archive"
      /\ UNCHANGED <<op, call, prep, lock, tick, seasonCount, ops, halfFrozen>>
  BY DEF ResetPauses, Counters
<1>2. /\ OpRunning /\ op.kind = "reset" /\ ~TransitionActive /\ ~prep.requested
      /\ UNCHANGED <<OpRunning, TransitionActive>>
  BY <1>1 DEF SeasonInv, CallersOwn, PrepAlone, OpRunning, TransitionActive
<1>3. call.pc \in {"idle"}
  BY <1>1, <1>2, CallTyped DEF SeasonInv, CallersOwn, Calls, Holding
<1>4. CallersOwn' /\ Frozen' /\ EngineKnown' /\ PrepAlone'
  BY <1>1, <1>2, <1>3 DEF SeasonInv, CallersOwn, Frozen, EngineKnown, PrepAlone, Holding
<1> QED
  BY <1>1, <1>2, <1>4, CallTyped, NoOrdersFacts, KeptStep

LEMMA ResetArchivesStep == ASSUME SeasonInv, ResetArchives PROVE SeasonStepped
<1>1. /\ reset = "archive" /\ lock = "free" /\ pref' = FALSE /\ book' = NoBook /\ reset' = "done"
      /\ UNCHANGED <<running, op, call, prep, lock, tick, seasonCount, ops, halfFrozen>>
  BY DEF ResetArchives, Counters
<1>2. /\ OpRunning /\ op.kind = "reset" /\ ~TransitionActive /\ ~prep.requested
      /\ UNCHANGED <<OpRunning, TransitionActive>>
  BY <1>1 DEF SeasonInv, CallersOwn, PrepAlone, OpRunning, TransitionActive
<1>3. call.pc = "idle" /\ ~running
  BY <1>1, <1>2, CallTyped DEF SeasonInv, CallersOwn, EngineKnown, Calls, Holding
<1>4. CallersOwn' /\ TransitionDrains' /\ Frozen' /\ EngineKnown' /\ PrepAlone'
  <2>1. CallersOwn' /\ Frozen'
    BY <1>1, <1>2, <1>3 DEF SeasonInv, CallersOwn, Frozen, Holding
  <2>2. TransitionDrains' /\ PrepAlone'
    BY <1>1, <1>2 DEF SeasonInv, TransitionDrains, PrepAlone
  <2>3. running = FALSE /\ call.pc \notin {"start_save", "stop", "freeze", "freeze_save", "unfreeze"}
    BY <1>3, CallTyped
  <2>4. EngineKnown'
    BY <1>1, <1>2, <2>3 DEF SeasonInv, EngineKnown
  <2> QED
    BY <2>1, <2>2, <2>4
<1>5. SeasonTypes'
  <2>1. book' \in Books /\ book'.season \in 0..MaxSeasons /\ book'.profile \in 0..2
    <3>1. 0 \in 0..seasonCount /\ 0 \in 0..2 /\ 0 \in 0..MaxSeasons
      BY SeasonTyped
    <3> QED
      BY <1>1, <3>1 DEF NoBook, Books
  <2>2. SeasonTypeOK'
    BY <1>1, <2>1 DEF SeasonInv, SeasonTypes, SeasonTypeOK
  <2> QED
    BY <1>1, <2>1, <2>2 DEF SeasonInv, SeasonTypes, Books, Operations
<1>6. RestoreStep
  BY <1>2 DEF RestoreStep
<1> QED
  BY <1>4, <1>5, <1>6 DEF SeasonInv, SeasonStepped

\* The operation is reported as ended: what it owned is free, the rest is left alone.
LEMMA EndsOpStep ==
    ASSUME SeasonInv, OpRunning, op.kind # "profile_transition",
           NEW s \in {"completed", "failed"}, op' = [op EXCEPT !.state = s],
           UNCHANGED <<book, prep, tick, seasonCount, ops, halfFrozen>>,
           lock' \in {"free", "api", "beat"}, lock' = "beat" <=> lock = "beat",
           lock = "beat" => UNCHANGED running,
           call' \in Calls, reset' = "idle", running' \in BOOLEAN, pref' \in BOOLEAN,
           call'.pc \in {"idle", "stop"}, lock' = "api" <=> call'.pc \in Holding,
           EngineKnown'
    PROVE  SeasonStepped
<1>1. /\ op' \in Operations
      /\ op'.kind = op.kind /\ op'.state = s
  BY DEF SeasonInv, SeasonTypes, Operations
<1>2. ~TransitionActive /\ ~TransitionActive' /\ ~OpRunning'
  BY <1>1 DEF TransitionActive, OpRunning
<1>3. SeasonTypes'
  <2>1. SeasonTypeOK'
    BY <1>1 DEF SeasonInv, SeasonTypes, SeasonTypeOK
  <2> QED
    BY <1>1, <2>1 DEF SeasonInv, SeasonTypes, Calls, Operations, Books
<1>4. CallersOwn' /\ Frozen'
  BY <1>1, <1>2 DEF SeasonInv, CallersOwn, Frozen
<1>5. TransitionDrains'
  BY <1>1, <1>2 DEF SeasonInv, TransitionDrains
<1>6. PrepAlone'
  BY <1>2 DEF SeasonInv, PrepAlone
<1> QED
  BY <1>2, <1>3, <1>4, <1>5, <1>6 DEF SeasonInv, SeasonStepped, RestoreStep

LEMMA SetupInitializesStep == ASSUME SeasonInv, SetupInitializes PROVE SeasonStepped
<1>1. /\ call.pc = "setup" /\ lock = "free" /\ seasonCount' = seasonCount + 1 /\ lock' = "api"
      /\ book' = [NoBook EXCEPT !.season = seasonCount + 1, !.profile = call.target]
      /\ call' = [call EXCEPT !.pc = "setup_stop"]
      /\ UNCHANGED <<running, pref, op, reset, prep, tick, ops, halfFrozen>>
  BY DEF SetupInitializes
<1>2. /\ OpRunning /\ op.kind = "setup" /\ ~TransitionActive /\ ~prep.requested /\ reset = "idle"
      /\ UNCHANGED <<OpRunning, TransitionActive>> /\ seasonCount < MaxSeasons
  BY <1>1, CallFacts DEF SeasonInv, CallersOwn, OpRunning, TransitionActive
<1>3. call' \in Calls /\ call'.pc = "setup_stop" /\ call.target \in 0..2
  BY <1>1, CallTyped DEF Calls, Holding
<1>4. seasonCount' \in Nat /\ seasonCount' <= MaxSeasons /\ seasonCount <= seasonCount' /\ seasonCount' # 0
  BY <1>1, <1>2, SeasonTyped
<1>5. /\ book' \in Books'
      /\ book'.season # 0
  <2>1. book' = [season |-> seasonCount + 1, profile |-> call.target, locked |-> FALSE,
                 buys |-> FALSE, sells |-> FALSE, held |-> FALSE]
    BY <1>1 DEF NoBook
  <2>2. seasonCount + 1 \in 0..seasonCount' /\ seasonCount + 1 # 0
    BY <1>1, <1>4, SeasonTyped
  <2> QED
    BY <1>3, <2>1, <2>2 DEF Operations, Books
<1>6. SeasonTypes'
  <2>1. op.source \in 0..seasonCount'
    BY <1>4, SeasonTyped DEF SeasonInv, SeasonTypes, Operations
  <2>2. SeasonTypeOK'
    <3>1. book'.season \in 0..MaxSeasons /\ book'.profile \in 0..2
      BY <1>4, <1>5, SeasonTyped DEF Operations, Books
    <3> QED
      BY <1>1, <3>1 DEF SeasonInv, SeasonTypes, SeasonTypeOK
  <2>3. seasonCount' \in 0..MaxSeasons
    BY <1>4, SeasonTyped
  <2> QED
    BY <1>1, <1>3, <1>5, <2>1, <2>2, <2>3 DEF SeasonInv, SeasonTypes, Calls, Operations
<1>7. CallersOwn'
  BY <1>1, <1>2, <1>3 DEF SeasonInv, CallersOwn, Holding
<1>8. TransitionDrains' /\ Frozen'
  BY <1>1, <1>2 DEF SeasonInv, TransitionDrains, Frozen
<1>9. EngineKnown'
  BY <1>1, <1>2, <1>3, <1>5 DEF SeasonInv, EngineKnown
<1>10. PrepAlone'
  BY <1>1, <1>2 DEF SeasonInv, PrepAlone
<1>11. RestoreStep
  BY <1>2 DEF RestoreStep
<1> QED
  BY <1>6, <1>7, <1>8, <1>9, <1>10, <1>11 DEF SeasonInv, SeasonStepped

LEMMA NoCallFacts == NoCall \in Calls /\ NoCall.pc = "idle" /\ NoCall.pc \notin Holding
<1>1. 0 \in 0..2
  OBVIOUS
<1> QED
  BY <1>1 DEF NoCall, Calls, Holding

LEMMA ResumeFailsStep == ASSUME SeasonInv, ResumeFails PROVE SeasonStepped
<1>1. /\ call.pc = "start_save" /\ lock' = "free" /\ running' = FALSE /\ pref' = FALSE
      /\ op' = [op EXCEPT !.state = "failed"] /\ call' = NoCall
      /\ UNCHANGED <<book, reset, prep, seasonCount, ops, halfFrozen, tick>>
  BY DEF ResumeFails
<1>2. /\ OpRunning /\ op.kind = "start" /\ ~prep.requested /\ reset = "idle" /\ lock = "api"
  BY <1>1, CallFacts DEF SeasonInv, CallersOwn, Holding
<1>3. EngineKnown'
  BY <1>1, <1>2, NoCallFacts DEF SeasonInv, EngineKnown
<1> QED
  BY <1>1, <1>2, <1>3, NoCallFacts, EndsOpStep

LEMMA CallCompletesStep == ASSUME SeasonInv, CallCompletes PROVE SeasonStepped
<1>1. /\ call.pc = "done"
      /\ op' = [op EXCEPT !.state = "completed"] /\ call' = NoCall
      /\ UNCHANGED <<book, running, pref, lock, reset, prep, seasonCount, ops, halfFrozen, tick>>
  BY DEF CallCompletes, Counters
<1>2. /\ OpRunning /\ op.kind # "profile_transition" /\ ~prep.requested /\ reset = "idle"
      /\ lock # "api" /\ ~TransitionActive /\ ~TransitionActive'
  BY <1>1, CallFacts DEF SeasonInv, CallersOwn, Holding, TransitionActive, OpRunning
<1>3. EngineKnown'
  BY <1>1, <1>2, NoCallFacts DEF SeasonInv, EngineKnown
<1> QED
  BY <1>1, <1>2, <1>3, NoCallFacts, CallTyped, EndsOpStep

LEMMA ResetFailsStep == ASSUME SeasonInv, ResetFails PROVE SeasonStepped
<1>1. /\ reset \in {"pause", "archive"}
      /\ op' = [op EXCEPT !.state = "failed"] /\ reset' = "idle"
      /\ \/ UNCHANGED <<running, pref>>
         \/ lock = "free" /\ running' = FALSE /\ pref' = FALSE
      /\ UNCHANGED <<book, call, prep, lock, seasonCount, ops, halfFrozen, tick>>
  BY DEF ResetFails
<1>2. /\ OpRunning /\ op.kind = "reset" /\ ~prep.requested /\ ~TransitionActive
      /\ op'.kind = "reset" /\ ~TransitionActive'
  BY <1>1 DEF SeasonInv, SeasonTypes, CallersOwn, PrepAlone, TransitionActive, OpRunning
<1>3. call.pc \in {"idle", "stop"}
  BY <1>1, <1>2, CallTyped DEF SeasonInv, CallersOwn, Calls, Holding
<1>4. lock = "api" <=> call.pc \in Holding
  BY DEF SeasonInv, CallersOwn
<1>5. EngineKnown'
  <2>1. CASE UNCHANGED <<running, pref>>
    BY <1>1, <1>2, <2>1 DEF SeasonInv, EngineKnown
  <2>2. CASE lock = "free" /\ running' = FALSE /\ pref' = FALSE
    <3>1. call.pc = "idle"
      BY <1>3, <1>4, <2>2 DEF Holding
    <3> QED
      BY <1>1, <1>2, <2>2, <3>1 DEF SeasonInv, EngineKnown
  <2> QED
    BY <1>1, <2>1, <2>2
<1>6. running' \in BOOLEAN /\ pref' \in BOOLEAN /\ (lock = "beat" => UNCHANGED running)
  BY <1>1, CallTyped
<1> QED
  BY <1>1, <1>2, <1>3, <1>4, <1>5, <1>6, CallTyped, EndsOpStep

LEMMA ResetCompletesStep == ASSUME SeasonInv, ResetCompletes PROVE SeasonStepped
<1>1. /\ reset = "done" /\ op' = [op EXCEPT !.state = "completed"] /\ reset' = "idle"
      /\ UNCHANGED <<book, running, pref, call, prep, lock, seasonCount, ops, halfFrozen, tick>>
  BY DEF ResetCompletes, Counters
<1>2. /\ OpRunning /\ op.kind = "reset" /\ ~prep.requested /\ ~TransitionActive
      /\ op'.kind = "reset" /\ ~TransitionActive'
  BY <1>1 DEF SeasonInv, SeasonTypes, CallersOwn, PrepAlone, TransitionActive, OpRunning
<1>3. call.pc \in {"idle", "stop"}
  BY <1>1, <1>2, CallTyped DEF SeasonInv, CallersOwn, Calls, Holding
<1>4. lock = "api" <=> call.pc \in Holding
  BY DEF SeasonInv, CallersOwn
<1>5. EngineKnown'
  BY <1>1, <1>2 DEF SeasonInv, EngineKnown
<1> QED
  BY <1>1, <1>2, <1>3, <1>4, <1>5, CallTyped, EndsOpStep

\* A profile change.
LEMMA ReconfigureStep ==
    ASSUME SeasonInv, NEW t \in {1, 2}, ReconfigureUnstarted(t) PROVE SeasonStepped
<1>1. /\ ~OpRunning /\ book' = [book EXCEPT !.profile = t]
      /\ UNCHANGED <<running, pref, op, call, reset, prep, lock, tick, seasonCount, ops, halfFrozen>>
  BY DEF ReconfigureUnstarted, Counters
<1>2. /\ book' \in Books /\ book'.season = book.season
      /\ book'.buys = book.buys /\ book'.sells = book.sells
  <2>1. t \in 0..2
    OBVIOUS
  <2> QED
    BY <1>1, <2>1, CallTyped DEF Books
<1>3. ~TransitionActive /\ UNCHANGED <<OpRunning, TransitionActive>>
  BY <1>1 DEF OpRunning, TransitionActive
<1>4. CallersOwn' /\ Frozen'
  BY <1>1, <1>2, <1>3 DEF SeasonInv, CallersOwn, Frozen
<1>5. EngineKnown' /\ PrepAlone'
  BY <1>1, <1>2, <1>3 DEF SeasonInv, EngineKnown, PrepAlone
<1> QED
  BY <1>1, <1>2, <1>3, <1>4, <1>5, CallTyped, KeptStep

LEMMA TransitionWantedStep ==
    ASSUME SeasonInv, NEW t \in {1, 2}, TransitionWanted(t) PROVE SeasonStepped
<1>1. /\ ~OpRunning /\ call.pc = "idle" /\ ~prep.requested /\ book.season # 0
      /\ call' = [NoCall EXCEPT !.pc = "transition", !.target = t]
      /\ UNCHANGED <<book, running, pref, op, reset, prep, lock, tick, seasonCount, ops, halfFrozen>>
  BY DEF TransitionWanted, ApiOpen, Counters
<1>2. call' \in Calls /\ call'.pc = "transition"
  <2>1. call' = [pc |-> "transition", target |-> t, prev |-> FALSE]
    BY <1>1 DEF NoCall
  <2>2. t \in 0..2
    OBVIOUS
  <2> QED
    BY <2>1, <2>2 DEF Calls, Holding
<1>3. ~TransitionActive /\ UNCHANGED <<OpRunning, TransitionActive>>
  BY <1>1 DEF OpRunning, TransitionActive
<1>4. CallersOwn' /\ Frozen'
  BY <1>1, <1>2, <1>3 DEF SeasonInv, CallersOwn, Frozen, Holding
<1>5. EngineKnown' /\ PrepAlone'
  BY <1>1, <1>2, <1>3 DEF SeasonInv, EngineKnown, PrepAlone
<1> QED
  BY <1>1, <1>2, <1>3, <1>4, <1>5, CallTyped, KeptStep DEF Books

LEMMA TransitionBeginsStep ==
    ASSUME SeasonInv, NEW now \in BOOLEAN, TransitionBegins(now) PROVE SeasonStepped
<1>1. /\ call.pc = "transition" /\ lock = "free" /\ ~OpRunning
      /\ op' = [NoOp EXCEPT !.kind = "profile_transition", !.state = "running",
                            !.source = book.season, !.target = call.target,
                            !.prev = running, !.now = now]
      /\ ops' = ops + 1 /\ lock' = "api"
      /\ call' = [call EXCEPT !.pc = "freeze", !.prev = running]
      /\ UNCHANGED <<book, running, pref, reset, prep, seasonCount, halfFrozen, tick>>
  BY DEF TransitionBegins
<1>2. /\ ~prep.requested /\ reset = "idle" /\ ~TransitionActive
  BY <1>1, CallFacts DEF TransitionActive
<1>3. /\ call' \in Calls /\ call'.pc = "freeze" /\ call'.prev = running
  BY <1>1, CallTyped DEF Calls, Holding
<1>4. op' = [kind |-> "profile_transition", state |-> "running", source |-> book.season,
             target |-> call.target, prev |-> running, now |-> now, expired |-> FALSE, rolls |-> 0]
  BY <1>1 DEF NoOp
<1>5. OpRunning' /\ TransitionActive'
  BY <1>4 DEF OpRunning, TransitionActive
<1>6. SeasonTypes'
  <2>1. book.season \in 0..seasonCount /\ call.target \in 0..2 /\ running \in BOOLEAN /\ 0 \in Nat
    BY CallTyped DEF Calls, Books
  <2>2. op' \in Operations
    BY <1>4, <2>1 DEF Operations
  <2>3. SeasonTypeOK'
    BY <1>1, <1>4 DEF SeasonInv, SeasonTypes, SeasonTypeOK
  <2>4. ops' \in Nat
    BY <1>1, SeasonTyped
  <2> QED
    BY <1>1, <1>3, <2>2, <2>3, <2>4 DEF SeasonInv, SeasonTypes, Calls, Operations, Books
<1>7. CallersOwn'
  BY <1>1, <1>2, <1>3, <1>5 DEF SeasonInv, CallersOwn, Holding
<1>8. lock = "free" => running = pref
  BY <1>1, <1>2 DEF SeasonInv, EngineKnown
<1>9. TransitionDrains'
  <2>1. book.season # 0
    BY <1>1 DEF SeasonInv, CallersOwn
  <2>2. op'.rolls = 0 /\ op'.source = book.season /\ op'.state = "running" /\ lock' = "api"
    <3>1. op'.rolls = 0 /\ op'.source = book.season /\ op'.state = "running"
      BY <1>4, Zenon
    <3> QED
      BY <1>1, <3>1
  <2> QED
    BY <1>1, <2>1, <2>2 DEF TransitionDrains
<1>10. Frozen'
  BY <1>1, <1>3 DEF Frozen
<1>11. EngineKnown'
  BY <1>1, <1>2, <1>3, <1>4, <1>5, <1>8 DEF SeasonInv, EngineKnown
<1>12. PrepAlone' /\ RestoreStep
  BY <1>1, <1>2, <1>3 DEF SeasonInv, PrepAlone, RestoreStep
<1> QED
  BY <1>6, <1>7, <1>9, <1>10, <1>11, <1>12 DEF SeasonInv, SeasonStepped

LEMMA FreezeCancelsStep == ASSUME SeasonInv, FreezeCancels PROVE SeasonStepped
<1>1. /\ call.pc = "freeze" /\ book' = [book EXCEPT !.buys = FALSE]
      /\ call' = [call EXCEPT !.pc = "freeze_save"]
      /\ UNCHANGED <<running, pref, op, reset, prep, lock, tick, seasonCount, ops, halfFrozen>>
  BY DEF FreezeCancels, Counters
<1>2. /\ book' \in Books /\ book'.season = book.season /\ book'.profile = book.profile
      /\ ~book'.buys /\ book'.sells = book.sells
  BY <1>1, CallTyped DEF Books
<1>3. call' \in Calls /\ call'.pc = "freeze_save" /\ call'.prev = call.prev
  BY <1>1, CallTyped DEF Calls, Holding
<1>4. TransitionActive /\ UNCHANGED <<OpRunning, TransitionActive>> /\ ~prep.requested /\ lock = "api"
  BY <1>1, CallFacts DEF OpRunning, TransitionActive, Holding
<1>5. CallersOwn' /\ Frozen'
  BY <1>1, <1>2, <1>3, <1>4 DEF SeasonInv, CallersOwn, Frozen, Holding
<1>6. EngineKnown' /\ PrepAlone'
  BY <1>1, <1>2, <1>3, <1>4 DEF SeasonInv, EngineKnown, PrepAlone
<1> QED
  BY <1>1, <1>2, <1>3, <1>5, <1>6, CallTyped, KeptStep

LEMMA FreezeStopsStep == ASSUME SeasonInv, FreezeStops PROVE SeasonStepped
<1>1. /\ call.pc = "freeze_save" /\ pref' = FALSE /\ running' = FALSE /\ lock' = "free"
      /\ call' = NoCall
      /\ UNCHANGED <<book, op, reset, prep, tick, seasonCount, ops, halfFrozen>>
  BY DEF FreezeStops, Counters
<1>2. /\ TransitionActive /\ UNCHANGED <<OpRunning, TransitionActive>> /\ ~prep.requested /\ lock = "api"
      /\ reset = "idle"
  BY <1>1, CallFacts DEF OpRunning, TransitionActive, Holding
<1>3. CallersOwn'
  BY <1>1, <1>2, NoCallFacts DEF SeasonInv, CallersOwn
<1>4. Frozen'
  BY <1>1, <1>2 DEF SeasonInv, Frozen
<1>5. EngineKnown' /\ PrepAlone'
  BY <1>1, <1>2, NoCallFacts DEF SeasonInv, EngineKnown, PrepAlone
<1> QED
  BY <1>1, <1>2, <1>3, <1>4, <1>5, NoCallFacts, CallTyped, KeptStep DEF Books

LEMMA FreezeFailsStep == ASSUME SeasonInv, FreezeFails PROVE SeasonStepped
<1>1. /\ call.pc \in {"freeze", "freeze_save"} /\ halfFrozen' = TRUE /\ lock' = "free"
      /\ running' = call.prev /\ call' = [call EXCEPT !.pc = "unfreeze"]
      /\ UNCHANGED <<book, pref, op, reset, prep, seasonCount, ops, tick>>
  BY DEF FreezeFails
<1>2. /\ TransitionActive /\ UNCHANGED <<OpRunning, TransitionActive>> /\ ~prep.requested /\ lock = "api"
      /\ reset = "idle"
  BY <1>1, CallFacts DEF OpRunning, TransitionActive, Holding
<1>3. call' \in Calls /\ call'.pc = "unfreeze" /\ call'.prev = call.prev /\ call.prev \in BOOLEAN
  BY <1>1, CallTyped DEF Calls
<1>4. SeasonTypes'
  <2>1. SeasonTypeOK'
    BY <1>1, <1>3 DEF SeasonInv, SeasonTypes, SeasonTypeOK
  <2> QED
    BY <1>1, <1>3, <2>1 DEF SeasonInv, SeasonTypes, Calls, Operations, Books
<1>5. CallersOwn'
  BY <1>1, <1>2, <1>3 DEF SeasonInv, CallersOwn, TransitionActive, Holding
<1>6. TransitionDrains' /\ Frozen'
  BY <1>1, <1>2 DEF SeasonInv, TransitionDrains, Frozen
<1>7. EngineKnown'
  <2>1. running = pref /\ running = call.prev /\ call.prev = op.prev
    BY <1>1, <1>2 DEF SeasonInv, EngineKnown
  <2> QED
    BY <1>1, <1>2, <1>3, <2>1 DEF SeasonInv, EngineKnown
<1>8. PrepAlone' /\ RestoreStep
  BY <1>1, <1>2 DEF SeasonInv, PrepAlone, RestoreStep, TransitionActive, OpRunning
<1> QED
  BY <1>4, <1>5, <1>6, <1>7, <1>8 DEF SeasonInv, SeasonStepped

LEMMA FreezeFailedStep == ASSUME SeasonInv, FreezeFailed PROVE SeasonStepped
<1>1. /\ call.pc = "unfreeze" /\ pref' = call.prev /\ op' = [op EXCEPT !.state = "failed"]
      /\ call' = NoCall
      /\ UNCHANGED <<book, running, reset, prep, lock, tick, seasonCount, ops, halfFrozen>>
  BY DEF FreezeFailed, Counters
<1>2. /\ halfFrozen /\ op.kind = "profile_transition" /\ ~prep.requested /\ lock # "api"
      /\ reset = "idle" /\ call.prev = op.prev /\ running = call.prev
  BY <1>1, CallFacts DEF SeasonInv, CallersOwn, EngineKnown, Holding
<1>3. /\ op' \in Operations
      /\ op'.kind = op.kind /\ op'.state = "failed"
  BY <1>1 DEF SeasonInv, SeasonTypes, Operations
<1>4. ~OpRunning' /\ ~TransitionActive'
  BY <1>3 DEF OpRunning, TransitionActive
<1>5. SeasonTypes'
  <2>1. call.prev \in BOOLEAN
    BY CallTyped DEF Calls
  <2>2. SeasonTypeOK'
    BY <1>1, <1>3, <2>1 DEF SeasonInv, SeasonTypes, SeasonTypeOK
  <2> QED
    BY <1>1, <1>3, <2>2, NoCallFacts DEF SeasonInv, SeasonTypes, Calls, Operations, Books
<1>6. CallersOwn'
  BY <1>1, <1>2, NoCallFacts DEF SeasonInv, CallersOwn
<1>7. TransitionDrains' /\ Frozen'
  <2>1. lock = "beat" => tick.op <= ops /\ book.season # 0
    BY DEF SeasonInv, TransitionDrains
  <2> QED
    BY <1>1, <1>2, <1>3, <1>4, <2>1 DEF SeasonInv, TransitionDrains, Frozen
<1>8. EngineKnown'
  <2>1. pref' = running /\ running' = running
    BY <1>1, <1>2
  <2>2. lock = "beat" => running = tick.prev
    <3>1. CASE TransitionActive
      BY <1>2, <3>1 DEF SeasonInv, TransitionDrains
    <3>2. CASE ~TransitionActive
      BY <3>2 DEF SeasonInv, EngineKnown
    <3> QED
      BY <3>1, <3>2
  <2>3. reset' = "idle" /\ call'.pc = "idle" /\ ~prep'.requested /\ lock' = lock /\ tick' = tick
        /\ book' = book
    BY <1>1, <1>2, NoCallFacts
  <2>4. running' \/ pref' => book'.season # 0
    BY <2>1, <2>3 DEF SeasonInv, EngineKnown
  <2>5. lock' = "beat" => pref' = tick'.prev /\ running' = tick'.prev
    BY <2>1, <2>2, <2>3
  <2> QED
    BY <2>1, <2>3, <2>4, <2>5 DEF EngineKnown
<1>9. PrepAlone' /\ RestoreStep
  BY <1>1, <1>2, <1>3, <1>4, NoCallFacts DEF SeasonInv, PrepAlone, RestoreStep
<1> QED
  BY <1>5, <1>6, <1>7, <1>8, <1>9 DEF SeasonInv, SeasonStepped

\* The same change asked to end at once, and its settlement window closing.
LEMMA TransitionMarkedStep == ASSUME SeasonInv, EndNow \/ SettlementExpires PROVE SeasonStepped
<1>1. /\ TransitionActive
      /\ op' = [op EXCEPT !.now = TRUE] \/ op' = [op EXCEPT !.expired = TRUE]
      /\ UNCHANGED <<book, running, pref, call, reset, prep, lock, tick, seasonCount, ops, halfFrozen>>
  BY DEF EndNow, SettlementExpires, Counters
<1>2. /\ op' \in Operations
      /\ op'.kind = op.kind /\ op'.state = op.state /\ op'.source = op.source
      /\ op'.target = op.target /\ op'.prev = op.prev /\ op'.rolls = op.rolls
  BY <1>1 DEF SeasonInv, SeasonTypes, Operations
<1>3. UNCHANGED <<OpRunning, TransitionActive>>
  BY <1>2 DEF OpRunning, TransitionActive
<1>4. SeasonTypes'
  <2>1. SeasonTypeOK'
    BY <1>1, <1>2 DEF SeasonInv, SeasonTypes, SeasonTypeOK
  <2> QED
    BY <1>1, <1>2, <2>1 DEF SeasonInv, SeasonTypes, Operations, Books
<1>5. CallersOwn' /\ Frozen'
  BY <1>1, <1>2, <1>3 DEF SeasonInv, CallersOwn, Frozen
<1>6. TransitionDrains'
  BY <1>1, <1>2, <1>3 DEF SeasonInv, TransitionDrains
<1>7. EngineKnown'
  BY <1>1, <1>2, <1>3 DEF SeasonInv, EngineKnown
<1>8. PrepAlone'
  BY <1>1, <1>3 DEF SeasonInv, PrepAlone
<1>9. RestoreStep
  BY <1>1, <1>2 DEF RestoreStep, TransitionActive, OpRunning
<1> QED
  BY <1>4, <1>5, <1>6, <1>7, <1>8, <1>9 DEF SeasonInv, SeasonStepped

\* The boundary.
LEMMA TickRollsStep == ASSUME SeasonInv, NEW d \in BOOLEAN, TickRolls(d) PROVE SeasonStepped
<1>1. /\ lock = "free" /\ TransitionActive /\ op.source = book.season /\ seasonCount < MaxSeasons
      /\ book' = [NoBook EXCEPT !.season = seasonCount + 1, !.profile = op.target, !.locked = op.prev]
      /\ seasonCount' = seasonCount + 1 /\ pref' = op.prev
      /\ op' = [op EXCEPT !.rolls = op.rolls + 1]
      /\ lock' = "beat" /\ tick' = [op |-> ops, prev |-> op.prev]
      /\ UNCHANGED <<running, call, reset, prep, ops, halfFrozen>>
  BY DEF TickRolls
<1>2. /\ seasonCount' \in Nat /\ seasonCount' <= MaxSeasons /\ seasonCount <= seasonCount'
      /\ seasonCount' # 0
  BY <1>1, SeasonTyped
<1>3. /\ op.target \in 0..2 /\ op.prev \in BOOLEAN /\ op.source \in 0..seasonCount /\ op.rolls \in Nat
      /\ op.rolls = 0
  BY <1>1 DEF SeasonInv, SeasonTypes, TransitionDrains, Operations
<1>4. /\ book' \in Books'
      /\ book'.season = seasonCount + 1 /\ book'.season # 0 /\ book'.profile = op.target
      /\ ~book'.buys /\ ~book'.sells
  <2>1. book' = [season |-> seasonCount + 1, profile |-> op.target, locked |-> op.prev,
                 buys |-> FALSE, sells |-> FALSE, held |-> FALSE]
    BY <1>1 DEF NoBook
  <2>2. seasonCount + 1 \in 0..seasonCount' /\ seasonCount + 1 # 0
    BY <1>1, <1>2, SeasonTyped
  <2> QED
    BY <1>3, <2>1, <2>2 DEF Operations, Books
<1>5. /\ op' \in Operations'
      /\ op'.kind = op.kind /\ op'.state = op.state /\ op'.source = op.source
      /\ op'.target = op.target /\ op'.prev = op.prev /\ op'.rolls = 1
  <2>1. op.source \in 0..seasonCount' /\ op.rolls + 1 = 1 /\ 1 \in Nat
    BY <1>2, <1>3, SeasonTyped
  <2>2. op \in Operations'
    BY <2>1 DEF SeasonInv, SeasonTypes, Operations
  <2>3. op' = [op EXCEPT !.rolls = 1]
    BY <1>1, <2>1
  <2> QED
    BY <2>1, <2>2, <2>3 DEF Operations
<1>6. OpRunning /\ UNCHANGED <<OpRunning, TransitionActive>>
  BY <1>1, <1>5 DEF OpRunning, TransitionActive
<1>7. op.source # book'.season /\ ops \in Nat /\ op.kind = "profile_transition"
  <2>1. op.source # seasonCount + 1
    BY <1>3, SeasonTyped
  <2> QED
    BY <1>1, <1>4, <2>1, SeasonTyped DEF TransitionActive
<1>8. ~prep.requested /\ reset = "idle"
  BY <1>6, <1>7 DEF SeasonInv, CallersOwn, PrepAlone
<1>9. SeasonTypes'
  <2>1. SeasonTypeOK'
    <3>1. book'.season \in 0..MaxSeasons /\ book'.profile \in 0..2
      BY <1>2, <1>4, SeasonTyped DEF Operations, Books
    <3> QED
      BY <1>1, <1>3, <1>5, <3>1 DEF SeasonInv, SeasonTypes, SeasonTypeOK
  <2>2. tick' \in [op : Nat, prev : BOOLEAN]
    BY <1>1, <1>3, <1>7
  <2>3. seasonCount' \in 0..MaxSeasons
    BY <1>2, SeasonTyped
  <2> QED
    BY <1>1, <1>4, <1>5, <2>1, <2>2, <2>3 DEF SeasonInv, SeasonTypes
<1>10. CallersOwn'
  <2>1. call.pc \notin {"setup", "setup_stop", "start", "start_save", "done", "transition"}
    BY <1>6, <1>7 DEF SeasonInv, CallersOwn
  <2>2. call.pc \notin Holding
    BY <1>1 DEF SeasonInv, CallersOwn
  <2> QED
    BY <1>1, <1>5, <1>8, <2>1, <2>2 DEF SeasonInv, CallersOwn, Holding
<1>11. TransitionDrains'
  <2>1. tick'.op = ops' /\ tick'.prev = op.prev /\ lock' = "beat" /\ ops' = ops
    BY <1>1
  <2>2. op'.state = "running"
    BY <1>1, <1>5 DEF TransitionActive, OpRunning
  <2> QED
    BY <1>1, <1>4, <1>5, <1>6, <1>7, <2>1, <2>2 DEF TransitionDrains
<1>12. Frozen'
  <2>1. call'.pc # "freeze_save" /\ lock' # "free"
    BY <1>1 DEF SeasonInv, CallersOwn, Holding
  <2> QED
    BY <2>1 DEF Frozen
<1>13. EngineKnown'
  <2>1. tick'.prev = op.prev /\ pref' = op.prev /\ lock' = "beat" /\ reset' = "idle" /\ ~prep'.requested
    BY <1>1, <1>8
  <2>2. call.pc \notin {"start_save", "stop", "freeze", "freeze_save"}
    BY <1>1 DEF SeasonInv, CallersOwn, Holding
  <2>3. call.pc = "unfreeze" => call.prev = op.prev /\ running = call.prev
    BY DEF SeasonInv, EngineKnown
  <2> QED
    BY <1>1, <1>4, <1>5, <1>6, <2>1, <2>2, <2>3 DEF EngineKnown
<1>14. PrepAlone' /\ RestoreStep
  <2>1. op'.state = "running"
    BY <1>1, <1>5 DEF TransitionActive, OpRunning
  <2> QED
    BY <1>1, <1>6, <1>8, <2>1 DEF SeasonInv, PrepAlone, RestoreStep
<1> QED
  BY <1>9, <1>10, <1>11, <1>12, <1>13, <1>14 DEF SeasonInv, SeasonStepped

LEMMA TickCompletesStep == ASSUME SeasonInv, TickCompletes PROVE SeasonStepped
<1>1. /\ lock = "beat" /\ running' = tick.prev /\ lock' = "free" /\ tick' = NoTick
      /\ op' = IF tick.op = ops THEN [op EXCEPT !.state = "completed"] ELSE op
      /\ UNCHANGED <<book, pref, call, reset, prep, seasonCount, ops, halfFrozen>>
  BY DEF TickCompletes
<1>2. /\ op' \in Operations
      /\ op'.kind = op.kind /\ op'.prev = op.prev /\ op'.rolls = op.rolls
      /\ op'.state = IF tick.op = ops THEN "completed" ELSE op.state
  BY <1>1 DEF SeasonInv, SeasonTypes, Operations
<1>3. /\ tick.prev \in BOOLEAN /\ NoTick \in [op : Nat, prev : BOOLEAN]
  BY DEF SeasonInv, SeasonTypes, NoTick
<1>4. /\ tick.op = ops => op.kind = "profile_transition"
      /\ TransitionActive => tick.op = ops /\ tick.prev = op.prev /\ op.rolls = 1
      /\ ~TransitionActive => halfFrozen
      /\ book.season # 0 /\ pref = tick.prev
  BY <1>1 DEF SeasonInv, TransitionDrains, EngineKnown
<1>5. ~TransitionActive'
  BY <1>2, <1>4 DEF TransitionActive, OpRunning
<1>6. tick.op # ops => UNCHANGED OpRunning
  BY <1>2 DEF OpRunning
<1>7. SeasonTypes'
  <2>1. SeasonTypeOK'
    BY <1>1, <1>2, <1>3 DEF SeasonInv, SeasonTypes, SeasonTypeOK
  <2> QED
    BY <1>1, <1>2, <1>3, <2>1 DEF SeasonInv, SeasonTypes, Operations, Books
<1>8. CallersOwn'
  <2>1. call.pc \notin Holding
    BY <1>1 DEF SeasonInv, CallersOwn
  <2>2. CASE tick.op = ops
    <3>1. /\ reset = "idle" /\ ~OpRunning'
          /\ call.pc \notin {"setup", "setup_stop", "start", "start_save", "done"}
      BY <1>2, <1>4, <2>2 DEF SeasonInv, CallersOwn, OpRunning
    <3> QED
      BY <1>1, <1>2, <2>1, <3>1 DEF SeasonInv, CallersOwn, Holding
  <2>3. CASE tick.op # ops
    BY <1>1, <1>2, <1>6, <2>1, <2>3 DEF SeasonInv, CallersOwn, Holding
  <2> QED
    BY <2>2, <2>3
<1>9. TransitionDrains'
  <2>1. ~halfFrozen => TransitionActive /\ op'.state = "completed" /\ op'.rolls = 1
    BY <1>2, <1>4
  <2> QED
    BY <1>1, <1>5, <2>1 DEF TransitionDrains
<1>10. Frozen'
  BY <1>5 DEF Frozen
<1>11. EngineKnown'
  <2>1. running' = pref' /\ book'.season # 0 /\ lock' = "free" /\ reset' = reset /\ reset # "archive"
    BY <1>1, <1>4 DEF SeasonInv, EngineKnown
  <2>2. call.pc \notin {"freeze", "freeze_save", "start_save", "stop"}
    BY <1>1 DEF SeasonInv, CallersOwn, Holding
  <2>3. call.pc = "unfreeze" => call.prev = op'.prev /\ running' = call.prev
    <3>1. call.pc = "unfreeze" => call.prev = op.prev /\ running = call.prev
      BY DEF SeasonInv, EngineKnown
    <3>2. ~TransitionActive => running = tick.prev
      BY <1>1 DEF SeasonInv, EngineKnown
    <3> QED
      BY <1>1, <1>2, <1>4, <3>1, <3>2
  <2>4. prep.requested => pref = prep.prev
    BY DEF SeasonInv, EngineKnown
  <2> QED
    BY <1>1, <2>1, <2>2, <2>3, <2>4 DEF EngineKnown
<1>12. PrepAlone'
  <2>1. OpRunning' => OpRunning
    BY <1>2 DEF OpRunning
  <2>2. ~(prep.requested /\ prep.pc # "settle")
    BY <1>1 DEF SeasonInv, PrepAlone
  <2> QED
    BY <1>1, <2>1, <2>2 DEF SeasonInv, PrepAlone
<1>13. RestoreStep
  BY <1>1, <1>4 DEF RestoreStep
<1> QED
  BY <1>7, <1>8, <1>9, <1>10, <1>11, <1>12, <1>13 DEF SeasonInv, SeasonStepped

\* The upgrade preparation.
LEMMA PrepBeginsStep == ASSUME SeasonInv, PrepBegins PROVE SeasonStepped
<1>1. /\ call.pc = "idle" /\ ~prep.requested /\ prep.pc = "idle" /\ ~OpRunning
      /\ prep' = [state |-> "running", prev |-> running, requested |-> TRUE, pc |-> "settle"]
      /\ UNCHANGED <<book, running, pref, op, call, reset, lock, seasonCount, ops, halfFrozen, tick>>
  BY DEF PrepBegins
<1>2. prep' \in Preps /\ prep'.requested /\ prep'.pc = "settle" /\ prep'.state = "running" /\ prep'.prev = running
  BY <1>1, CallTyped DEF Preps
<1>3. /\ reset = "idle" /\ ~TransitionActive /\ UNCHANGED <<OpRunning, TransitionActive>>
  BY <1>1 DEF SeasonInv, CallersOwn, TransitionActive, OpRunning
<1>4. running = pref
  BY <1>1, <1>3 DEF SeasonInv, EngineKnown
<1>5. CallersOwn' /\ Frozen'
  BY <1>1, <1>3 DEF SeasonInv, CallersOwn, Frozen
<1>6. EngineKnown'
  BY <1>1, <1>2, <1>3, <1>4 DEF SeasonInv, EngineKnown
<1>7. PrepAlone'
  BY <1>1, <1>2, <1>3 DEF PrepAlone
<1> QED
  BY <1>1, <1>2, <1>5, <1>6, <1>7, CallTyped, KeptStep DEF Books

LEMMA PrepSettlesStep == ASSUME SeasonInv, PrepSettles PROVE SeasonStepped
<1>1. /\ prep.pc = "settle" /\ lock = "free" /\ running' = FALSE /\ book' = NoOrders(book)
      /\ prep' = [prep EXCEPT !.pc = "wait"]
      /\ UNCHANGED <<pref, op, call, reset, lock, tick, seasonCount, ops, halfFrozen>>
  BY DEF PrepSettles, Counters
<1>2. /\ prep' \in Preps /\ prep'.requested = prep.requested /\ prep'.pc = "wait"
      /\ prep'.state = prep.state /\ prep'.prev = prep.prev
  BY <1>1, CallTyped DEF Preps
<1>3. /\ prep.requested /\ prep.state = "running" /\ ~OpRunning /\ ~TransitionActive
      /\ call.pc = "idle" /\ reset = "idle"
      /\ UNCHANGED <<OpRunning, TransitionActive>>
  BY <1>1 DEF SeasonInv, PrepAlone, TransitionActive, OpRunning
<1>4. CallersOwn' /\ Frozen'
  BY <1>1, <1>3, NoOrdersFacts DEF SeasonInv, CallersOwn, Frozen
<1>5. EngineKnown'
  BY <1>1, <1>2, <1>3, NoOrdersFacts DEF SeasonInv, EngineKnown
<1>6. PrepAlone'
  BY <1>1, <1>2, <1>3, NoOrdersFacts DEF PrepAlone
<1> QED
  BY <1>1, <1>2, <1>3, <1>4, <1>5, <1>6, CallTyped, NoOrdersFacts, KeptStep

LEMMA PrepReadyStep == ASSUME SeasonInv, PrepReady PROVE SeasonStepped
<1>1. /\ prep.pc = "wait" /\ prep' = [prep EXCEPT !.state = "ready", !.pc = "idle"]
      /\ UNCHANGED <<book, running, pref, op, call, reset, lock, tick, seasonCount, ops, halfFrozen>>
  BY DEF PrepReady, Counters
<1>2. /\ prep' \in Preps /\ prep'.requested = prep.requested /\ prep'.pc = "idle"
      /\ prep'.state = "ready" /\ prep'.prev = prep.prev
  BY <1>1, CallTyped DEF Preps
<1>3. /\ prep.requested /\ ~OpRunning /\ call.pc = "idle" /\ reset = "idle"
      /\ ~running /\ ~book.buys /\ ~book.sells /\ lock # "beat"
      /\ UNCHANGED <<OpRunning, TransitionActive>>
  BY <1>1 DEF SeasonInv, PrepAlone, TransitionActive, OpRunning
<1>4. CallersOwn' /\ Frozen'
  BY <1>1, <1>3 DEF SeasonInv, CallersOwn, Frozen
<1>5. EngineKnown'
  BY <1>1, <1>2, <1>3 DEF SeasonInv, EngineKnown
<1>6. PrepAlone'
  BY <1>1, <1>2, <1>3 DEF PrepAlone
<1> QED
  BY <1>1, <1>2, <1>4, <1>5, <1>6, CallTyped, KeptStep DEF Books

LEMMA PrepGivenUpStep == ASSUME SeasonInv, PrepGivenUp PROVE SeasonStepped
<1>1. /\ lock = "free" /\ running' = (prep.prev /\ book.season # 0)
      /\ \/ prep.pc = "wait" /\ prep' = [NoPrep EXCEPT !.state = "failed"]
         \/ prep.requested /\ prep' = [NoPrep EXCEPT !.state = "cancelled"]
      /\ UNCHANGED <<book, pref, op, call, reset, lock, tick, seasonCount, ops, halfFrozen>>
  BY DEF PrepGivenUp, RestoredRunning, Counters
<1>2. /\ prep' \in Preps /\ ~prep'.requested /\ prep'.pc = "idle"
      /\ prep'.state \in {"failed", "cancelled"}
  <2>1. \E s \in {"failed", "cancelled"} : prep' = [state |-> s, prev |-> FALSE, requested |-> FALSE, pc |-> "idle"]
    BY <1>1 DEF NoPrep
  <2> QED
    BY <2>1 DEF Preps
<1>3. /\ prep.requested /\ ~OpRunning /\ ~TransitionActive /\ call.pc = "idle" /\ reset = "idle"
      /\ UNCHANGED <<OpRunning, TransitionActive>>
  BY <1>1 DEF SeasonInv, PrepAlone, TransitionActive, OpRunning
<1>4. running' = pref /\ running' \in BOOLEAN
  <2>1. pref = prep.prev /\ (pref => book.season # 0) /\ pref \in BOOLEAN
    BY <1>3, CallTyped DEF SeasonInv, EngineKnown
  <2> QED
    BY <1>1, <2>1
<1>5. CallersOwn' /\ Frozen'
  BY <1>1, <1>3 DEF SeasonInv, CallersOwn, Frozen
<1>6. EngineKnown'
  BY <1>1, <1>2, <1>3, <1>4 DEF SeasonInv, EngineKnown
<1>7. PrepAlone'
  BY <1>2 DEF PrepAlone
<1> QED
  BY <1>1, <1>2, <1>4, <1>5, <1>6, <1>7, CallTyped, KeptStep DEF Books

\* The process stops anywhere and the next one reconciles what it finds.
LEMMA RestartStep == ASSUME SeasonInv, ProcessRestarts PROVE SeasonStepped
<1>1. /\ running' = EngineAfterRestart /\ pref' = EngineAfterRestart
      /\ op' = IF ~OpRunning \/ Drains THEN op ELSE [op EXCEPT !.state = Reconciled]
      /\ \/ book' = NoOrders(book)
         \/ Drains /\ book' = [book EXCEPT !.buys = FALSE]
         \/ ~Drains /\ book' = book
      /\ prep' = IF prep.state \in {"running", "ready"}
                 THEN [NoPrep EXCEPT !.state = "completed"] ELSE prep
      /\ call' = NoCall /\ reset' = "idle" /\ lock' = "free" /\ tick' = NoTick
      /\ UNCHANGED <<seasonCount, ops, halfFrozen>>
  BY DEF ProcessRestarts
<1>2. Reconciled \in {"completed", "failed"}
  BY DEF Reconciled
<1>3. /\ op' \in Operations
      /\ op'.kind = op.kind /\ op'.prev = op.prev /\ op'.rolls = op.rolls /\ op'.source = op.source
      /\ op'.state = IF ~OpRunning \/ Drains THEN op.state ELSE Reconciled
  BY <1>1, <1>2 DEF SeasonInv, SeasonTypes, Operations
<1>4. /\ book' \in Books /\ book'.season = book.season
      /\ Drains => ~book'.buys
  BY <1>1, CallTyped, NoOrdersFacts DEF Books
<1>5. /\ prep' \in Preps /\ ~prep'.requested /\ prep'.state \notin {"running", "ready"} /\ prep'.pc = "idle"
  <2>1. CASE prep.state \in {"running", "ready"}
    BY <1>1, <2>1 DEF NoPrep, Preps
  <2>2. CASE prep.state \notin {"running", "ready"}
    <3>1. prep' = prep
      BY <1>1, <2>2
    <3>2. ~prep.requested /\ prep.pc = "idle"
      BY <2>2 DEF SeasonInv, PrepAlone
    <3> QED
      BY <2>2, <3>1, <3>2, CallTyped
  <2> QED
    BY <2>1, <2>2
<1>6. /\ EngineAfterRestart \in BOOLEAN
      /\ EngineAfterRestart => book.season # 0 /\ ~Drains
  BY DEF EngineAfterRestart
<1>7. TransitionActive' <=> Drains
  <2>1. CASE ~OpRunning \/ Drains
    BY <1>3, <2>1 DEF TransitionActive, OpRunning, Drains
  <2>2. CASE OpRunning /\ ~Drains
    BY <1>2, <1>3, <2>2 DEF TransitionActive, OpRunning
  <2> QED
    BY <2>1, <2>2
<1>8. Drains => TransitionActive /\ lock # "beat"
  <2>1. TransitionActive /\ lock = "beat" => Committed
    BY DEF SeasonInv, TransitionDrains, Committed
  <2> QED
    BY <2>1 DEF Drains
<1>9. TransitionActive /\ ~Drains =>
         lock = "beat" /\ op.rolls = 1 /\ Reconciled = "completed" /\ EngineAfterRestart = op.prev
  <2> HAVE TransitionActive /\ ~Drains
  <2>1. Committed
    BY DEF Drains
  <2>2. lock = "beat"
    BY <2>1 DEF SeasonInv, TransitionDrains, Committed
  <2>3. op.rolls = 1 /\ tick.prev = op.prev /\ book.season # 0 /\ op.kind = "profile_transition"
    BY <2>2 DEF SeasonInv, TransitionDrains, TransitionActive
  <2>4. pref = op.prev
    BY <2>2, <2>3 DEF SeasonInv, EngineKnown
  <2>5. Reconciled = "completed"
    BY <2>3 DEF Reconciled
  <2>6. pref \in BOOLEAN
    BY CallTyped
  <2>7. EngineAfterRestart = op.prev
    BY <2>3, <2>4, <2>6 DEF EngineAfterRestart
  <2> QED
    BY <2>2, <2>3, <2>5, <2>7
<1>10. SeasonTypes'
  <2>1. SeasonTypeOK'
    <3>1. book'.season \in 0..MaxSeasons /\ book'.profile \in 0..2
      BY <1>4, SeasonTyped DEF Books
    <3>2. running' \in BOOLEAN /\ pref' \in BOOLEAN
      BY <1>1, <1>6
    <3>3. op'.state \in {"none", "running", "completed", "failed"}
      BY <1>3 DEF Operations
    <3>4. prep'.state \in {"none", "running", "ready", "failed", "cancelled", "completed"}
      BY <1>5 DEF Preps
    <3> QED
      BY <1>1, <3>1, <3>2, <3>3, <3>4 DEF SeasonTypeOK
  <2>2. NoTick \in [op : Nat, prev : BOOLEAN]
    BY DEF NoTick
  <2> QED
    BY <1>1, <1>3, <1>4, <1>5, <2>1, <2>2, NoCallFacts DEF SeasonInv, SeasonTypes, Calls, Preps, Books, Operations
<1>11. CallersOwn'
  BY <1>1, NoCallFacts DEF CallersOwn
<1>12. TransitionDrains'
  <2>1. TransitionActive' => op'.rolls = 0 /\ op'.source = book'.season /\ book'.season # 0
    BY <1>3, <1>4, <1>7, <1>8 DEF SeasonInv, TransitionDrains
  <2>2. ~halfFrozen' /\ op'.kind = "profile_transition" =>
          /\ op'.state \in {"running", "completed", "failed"}
          /\ op'.state = "completed" => op'.rolls = 1
          /\ op'.state = "failed" => op'.rolls = 0
    <3>1. CASE ~OpRunning \/ Drains
      BY <1>1, <1>3, <3>1 DEF SeasonInv, TransitionDrains
    <3>2. CASE OpRunning /\ ~Drains
      BY <1>3, <1>9, <3>2 DEF TransitionActive
    <3> QED
      BY <3>1, <3>2
  <2> QED
    BY <1>1, <2>1, <2>2 DEF TransitionDrains
<1>13. Frozen'
  BY <1>1, <1>4, <1>6, <1>7, NoCallFacts DEF Frozen
<1>14. EngineKnown'
  BY <1>1, <1>4, <1>5, <1>6, NoCallFacts DEF EngineKnown
<1>15. PrepAlone'
  BY <1>5 DEF PrepAlone
<1>16. RestoreStep
  <2>1. TransitionActive /\ op'.state = "completed" => ~Drains
    BY <1>3 DEF TransitionActive, OpRunning
  <2> QED
    BY <1>1, <1>9, <2>1 DEF RestoreStep
<1> QED
  BY <1>10, <1>11, <1>12, <1>13, <1>14, <1>15, <1>16 DEF SeasonInv, SeasonStepped

LEMMA SeasonStarts == ASSUME SeasonInit PROVE SeasonInv
<1>1. 0 \in 0..MaxSeasons /\ 0 \in 0..0 /\ 0 \in 0..2 /\ 0 \in Nat
  BY OperationsAssumption
<1>2. /\ book = NoBook /\ running = FALSE /\ pref = FALSE /\ op = NoOp /\ call = NoCall
      /\ reset = "idle" /\ prep = NoPrep /\ lock = "free"
      /\ tick = NoTick /\ seasonCount = 0 /\ ops = 0 /\ halfFrozen = FALSE
  BY DEF SeasonInit
<1>3. SeasonTypes
  <2>1. SeasonTypeOK
    BY <1>1, <1>2 DEF SeasonTypeOK, NoBook, NoOp, NoPrep
  <2>2. book \in Books /\ call \in Calls /\ prep \in Preps
    BY <1>1, <1>2, NoCallFacts DEF NoBook, NoPrep, Books, Preps
  <2>3. op \in Operations
    BY <1>1, <1>2 DEF NoOp, Operations
  <2>4. tick \in [op : Nat, prev : BOOLEAN]
    BY <1>1, <1>2 DEF NoTick
  <2> QED
    BY <1>1, <1>2, <2>1, <2>2, <2>3, <2>4 DEF SeasonTypes, Books, Calls, Preps
<1>4. ~OpRunning /\ ~TransitionActive /\ ~prep.requested /\ prep.pc = "idle" /\ prep.state = "none"
      /\ op.kind = "none"
  BY <1>2 DEF OpRunning, TransitionActive, NoOp, NoPrep
<1>5. CallersOwn /\ TransitionDrains /\ Frozen
  BY <1>2, <1>4, NoCallFacts DEF CallersOwn, TransitionDrains, Frozen
<1>6. EngineKnown /\ PrepAlone
  BY <1>2, <1>4, NoCallFacts DEF EngineKnown, PrepAlone
<1> QED
  BY <1>3, <1>5, <1>6 DEF SeasonInv

LEMMA SeasonStuttersStep == ASSUME SeasonInv, UNCHANGED seasonVars PROVE SeasonStepped
<1>1. UNCHANGED <<book, running, pref, op, call, reset, prep, lock, tick, seasonCount, ops, halfFrozen>>
  BY DEF seasonVars
<1>2. UNCHANGED <<OpRunning, TransitionActive>>
  BY <1>1 DEF OpRunning, TransitionActive
<1>3. CallersOwn' /\ Frozen'
  BY <1>1, <1>2 DEF SeasonInv, CallersOwn, Frozen
<1>4. EngineKnown' /\ PrepAlone'
  BY <1>1, <1>2 DEF SeasonInv, EngineKnown, PrepAlone
<1> QED
  BY <1>1, <1>3, <1>4, CallTyped, KeptStep DEF Books

LEMMA SeasonSteps == ASSUME SeasonInv, [SeasonNext]_seasonVars PROVE SeasonStepped
<1>1. CASE MarketBuys \/ MarketFills \/ MarketSells \/ TickSchedulesExits
  BY <1>1, MarketStep
<1>2. CASE AutoRollover \/ ProcessRestarts
  BY <1>2, RolloverKept, RestartStep
<1>3. CASE (\E t \in {1, 2} : SetupBegins(t)) \/ ResumeBegins \/ ResetBegins
  BY <1>3, BeginSteps
<1>4. CASE SetupInitializes \/ SetupStops \/ ResumeLocksProfile \/ ResumeSaves \/ ResumeFails
           \/ CallCompletes \/ StopSaves \/ StopCancels
  BY <1>4, SetupInitializesStep, SetupStopsStep, ResumeLocksStep, ResumeSavesStep, ResumeFailsStep,
     CallCompletesStep, StopSavesStep, StopCancelsStep
<1>5. CASE ResetPauses \/ ResetArchives \/ ResetFails \/ ResetCompletes
  BY <1>5, ResetPausesStep, ResetArchivesStep, ResetFailsStep, ResetCompletesStep
<1>6. CASE \E t \in {1, 2} : ReconfigureUnstarted(t) \/ TransitionWanted(t)
  BY <1>6, ReconfigureStep, TransitionWantedStep
<1>7. CASE (\E n \in BOOLEAN : TransitionBegins(n)) \/ (\E d \in BOOLEAN : TickRolls(d)) \/ TickCompletes
  BY <1>7, TransitionBeginsStep, TickRollsStep, TickCompletesStep
<1>8. CASE FreezeCancels \/ FreezeStops \/ FreezeFails \/ FreezeFailed \/ EndNow \/ SettlementExpires
  BY <1>8, FreezeCancelsStep, FreezeStopsStep, FreezeFailsStep, FreezeFailedStep, TransitionMarkedStep
<1>9. CASE PrepBegins \/ PrepSettles \/ PrepReady \/ PrepGivenUp
  BY <1>9, PrepBeginsStep, PrepSettlesStep, PrepReadyStep, PrepGivenUpStep
<1>10. CASE UNCHANGED seasonVars
  BY <1>10, SeasonStuttersStep
<1> QED
  BY <1>1, <1>2, <1>3, <1>4, <1>5, <1>6, <1>7, <1>8, <1>9, <1>10 DEF SeasonNext

\* What the inductive invariant says to a caller.
LEMMA SeasonPromises ==
    ASSUME SeasonInv
    PROVE  SeasonTypeOK /\ DrainIsFrozen /\ TransitionOutcome /\ ReadyIsQuiet /\ EngineMatchesPreference
<1>1. SeasonTypeOK /\ DrainIsFrozen
  BY DEF SeasonInv, SeasonTypes, Frozen, DrainIsFrozen
<1>2. TransitionOutcome
  <2> SUFFICES ASSUME op.kind = "profile_transition", ~halfFrozen
               PROVE  /\ op.rolls <= 1
                      /\ op.state = "completed" => op.rolls = 1
                      /\ op.state = "failed" => op.rolls = 0
                      /\ (TransitionActive /\ lock = "free") => (op.rolls = 0 /\ op.source = book.season)
    BY DEF TransitionOutcome
  <2>1. /\ op.state = "completed" => op.rolls = 1
        /\ op.state = "failed" => op.rolls = 0
        /\ TransitionActive => op.rolls \in {0, 1}
        /\ (TransitionActive /\ lock = "free") => (op.rolls = 0 /\ op.source = book.season)
    BY DEF SeasonInv, TransitionDrains
  <2>2. op.state \in {"running", "completed", "failed"}
    BY DEF SeasonInv, TransitionDrains
  <2>3. op.rolls \in {0, 1}
    BY <2>1, <2>2 DEF TransitionActive, OpRunning
  <2> QED
    BY <2>1, <2>3
<1>3. ReadyIsQuiet
  BY DEF SeasonInv, PrepAlone, ReadyIsQuiet
<1>4. EngineMatchesPreference
  <2> SUFFICES ASSUME lock = "free", call.pc = "idle", reset = "idle", ~prep.requested
               PROVE  running <=> pref
    BY DEF EngineMatchesPreference
  <2> QED
    BY DEF SeasonInv, EngineKnown
<1> QED
  BY <1>1, <1>2, <1>3, <1>4

\* Whatever the bounds: wherever an operation of a season is stopped, fails or meets another,
\* what is reported of it is what happened, and the engine runs as its owner last said.
THEOREM OperationsAlwaysRecover == SeasonSpec => OperationsRecover
<1>1. SeasonInit => SeasonInv
  BY SeasonStarts
<1>2. SeasonInv /\ [SeasonNext]_seasonVars => SeasonInv' /\ RestoreStep
  BY SeasonSteps DEF SeasonStepped
<1>3. SeasonInv => SeasonTypeOK /\ DrainIsFrozen /\ TransitionOutcome /\ ReadyIsQuiet
                   /\ EngineMatchesPreference
  BY SeasonPromises
<1>4. RestoreStep => [(TransitionActive /\ op'.state = "completed" /\ op'.kind = op.kind)
                         => (running' = op.prev /\ pref' = op.prev)]_seasonVars
  BY DEF RestoreStep
<1> QED
  BY <1>1, <1>2, <1>3, <1>4, PTL DEF SeasonSpec, OperationsRecover, TransitionRestoresEngine

-----------------------------------------------------------------------------
(* The local critic *)

\* Where a task may be, with what it knows of its assessment by then.
Waiting == [at : {"slot", "select"}, mint : Mints, swapped : BOOLEAN]
Asking == [at : {"infer"}, mint : Mints, swapped : BOOLEAN, model : Models]
Saving == [at : {"save", "commit"}, mint : Mints, swapped : BOOLEAN, model : Models, row : Rows]
Stages == {Resting} \cup Waiting \cup Asking \cup Saving

\* What is stored of an assessment.
Assessments == [status : {"made", "open", "lost"}, mint : Mints, model : Models]
                 \cup {Unused, [status |-> "resolved"]}
Verdicts == [of : Models \cup {NoModel}, ok : BOOLEAN]

LabTypes ==
    /\ LabTypeOK
    /\ shadowQueue \in Seq(Mints) /\ paused \in BOOLEAN /\ settled \in BOOLEAN
    /\ cache \in Verdicts /\ audit \in Verdicts
    /\ task \in [Tasks -> Stages] /\ task["event"].at # "slot"
    /\ rows \in [Rows -> Assessments]

\* A token waits once, and not while the worker has it.
QueuedOnce ==
    /\ \A i, j \in 1..Len(shadowQueue) : shadowQueue[i] = shadowQueue[j] => i = j
    /\ task["shadow"].at # "idle" => task["shadow"].mint \notin Range(shadowQueue)

\* A task's row is its own: made until it is saved, open and not yet awaited until published.
RowsOwned ==
    /\ \A t \in Tasks : task[t].at = "save" => rows[task[t].row].status = "made"
    /\ \A t \in Tasks : task[t].at = "commit" =>
         rows[task[t].row].status = "open" /\ task[t].row \notin pendingOutcomes
    /\ \A s, t \in Tasks : task[s].at \in {"save", "commit"} /\ task[t].at \in {"save", "commit"}
                             /\ task[s].row = task[t].row => s = t
    /\ \A r \in pendingOutcomes : rows[r].status = "open"

\* Whatever passes for qualified was audited, and so was the model that may veto.
AuditsKnown ==
    /\ cache.ok => cache.of \in audited
    /\ audit.ok => audit.of \in audited
    /\ task["event"].at = "select" /\ ~task["event"].swapped => model \in audited
    /\ task["event"].at \in {"infer", "save", "commit"} /\ ~task["event"].swapped =>
         task["event"].model \in audited
    /\ ~unproven

\* A paused lab has nothing waiting; a settled one has nothing under way.
PausedIsQuiet ==
    /\ paused => shadowQueue = <<>> /\ download = NoModel
    /\ settled => paused /\ ~Busy

LabInv ==
    LabTypes /\ QueuedMintsExact /\ QueuedOnce /\ OutcomesAwaited /\ RowsOwned /\ AuditsKnown
    /\ PausedIsQuiet

FinalStep == \A r \in Rows : rows[r].status = "resolved" => rows'[r].status = "resolved"
LabStepped == LabInv' /\ FinalStep

LEMMA StageFacts ==
    ASSUME NEW s \in Stages
    PROVE  /\ s.at \in {"idle", "slot", "select", "infer", "save", "commit"}
           /\ s.at = "idle" => s = Resting
           /\ s.at # "idle" => s.mint \in Mints /\ s.swapped \in BOOLEAN
           /\ s.at \in {"slot", "select"} => s \in Waiting
           /\ s.at = "infer" => s \in Asking /\ s.model \in Models
           /\ s.at \in {"save", "commit"} => s \in Saving /\ s.model \in Models /\ s.row \in Rows
<1>1. CASE s = Resting
  BY <1>1 DEF Resting
<1>2. CASE s \in Waiting
  BY <1>2 DEF Waiting
<1>3. CASE s \in Asking
  BY <1>3 DEF Asking
<1>4. CASE s \in Saving
  BY <1>4 DEF Saving
<1> QED
  BY <1>1, <1>2, <1>3, <1>4 DEF Stages

LEMMA AssessmentFacts ==
    ASSUME NEW w \in Assessments
    PROVE  /\ w.status \in {"unused", "made", "open", "lost", "resolved"}
           /\ w = Unused <=> w.status = "unused"
           /\ w.status \in {"made", "open", "lost"} =>
                w \in [status : {"made", "open", "lost"}, mint : Mints, model : Models]
BY DEF Assessments, Unused

LEMMA LabTyped ==
    ASSUME LabInv
    PROVE  /\ mode \in {"off", "shadow", "guarded"} /\ model \in Models /\ installed \subseteq Models
           /\ paused \in BOOLEAN /\ settled \in BOOLEAN
           /\ shadowQueue \in Seq(Mints) /\ Len(shadowQueue) \in Nat /\ Len(shadowQueue) <= QueueCapacity
           /\ queuedMints \subseteq Mints /\ pendingOutcomes \subseteq Rows
           /\ task \in [Tasks -> Stages] /\ task["event"] \in Stages /\ task["shadow"] \in Stages
           /\ task["event"].at # "slot" /\ rows \in [Rows -> Assessments]
           /\ qualified \subseteq Models /\ cache \in Verdicts /\ audit \in Verdicts
           /\ download \in Models \cup {NoModel}
<1>1. task["event"] \in Stages /\ task["shadow"] \in Stages
  BY DEF LabInv, LabTypes, Tasks
<1>2. Len(shadowQueue) \in Nat
  BY DEF LabInv, LabTypes
<1> QED
  BY <1>1, <1>2 DEF LabInv, LabTypes, LabTypeOK

\* The types after a step, part by part.
LEMMA LabTypesAgain ==
    ASSUME mode' \in {"off", "shadow", "guarded"}, model' \in Models, installed' \subseteq Models,
           paused' \in BOOLEAN, settled' \in BOOLEAN,
           shadowQueue' \in Seq(Mints), Len(shadowQueue') <= QueueCapacity,
           queuedMints' \subseteq Mints, pendingOutcomes' \subseteq Rows,
           task' \in [Tasks -> Stages], task'["event"].at # "slot", rows' \in [Rows -> Assessments],
           qualified' \subseteq Models, cache' \in Verdicts, audit' \in Verdicts,
           download' \in Models \cup {NoModel}
    PROVE  LabTypes'
<1>1. Range(shadowQueue') \subseteq Mints
  BY DEF Range
<1>2. cache'.of \in Models \cup {NoModel}
  BY DEF Verdicts
<1>3. {paused', settled'} \subseteq BOOLEAN
  OBVIOUS
<1>4. LabTypeOK'
  BY <1>1, <1>2, <1>3 DEF LabTypeOK
<1> QED
  BY <1>4 DEF LabTypes

\* The queue and the tokens that count as queued.
LEMMA QueueKept ==
    ASSUME LabInv, UNCHANGED queueVars, task'["shadow"].at # "idle" <=> task["shadow"].at # "idle",
           task["shadow"].at # "idle" => task'["shadow"].mint = task["shadow"].mint
    PROVE  QueuedMintsExact' /\ QueuedOnce'
<1>1. shadowQueue' = shadowQueue /\ queuedMints' = queuedMints
  BY DEF queueVars
<1>2. QueuedMintsExact'
  BY <1>1 DEF LabInv, QueuedMintsExact
<1>3. QueuedOnce'
  BY <1>1 DEF LabInv, QueuedOnce
<1> QED
  BY <1>2, <1>3

LEMMA QueueFreed ==
    ASSUME LabInv, UNCHANGED shadowQueue, task["shadow"].at # "idle", task'["shadow"] = Resting,
           queuedMints' = queuedMints \ {task["shadow"].mint}
    PROVE  QueuedMintsExact' /\ QueuedOnce'
<1>1. task'["shadow"].at = "idle"
  BY DEF Resting
<1>2. QueuedMintsExact'
  BY <1>1 DEF LabInv, QueuedMintsExact, QueuedOnce
<1>3. QueuedOnce'
  BY <1>1 DEF LabInv, QueuedOnce
<1> QED
  BY <1>2, <1>3

LEMMA QueueDiscarded ==
    ASSUME LabInv, Discards, task'["shadow"] = task["shadow"]
    PROVE  /\ QueuedMintsExact' /\ QueuedOnce'
           /\ shadowQueue' = <<>> /\ shadowQueue' \in Seq(Mints) /\ Len(shadowQueue') <= QueueCapacity
           /\ queuedMints' \subseteq Mints
<1>1. shadowQueue' = <<>> /\ queuedMints' = queuedMints \ Range(shadowQueue)
  BY DEF Discards
<1>2. Range(shadowQueue') = {}
  BY <1>1 DEF Range
<1>3. QueuedMintsExact'
  BY <1>1, <1>2 DEF LabInv, QueuedMintsExact, QueuedOnce
<1>4. QueuedOnce'
  BY <1>1, <1>2 DEF QueuedOnce
<1>5. shadowQueue' \in Seq(Mints) /\ Len(shadowQueue') <= QueueCapacity
  BY <1>1, LabAssumption
<1> QED
  BY <1>1, <1>3, <1>4, <1>5, LabTyped

\* The rows and who follows them.
LEMMA OutcomesKept ==
    ASSUME LabInv, UNCHANGED outcomeVars,
           \A t \in Tasks : (task[t].at \in {"save", "commit"} \/ task'[t].at \in {"save", "commit"})
                              => task'[t] = task[t]
    PROVE  OutcomesAwaited' /\ RowsOwned' /\ FinalStep
<1>1. rows' = rows /\ pendingOutcomes' = pendingOutcomes
  BY DEF outcomeVars
<1>2. OutcomesAwaited'
  BY <1>1 DEF LabInv, OutcomesAwaited
<1>3. RowsOwned'
  BY <1>1 DEF LabInv, RowsOwned
<1> QED
  BY <1>1, <1>2, <1>3 DEF FinalStep

\* What was audited stays audited, and the guarded assessment stays with its model.
LEMMA AuditsKept ==
    ASSUME LabInv, audited \subseteq audited', UNCHANGED unproven,
           cache'.ok => cache'.of \in audited', audit'.ok => audit'.of \in audited',
           task'["event"] = task["event"] \/ task'["event"] = Resting,
           model' = model \/ task["event"].at # "select"
    PROVE  AuditsKnown'
<1>1. CASE task'["event"] = Resting
  BY <1>1 DEF LabInv, AuditsKnown, Resting
<1>2. CASE task'["event"] = task["event"]
  BY <1>2 DEF LabInv, AuditsKnown
<1> QED
  BY <1>1, <1>2

LEMMA NoCacheFacts == NoCache \in Verdicts /\ ~NoCache.ok
BY DEF NoCache, Verdicts

LEMMA QualifyFacts ==
    ASSUME LabInv, Qualify
    PROVE  /\ cache' \in Verdicts /\ UNCHANGED <<qualified, audit>> /\ audited \subseteq audited'
           /\ cache'.ok => cache'.of \in audited'
           /\ Passes(model) => model \in audited'
           /\ audit'.ok => audit'.of \in audited'
<1>1. /\ cache' = [of |-> model, ok |-> Passes(model)] /\ UNCHANGED <<qualified, audit>>
      /\ audited' = IF model \in qualified THEN audited \cup {model} ELSE audited
  BY DEF Qualify
<1>2. Passes(model) \in BOOLEAN /\ model \in Models
  <2>1. cache.ok \in BOOLEAN /\ model \in Models
    BY LabTyped DEF Verdicts
  <2>2. CASE Cached(model)
    BY <2>1, <2>2 DEF Passes
  <2>3. CASE ~Cached(model)
    BY <2>1, <2>3 DEF Passes
  <2> QED
    BY <2>1, <2>2, <2>3
<1>3. audited \subseteq audited'
  BY <1>1
<1>4. Passes(model) => model \in audited'
  <2>1. CASE cache.of = model
    BY <1>3, <2>1 DEF Passes, Cached, LabInv, AuditsKnown
  <2>2. CASE cache.of # model
    BY <1>1, <2>2 DEF Passes, Cached
  <2> QED
    BY <2>1, <2>2
<1>5. cache' \in Verdicts /\ cache'.of = model /\ cache'.ok = Passes(model)
  BY <1>1, <1>2 DEF Verdicts
<1>6. audit'.ok => audit'.of \in audited'
  BY <1>1, <1>3 DEF LabInv, AuditsKnown
<1> QED
  BY <1>1, <1>3, <1>4, <1>5, <1>6

\* Steps that leave the queue, the tasks and the rows alone.
LEMMA BesideStep ==
    ASSUME LabInv, UNCHANGED <<model, queueVars, task, outcomeVars, unproven>>,
           mode' \in {"off", "shadow", "guarded"}, installed' \subseteq Models,
           paused' \in BOOLEAN, settled' \in BOOLEAN, qualified' \subseteq Models,
           cache' \in Verdicts, audit' \in Verdicts, download' \in Models \cup {NoModel},
           audited \subseteq audited',
           cache'.ok => cache'.of \in audited', audit'.ok => audit'.of \in audited',
           PausedIsQuiet'
    PROVE  LabStepped
<1>1. UNCHANGED <<model, shadowQueue, queuedMints, task, rows, pendingOutcomes, unproven>>
  BY DEF queueVars, outcomeVars
<1>2. LabTypes'
  BY <1>1, LabTyped, LabTypesAgain
<1>3. QueuedMintsExact' /\ QueuedOnce'
  BY <1>1, QueueKept
<1>4. OutcomesAwaited' /\ RowsOwned' /\ FinalStep
  BY <1>1, OutcomesKept
<1>5. AuditsKnown'
  BY <1>1, AuditsKept
<1> QED
  BY <1>2, <1>3, <1>4, <1>5 DEF LabInv, LabStepped

LEMMA AuditSteps ==
    ASSUME LabInv, AuditReads \/ AuditPublishes \/ CacheExpires \/ RefreshModels
    PROVE  LabStepped
<1>1. /\ UNCHANGED <<model, installed, paused, settled, queueVars, task, outcomeVars, qualified,
                      download, unproven>>
      /\ mode' \in {mode, "shadow"}
  BY DEF AuditReads, AuditPublishes, CacheExpires, RefreshModels, Qualify
<1>2. /\ cache' \in Verdicts /\ audit' \in Verdicts /\ audited \subseteq audited'
      /\ cache'.ok => cache'.of \in audited'
      /\ audit'.ok => audit'.of \in audited'
  <2>1. CASE AuditReads
    <3>1. /\ audit' = [of |-> model, ok |-> model \in qualified] /\ cache' = cache
          /\ audited' = IF model \in qualified THEN audited \cup {model} ELSE audited
      BY <2>1 DEF AuditReads
    <3>2. audit' \in Verdicts /\ audit'.of = model /\ audit'.ok = (model \in qualified)
      BY <3>1, LabTyped DEF Verdicts
    <3> QED
      BY <3>1, <3>2, LabTyped DEF LabInv, AuditsKnown
  <2>2. CASE AuditPublishes
    BY <2>2, LabTyped, NoCacheFacts DEF AuditPublishes, LabInv, AuditsKnown
  <2>3. CASE CacheExpires
    BY <2>3, LabTyped, NoCacheFacts DEF CacheExpires, LabInv, AuditsKnown
  <2>4. CASE RefreshModels
    BY <2>4, LabTyped, QualifyFacts DEF RefreshModels
  <2> QED
    BY <2>1, <2>2, <2>3, <2>4
<1>3. PausedIsQuiet'
  BY <1>1 DEF LabInv, PausedIsQuiet, Busy, queueVars
<1> QED
  BY <1>1, <1>2, <1>3, LabTyped, BesideStep

LEMMA OwnerSteps ==
    ASSUME LabInv, SettleLab \/ ResumeLab
                   \/ (\E m \in Models : StartDownload(m) \/ RemoveModel(m))
    PROVE  LabStepped
<1>1. CASE SettleLab
  <2>1. /\ paused /\ ~Busy /\ settled' = TRUE
        /\ UNCHANGED <<mode, model, installed, paused, queueVars, task, outcomeVars, auditVars,
                       download, unproven>>
    BY <1>1 DEF SettleLab
  <2>2. PausedIsQuiet'
    BY <2>1 DEF LabInv, PausedIsQuiet, Busy, queueVars
  <2> QED
    BY <2>1, <2>2, LabTyped, BesideStep DEF auditVars, LabInv, AuditsKnown
<1>2. CASE ResumeLab
  <2>1. /\ paused' = FALSE /\ settled' = FALSE
        /\ UNCHANGED <<mode, model, installed, queueVars, task, outcomeVars, auditVars,
                       download, unproven>>
    BY <1>2 DEF ResumeLab
  <2>2. PausedIsQuiet'
    BY <2>1 DEF PausedIsQuiet
  <2> QED
    BY <2>1, <2>2, LabTyped, BesideStep DEF auditVars, LabInv, AuditsKnown
<1>3. CASE \E m \in Models : StartDownload(m)
  <2>1. PICK m \in Models : StartDownload(m)
    BY <1>3
  <2>2. /\ ~paused /\ download' = m
        /\ UNCHANGED <<mode, model, installed, paused, settled, queueVars, task, outcomeVars, auditVars,
                       unproven>>
    BY <2>1 DEF StartDownload
  <2>3. PausedIsQuiet'
    BY <2>2 DEF LabInv, PausedIsQuiet
  <2> QED
    BY <2>2, <2>3, LabTyped, BesideStep DEF auditVars, LabInv, AuditsKnown
<1>4. CASE \E m \in Models : RemoveModel(m)
  <2>1. PICK m \in Models : RemoveModel(m)
    BY <1>4
  <2>2. /\ installed' = installed \ {m} /\ cache' = NoCache /\ mode' \in {"off", mode}
        /\ UNCHANGED <<model, paused, settled, queueVars, task, outcomeVars, qualified, audit, audited,
                       download, unproven>>
    BY <2>1 DEF RemoveModel
  <2>3. PausedIsQuiet'
    BY <2>2 DEF LabInv, PausedIsQuiet, Busy, queueVars
  <2>4. audit'.ok => audit'.of \in audited'
    BY <2>2 DEF LabInv, AuditsKnown
  <2> QED
    BY <2>2, <2>3, <2>4, LabTyped, NoCacheFacts, BesideStep
<1> QED
  BY <1>1, <1>2, <1>3, <1>4

\* Mode and model are switched, and the queue discarded with them.
LEMMA SetModeStep ==
    ASSUME LabInv, NEW new \in {"off", "shadow", "guarded"}, SetMode(new) PROVE LabStepped
<1>1. /\ ~paused /\ mode' = new /\ (new = "guarded" => Qualify) /\ (new # "guarded" => UNCHANGED auditVars)
      /\ UNCHANGED queueVars \/ Discards
      /\ UNCHANGED <<model, installed, paused, settled, task, outcomeVars, download, unproven>>
  BY DEF SetMode
<1>2. /\ cache' \in Verdicts /\ audit' \in Verdicts /\ audited \subseteq audited' /\ qualified' = qualified
      /\ cache'.ok => cache'.of \in audited'
      /\ audit'.ok => audit'.of \in audited'
  <2>1. CASE new = "guarded"
    BY <1>1, <2>1, LabTyped, QualifyFacts
  <2>2. CASE new # "guarded"
    BY <1>1, <2>2, LabTyped DEF auditVars, LabInv, AuditsKnown
  <2> QED
    BY <2>1, <2>2
<1>3. PausedIsQuiet'
  BY <1>1 DEF LabInv, PausedIsQuiet
<1>4. CASE UNCHANGED queueVars
  BY <1>1, <1>2, <1>3, <1>4, LabTyped, BesideStep
<1>5. CASE Discards
  <2>1. /\ QueuedMintsExact' /\ QueuedOnce' /\ shadowQueue' \in Seq(Mints)
        /\ Len(shadowQueue') <= QueueCapacity /\ queuedMints' \subseteq Mints
    BY <1>1, <1>5, QueueDiscarded
  <2>2. OutcomesAwaited' /\ RowsOwned' /\ FinalStep
    BY <1>1, OutcomesKept
  <2>3. AuditsKnown'
    BY <1>1, <1>2, AuditsKept
  <2>4. LabTypes'
    BY <1>1, <1>2, <2>1, LabTyped, LabTypesAgain DEF outcomeVars
  <2> QED
    BY <1>3, <2>1, <2>2, <2>3, <2>4 DEF LabInv, LabStepped
<1> QED
  BY <1>1, <1>4, <1>5

LEMMA PauseLabStep == ASSUME LabInv, PauseLab PROVE LabStepped
<1>1. /\ ~paused /\ paused' = TRUE /\ Discards /\ download' = NoModel
      /\ UNCHANGED <<mode, model, installed, settled, task, outcomeVars, auditVars, unproven>>
  BY DEF PauseLab
<1>2. /\ QueuedMintsExact' /\ QueuedOnce' /\ shadowQueue' = <<>> /\ shadowQueue' \in Seq(Mints)
      /\ Len(shadowQueue') <= QueueCapacity /\ queuedMints' \subseteq Mints
  BY <1>1, QueueDiscarded
<1>3. OutcomesAwaited' /\ RowsOwned' /\ FinalStep
  BY <1>1, OutcomesKept
<1>4. AuditsKnown'
  BY <1>1, AuditsKept DEF auditVars, LabInv, AuditsKnown
<1>5. PausedIsQuiet'
  BY <1>1, <1>2 DEF LabInv, PausedIsQuiet
<1>6. LabTypes'
  BY <1>1, <1>2, LabTyped, LabTypesAgain DEF outcomeVars, auditVars
<1> QED
  BY <1>2, <1>3, <1>4, <1>5, <1>6 DEF LabInv, LabStepped

LEMMA SelectedFacts ==
    ASSUME LabInv, NEW m \in Models, Selected(m)
    PROVE  /\ task' \in [Tasks -> Stages] /\ task'["shadow"] = task["shadow"]
           /\ \A t \in Tasks : task'[t].at = task[t].at
           /\ \A t \in Tasks : task[t].at \in {"save", "commit"} => task'[t] = task[t]
           /\ task["event"].at = "select" => task'["event"].swapped
           /\ task["event"].at # "select" => task'["event"] = task["event"]
<1>1. task' = IF task["event"].at = "select" THEN [task EXCEPT !["event"].swapped = TRUE] ELSE task
  BY DEF Selected
<1>2. CASE task["event"].at = "select"
  <2>1. task["event"] \in Waiting
    BY <1>2, LabTyped, StageFacts
  <2> DEFINE s == [task["event"] EXCEPT !.swapped = TRUE]
  <2>2. s \in Waiting /\ s.at = "select" /\ s.swapped
    BY <1>2, <2>1 DEF Waiting
  <2>3. task' = [task EXCEPT !["event"] = s]
    BY <1>1, <1>2
  <2>4. s \in Stages
    BY <2>2 DEF Stages
  <2> HIDE DEF s
  <2> QED
    BY <1>2, <2>2, <2>3, <2>4, LabTyped DEF Tasks
<1>3. CASE task["event"].at # "select"
  BY <1>1, <1>3, LabTyped
<1> QED
  BY <1>2, <1>3

\* What selecting a model does, to an installed one or to the one just downloaded.
LEMMA SelectedStep ==
    ASSUME LabInv, NEW m \in Models, Selected(m), installed' \subseteq Models,
           download' \in {download, NoModel},
           UNCHANGED <<paused, settled, outcomeVars, qualified, audit, audited, unproven>>
    PROVE  LabStepped
<1>1. model' = m /\ cache' = NoCache /\ Discards /\ mode' \in {"shadow", mode}
  BY DEF Selected
<1>2. /\ task' \in [Tasks -> Stages] /\ task'["shadow"] = task["shadow"]
      /\ \A t \in Tasks : task'[t].at = task[t].at
      /\ \A t \in Tasks : task[t].at \in {"save", "commit"} => task'[t] = task[t]
      /\ task["event"].at = "select" => task'["event"].swapped
      /\ task["event"].at # "select" => task'["event"] = task["event"]
  BY SelectedFacts
<1>3. /\ QueuedMintsExact' /\ QueuedOnce' /\ shadowQueue' = <<>> /\ shadowQueue' \in Seq(Mints)
      /\ Len(shadowQueue') <= QueueCapacity /\ queuedMints' \subseteq Mints
  BY <1>1, <1>2, QueueDiscarded
<1>4. OutcomesAwaited' /\ RowsOwned' /\ FinalStep
  BY <1>2, OutcomesKept
<1>5. task'["event"].at = task["event"].at
  BY <1>2 DEF Tasks
<1>6. AuditsKnown'
  <2>1. CASE task["event"].at = "select"
    BY <1>1, <1>2, <1>5, <2>1, NoCacheFacts DEF LabInv, AuditsKnown
  <2>2. CASE task["event"].at # "select"
    BY <1>1, <1>2, <2>2, NoCacheFacts DEF LabInv, AuditsKnown
  <2> QED
    BY <2>1, <2>2
<1>7. PausedIsQuiet'
  BY <1>2, <1>3 DEF LabInv, PausedIsQuiet, Busy
<1>8. LabTypes'
  BY <1>1, <1>2, <1>3, <1>5, LabTyped, NoCacheFacts, LabTypesAgain DEF outcomeVars
<1> QED
  BY <1>3, <1>4, <1>6, <1>7, <1>8 DEF LabInv, LabStepped

LEMMA SelectSteps ==
    ASSUME LabInv, (\E m \in Models : SelectModel(m)) \/ DownloadEnds PROVE LabStepped
<1>1. CASE \E m \in Models : SelectModel(m)
  <2>1. PICK m \in Models : SelectModel(m)
    BY <1>1
  <2> QED
    BY <2>1, LabTyped, SelectedStep DEF SelectModel
<1>2. CASE DownloadEnds
  <2>1. /\ download \in Models /\ download' = NoModel
        /\ UNCHANGED <<paused, settled, outcomeVars, qualified, audit, audited, unproven>>
        /\ \/ installed' = installed \cup {download} /\ Selected(download)
           \/ UNCHANGED <<mode, model, installed, queueVars, task, cache>>
    BY <1>2, LabTyped DEF DownloadEnds
  <2>2. CASE installed' = installed \cup {download} /\ Selected(download)
    BY <2>1, <2>2, LabTyped, SelectedStep
  <2>3. CASE UNCHANGED <<mode, model, installed, queueVars, task, cache>>
    <3>1. PausedIsQuiet'
      BY <2>1, <2>3 DEF LabInv, PausedIsQuiet, Busy, queueVars
    <3>2. (cache'.ok => cache'.of \in audited') /\ (audit'.ok => audit'.of \in audited')
      BY <2>1, <2>3 DEF LabInv, AuditsKnown
    <3> QED
      BY <2>1, <2>3, <3>1, <3>2, LabTyped, BesideStep
  <2> QED
    BY <2>1, <2>2, <2>3
<1> QED
  BY <1>1, <1>2

\* A task ends: the worker frees its token, the event worker had none.
LEMMA EndsFacts ==
    ASSUME LabInv, NEW t \in Tasks, task[t].at # "idle", EndsTask(t)
    PROVE  /\ task' = [task EXCEPT ![t] = Resting] /\ task' \in [Tasks -> Stages]
           /\ task'[t] = Resting /\ \A s \in Tasks \ {t} : task'[s] = task[s]
           /\ task'["event"] \in {task["event"], Resting} /\ task'["shadow"] \in {task["shadow"], Resting}
           /\ QueuedMintsExact' /\ QueuedOnce'
           /\ shadowQueue' = shadowQueue /\ queuedMints' \subseteq queuedMints
<1>1. /\ task' = [task EXCEPT ![t] = Resting] /\ shadowQueue' = shadowQueue
      /\ queuedMints' = IF t = "shadow" THEN queuedMints \ {task[t].mint} ELSE queuedMints
  BY DEF EndsTask, FreesMint
<1>2. /\ task' \in [Tasks -> Stages] /\ task'[t] = Resting
      /\ \A s \in Tasks \ {t} : task'[s] = task[s]
      /\ task'["event"] \in {task["event"], Resting} /\ task'["shadow"] \in {task["shadow"], Resting}
  <2>1. Resting \in Stages
    BY DEF Stages
  <2> QED
    BY <1>1, <2>1, LabTyped DEF Tasks
<1>3. QueuedMintsExact' /\ QueuedOnce'
  <2>1. CASE t = "shadow"
    BY <1>1, <1>2, <2>1, QueueFreed
  <2>2. CASE t = "event"
    BY <1>1, <1>2, <2>2, QueueKept DEF queueVars, Tasks
  <2> QED
    BY <2>1, <2>2 DEF Tasks
<1> QED
  BY <1>1, <1>2, <1>3

\* Steps of a task before it has an answer.
LEMMA TaskStep ==
    ASSUME LabInv, NEW t \in Tasks, NEW s \in Stages, task' = [task EXCEPT ![t] = s],
           UNCHANGED <<model, installed, paused, settled, outcomeVars, qualified, download>>,
           mode' \in {"off", "shadow", "guarded"}, cache' \in Verdicts, audit' \in Verdicts,
           task[t].at \notin {"save", "commit"}, s.at \notin {"save", "commit"},
           task'["event"].at # "slot", AuditsKnown', QueuedMintsExact', QueuedOnce',
           shadowQueue' \in Seq(Mints), Len(shadowQueue') <= QueueCapacity, queuedMints' \subseteq Mints,
           paused => shadowQueue' = <<>>, settled => ~Busy'
    PROVE  LabStepped
<1>1. task' \in [Tasks -> Stages] /\ task'[t] = s /\ \A u \in Tasks \ {t} : task'[u] = task[u]
  BY LabTyped
<1>2. LabTypes'
  BY <1>1, LabTyped, LabTypesAgain DEF outcomeVars
<1>3. OutcomesAwaited' /\ RowsOwned' /\ FinalStep
  BY <1>1, OutcomesKept
<1>4. PausedIsQuiet'
  BY DEF LabInv, PausedIsQuiet
<1> QED
  BY <1>2, <1>3, <1>4 DEF LabInv, LabStepped

\* A task gives up before it has an answer.
LEMMA EndedStep ==
    ASSUME LabInv, NEW t \in Tasks, task[t].at \in {"slot", "select", "infer"}, EndsTask(t),
           UNCHANGED <<mode, model, installed, paused, settled, outcomeVars, auditVars, download, unproven>>
    PROVE  LabStepped
<1>1. /\ task' = [task EXCEPT ![t] = Resting] /\ task'["event"] \in {task["event"], Resting}
      /\ task'["shadow"] \in {task["shadow"], Resting}
      /\ QueuedMintsExact' /\ QueuedOnce' /\ shadowQueue' = shadowQueue /\ queuedMints' \subseteq queuedMints
  BY EndsFacts
<1>2. Resting \in Stages /\ Resting.at = "idle"
  BY DEF Stages, Resting
<1>3. AuditsKnown'
  BY <1>1, AuditsKept DEF auditVars, LabInv, AuditsKnown
<1>4. settled => ~Busy'
  BY <1>1, <1>2 DEF LabInv, PausedIsQuiet, Busy
<1>5. task'["event"].at # "slot"
  BY <1>1, <1>2, LabTyped
<1>6. /\ shadowQueue' \in Seq(Mints) /\ Len(shadowQueue') <= QueueCapacity /\ queuedMints' \subseteq Mints
      /\ paused => shadowQueue' = <<>>
  BY <1>1, LabTyped DEF LabInv, PausedIsQuiet
<1>7. UNCHANGED <<cache, audit, qualified>>
  BY DEF auditVars
<1> QED
  BY <1>1, <1>2, <1>3, <1>4, <1>5, <1>6, <1>7, LabTyped, TaskStep

LEMMA GivesUpSteps == ASSUME LabInv, SlotRefused \/ CancelWorker PROVE LabStepped
<1>1. "shadow" \in Tasks /\ task["shadow"].at \in {"slot", "select", "infer"} /\ EndsTask("shadow")
  BY DEF SlotRefused, CancelWorker, EndsAtOnce, Tasks
<1>2. UNCHANGED <<mode, model, installed, paused, settled, outcomeVars, auditVars, download, unproven>>
  BY DEF SlotRefused, CancelWorker
<1> QED
  BY <1>1, <1>2, EndedStep

LEMMA SlotGrantedStep == ASSUME LabInv, SlotGranted PROVE LabStepped
<1> DEFINE s == [task["shadow"] EXCEPT !.at = "select"]
<1>1. /\ task["shadow"].at = "slot" /\ ~paused /\ task' = [task EXCEPT !["shadow"] = s]
      /\ UNCHANGED <<mode, model, installed, paused, settled, queueVars, outcomeVars, auditVars,
                     download, unproven>>
  BY DEF SlotGranted, ShadowOpen
<1>2. s \in Stages /\ s.at = "select" /\ s.mint = task["shadow"].mint
  <2>1. task["shadow"] \in Waiting
    BY <1>1, LabTyped, StageFacts
  <2> QED
    BY <2>1 DEF Waiting, Stages
<1> HIDE DEF s
<1>3. "shadow" \in Tasks /\ task'["shadow"] = s /\ task'["event"] = task["event"]
  BY <1>1, LabTyped DEF Tasks
<1>4. QueuedMintsExact' /\ QueuedOnce'
  BY <1>1, <1>2, <1>3, QueueKept
<1>5. AuditsKnown'
  BY <1>1, <1>3, AuditsKept DEF auditVars, LabInv, AuditsKnown
<1>6. ~settled
  BY <1>1 DEF LabInv, PausedIsQuiet
<1>7. UNCHANGED <<cache, audit, qualified, shadowQueue, queuedMints>>
  BY <1>1 DEF auditVars, queueVars
<1> QED
  BY <1>1, <1>2, <1>3, <1>4, <1>5, <1>6, <1>7, LabTyped, TaskStep

\* The queue at work.
LEMMA EnqueueStep == ASSUME LabInv, NEW m \in Mints, EnqueueShadow(m) PROVE LabStepped
<1>1. /\ ~paused /\ m \notin queuedMints /\ Len(shadowQueue) < QueueCapacity
      /\ shadowQueue' = Append(shadowQueue, m) /\ queuedMints' = queuedMints \cup {m}
      /\ UNCHANGED <<mode, model, installed, paused, settled, task, outcomeVars, auditVars, download,
                     unproven>>
  BY DEF EnqueueShadow, HasRoom
<1>2. /\ shadowQueue' \in Seq(Mints) /\ Len(shadowQueue') = Len(shadowQueue) + 1
      /\ \A i \in 1..Len(shadowQueue) : shadowQueue'[i] = shadowQueue[i]
      /\ shadowQueue'[Len(shadowQueue) + 1] = m
      /\ \A i \in 1..Len(shadowQueue') : i \in 1..Len(shadowQueue) \/ i = Len(shadowQueue) + 1
  BY <1>1, LabTyped
<1>3. Range(shadowQueue') = Range(shadowQueue) \cup {m}
  <2>1. /\ Range(shadowQueue) = {shadowQueue[i] : i \in 1..Len(shadowQueue)}
        /\ Range(shadowQueue') = {shadowQueue'[i] : i \in 1..Len(shadowQueue')}
    BY <1>2, LabTyped DEF Range
  <2>2. 1..Len(shadowQueue) \subseteq 1..Len(shadowQueue') /\ Len(shadowQueue) + 1 \in 1..Len(shadowQueue')
    BY <1>2, LabTyped
  <2> QED
    BY <1>2, <2>1, <2>2
<1>4. \A i \in 1..Len(shadowQueue) : shadowQueue[i] # m /\ shadowQueue[i] \in Range(shadowQueue)
  BY <1>1, LabTyped DEF LabInv, QueuedMintsExact, Range
<1>5. QueuedMintsExact'
  BY <1>1, <1>3 DEF LabInv, QueuedMintsExact
<1>6. QueuedOnce'
  <2>1. \A i, j \in 1..Len(shadowQueue') : shadowQueue'[i] = shadowQueue'[j] => i = j
    BY <1>2, <1>4 DEF LabInv, QueuedOnce
  <2>2. task["shadow"].at # "idle" => task["shadow"].mint \notin Range(shadowQueue')
    BY <1>1, <1>3 DEF LabInv, QueuedOnce, QueuedMintsExact
  <2> QED
    BY <1>1, <2>1, <2>2 DEF QueuedOnce
<1>7. Len(shadowQueue') <= QueueCapacity
  BY <1>1, <1>2, LabTyped, LabAssumption
<1>8. OutcomesAwaited' /\ RowsOwned' /\ FinalStep
  BY <1>1, OutcomesKept
<1>9. AuditsKnown'
  BY <1>1, AuditsKept DEF auditVars, LabInv, AuditsKnown
<1>10. PausedIsQuiet'
  BY <1>1 DEF LabInv, PausedIsQuiet
<1>11. LabTypes'
  BY <1>1, <1>2, <1>7, LabTyped, LabTypesAgain DEF outcomeVars, auditVars
<1> QED
  BY <1>5, <1>6, <1>8, <1>9, <1>10, <1>11 DEF LabInv, LabStepped

LEMMA RangeIs == ASSUME NEW q \in Seq(Mints) PROVE Range(q) = {q[i] : i \in 1..Len(q)}
BY DEF Range

LEMMA WorkerTakesStep == ASSUME LabInv, WorkerTakes PROVE LabStepped
<1> DEFINE s == [at |-> "slot", mint |-> Head(shadowQueue), swapped |-> FALSE]
<1>1. /\ task["shadow"].at = "idle" /\ shadowQueue # <<>> /\ task' = [task EXCEPT !["shadow"] = s]
      /\ shadowQueue' = Tail(shadowQueue)
      /\ UNCHANGED <<mode, model, installed, paused, settled, queuedMints, outcomeVars, auditVars,
                     download, unproven>>
  BY DEF WorkerTakes
<1>2. /\ Len(shadowQueue) \in Nat \ {0} /\ Head(shadowQueue) = shadowQueue[1] /\ shadowQueue[1] \in Mints
      /\ shadowQueue' \in Seq(Mints) /\ Len(shadowQueue') = Len(shadowQueue) - 1
      /\ \A i \in 1..Len(shadowQueue') : shadowQueue'[i] = shadowQueue[i + 1]
  BY <1>1, LabTyped
<1>3. s \in Stages /\ s.at = "slot" /\ s.mint = shadowQueue[1]
  BY <1>2 DEF Stages, Waiting
<1> HIDE DEF s
<1>4. "shadow" \in Tasks /\ task'["shadow"] = s /\ task'["event"] = task["event"]
  BY <1>1, LabTyped DEF Tasks
<1>5. /\ \A i \in 1..Len(shadowQueue') : i + 1 \in 1..Len(shadowQueue) /\ i + 1 # 1
      /\ \A j \in 1..Len(shadowQueue) : j # 1 => j - 1 \in 1..Len(shadowQueue') /\ (j - 1) + 1 = j
      /\ 1 \in 1..Len(shadowQueue)
  BY <1>2
<1>6. /\ Range(shadowQueue) = {shadowQueue[i] : i \in 1..Len(shadowQueue)}
      /\ Range(shadowQueue') = {shadowQueue'[i] : i \in 1..Len(shadowQueue')}
  BY <1>2, LabTyped, RangeIs
<1>7. shadowQueue[1] \notin Range(shadowQueue')
  BY <1>2, <1>5, <1>6 DEF LabInv, QueuedOnce
<1>8. Range(shadowQueue) = Range(shadowQueue') \cup {shadowQueue[1]}
  <2>1. Range(shadowQueue') \subseteq Range(shadowQueue) /\ shadowQueue[1] \in Range(shadowQueue)
    BY <1>2, <1>5, <1>6
  <2>2. ASSUME NEW j \in 1..Len(shadowQueue), j # 1
        PROVE  shadowQueue[j] \in Range(shadowQueue')
    <3>1. j - 1 \in 1..Len(shadowQueue') /\ shadowQueue'[j - 1] = shadowQueue[j]
      BY <1>2, <1>5, <2>2
    <3> QED
      BY <1>6, <3>1
  <2> QED
    BY <1>6, <2>1, <2>2
<1>9. QueuedMintsExact'
  BY <1>1, <1>3, <1>4, <1>8 DEF LabInv, QueuedMintsExact
<1>10. QueuedOnce'
  <2>1. \A i, j \in 1..Len(shadowQueue') : shadowQueue'[i] = shadowQueue'[j] => i = j
    <3> TAKE i, j \in 1..Len(shadowQueue')
    <3> HAVE shadowQueue'[i] = shadowQueue'[j]
    <3>1. i + 1 = j + 1
      BY <1>2, <1>5 DEF LabInv, QueuedOnce
    <3> QED
      BY <1>2, <3>1
  <2> QED
    BY <1>3, <1>4, <1>7, <2>1 DEF QueuedOnce
<1>11. AuditsKnown'
  BY <1>1, <1>4, AuditsKept DEF auditVars, LabInv, AuditsKnown
<1>12. ~paused /\ ~settled
  BY <1>1 DEF LabInv, PausedIsQuiet
<1>13. Len(shadowQueue') <= QueueCapacity
  BY <1>2, LabTyped, LabAssumption
<1>14. UNCHANGED <<cache, audit, qualified>>
  BY <1>1 DEF auditVars
<1> QED
  BY <1>1, <1>2, <1>3, <1>4, <1>9, <1>10, <1>11, <1>12, <1>13, <1>14, LabTyped, TaskStep

\* An assessment, by either task.
LEMMA GuardBeginsStep == ASSUME LabInv, NEW m \in Mints, GuardBegins(m) PROVE LabStepped
<1> DEFINE s == [at |-> "select", mint |-> m, swapped |-> FALSE]
<1>1. /\ task["event"].at = "idle" /\ ~paused /\ mode = "guarded" /\ Qualify
      /\ UNCHANGED <<model, installed, paused, settled, queueVars, outcomeVars, download, unproven>>
      /\ Passes(model) => task' = [task EXCEPT !["event"] = s] /\ UNCHANGED mode
      /\ ~Passes(model) => mode' = "shadow" /\ UNCHANGED task
  BY DEF GuardBegins
<1>2. s \in Stages /\ s.at = "select"
  BY DEF Stages, Waiting
<1> HIDE DEF s
<1>3. /\ cache' \in Verdicts /\ UNCHANGED <<qualified, audit>> /\ audited \subseteq audited'
      /\ cache'.ok => cache'.of \in audited'
      /\ Passes(model) => model \in audited'
      /\ audit'.ok => audit'.of \in audited'
  BY <1>1, QualifyFacts
<1>4. ~settled
  BY <1>1 DEF LabInv, PausedIsQuiet
<1>5. CASE Passes(model)
  <2>1. "event" \in Tasks /\ task'["event"] = s /\ task'["shadow"] = task["shadow"]
    BY <1>1, <1>5, LabTyped DEF Tasks
  <2>2. QueuedMintsExact' /\ QueuedOnce'
    BY <1>1, <2>1, QueueKept
  <2>3. AuditsKnown'
    BY <1>1, <1>2, <1>3, <1>5, <2>1 DEF LabInv, AuditsKnown
  <2>4. UNCHANGED <<shadowQueue, queuedMints>>
    BY <1>1 DEF queueVars
  <2> QED
    BY <1>1, <1>2, <1>3, <1>4, <1>5, <2>1, <2>2, <2>3, <2>4, LabTyped, TaskStep
<1>6. CASE ~Passes(model)
  <2>1. PausedIsQuiet'
    BY <1>1, <1>4 DEF LabInv, PausedIsQuiet
  <2> QED
    BY <1>1, <1>3, <1>6, <2>1, LabTyped, BesideStep
<1> QED
  BY <1>5, <1>6

LEMMA SelectsStep == ASSUME LabInv, NEW t \in Tasks, Selects(t) PROVE LabStepped
<1> DEFINE s == [at |-> "infer", mint |-> task[t].mint, swapped |-> task[t].swapped, model |-> model]
<1>1. /\ task[t].at = "select"
      /\ UNCHANGED <<mode, model, installed, paused, settled, outcomeVars, auditVars, download, unproven>>
      /\ (task' = [task EXCEPT ![t] = s] /\ UNCHANGED queueVars) \/ EndsTask(t)
  BY DEF Selects
<1>2. CASE EndsTask(t)
  BY <1>1, <1>2, EndedStep
<1>3. CASE task' = [task EXCEPT ![t] = s] /\ UNCHANGED queueVars
  <2>1. task[t] \in Waiting
    BY <1>1, LabTyped, StageFacts
  <2>2. s \in Stages /\ s.at = "infer" /\ s.mint = task[t].mint /\ s.swapped = task[t].swapped /\ s.model = model
    BY <2>1, LabTyped DEF Stages, Waiting, Asking
  <2> HIDE DEF s
  <2>3. task'[t] = s /\ \A u \in Tasks \ {t} : task'[u] = task[u]
    BY <1>3, LabTyped
  <2>4. QueuedMintsExact' /\ QueuedOnce'
    <3>1. task'["shadow"] = task["shadow"] \/ (task["shadow"].at = "select" /\ task'["shadow"] = s /\ t = "shadow")
      BY <1>1, <2>3 DEF Tasks
    <3> QED
      BY <1>3, <2>2, <3>1, QueueKept
  <2>5. AuditsKnown'
    <3>1. CASE t = "event"
      BY <1>1, <2>2, <2>3, <3>1 DEF LabInv, AuditsKnown, auditVars
    <3>2. CASE t # "event"
      <4>1. task'["event"] = task["event"]
        BY <2>3, <3>2 DEF Tasks
      <4> QED
        BY <1>1, <4>1, AuditsKept DEF auditVars, LabInv, AuditsKnown
    <3> QED
      BY <3>1, <3>2
  <2>6. settled => ~Busy'
    <3>1. CASE t = "event"
      <4>1. task'["shadow"] = task["shadow"]
        BY <2>3, <3>1 DEF Tasks
      <4> QED
        BY <4>1 DEF LabInv, PausedIsQuiet, Busy
    <3>2. CASE t = "shadow"
      BY <1>1, <3>2 DEF LabInv, PausedIsQuiet, Busy
    <3> QED
      BY <3>1, <3>2 DEF Tasks
  <2>7. UNCHANGED <<cache, audit, qualified, shadowQueue, queuedMints>>
    BY <1>1, <1>3 DEF auditVars, queueVars
  <2>8. task'["event"].at # "slot"
    BY <2>2, <2>3, LabTyped DEF Tasks
  <2>9. paused => shadowQueue' = <<>>
    BY <2>7 DEF LabInv, PausedIsQuiet
  <2> QED
    BY <1>1, <1>3, <2>2, <2>4, <2>5, <2>6, <2>7, <2>8, <2>9, LabTyped, TaskStep
<1> QED
  BY <1>1, <1>2, <1>3

\* A task that has a row moves on: the other task and its row are not touched.
LEMMA RowStep ==
    ASSUME LabInv, NEW t \in Tasks, NEW s \in Stages, task' = [task EXCEPT ![t] = s],
           UNCHANGED <<mode, model, installed, paused, settled, qualified, download, audited, audit>>,
           cache' \in {cache, NoCache}, ~unproven', rows' \in [Rows -> Assessments],
           pendingOutcomes' \subseteq Rows, task[t].at \in {"infer", "save", "commit"},
           s.at \in {"idle", "save", "commit"},
           s.at # "idle" => s.swapped = task[t].swapped /\ s.model = task[t].model,
           QueuedMintsExact', QueuedOnce', shadowQueue' = shadowQueue, queuedMints' \subseteq queuedMints,
           OutcomesAwaited', RowsOwned', FinalStep
    PROVE  LabStepped
<1>1. /\ task' \in [Tasks -> Stages] /\ task'[t] = s
      /\ \A u \in Tasks \ {t} : task'[u] = task[u]
  BY LabTyped
<1>2. task'["event"].at # "slot"
  BY <1>1, LabTyped DEF Tasks
<1>3. LabTypes'
  BY <1>1, <1>2, LabTyped, NoCacheFacts, LabTypesAgain
<1>4. AuditsKnown'
  <2>1. (cache'.ok => cache'.of \in audited') /\ (audit'.ok => audit'.of \in audited')
    BY NoCacheFacts DEF LabInv, AuditsKnown
  <2>2. CASE t = "event"
    BY <1>1, <2>1, <2>2 DEF LabInv, AuditsKnown
  <2>3. CASE t # "event"
    <3>1. task'["event"] = task["event"]
      BY <1>1, <2>3 DEF Tasks
    <3> QED
      BY <2>1, <3>1 DEF LabInv, AuditsKnown
  <2> QED
    BY <2>2, <2>3
<1>5. PausedIsQuiet'
  <2>1. settled => ~Busy'
    <3>1. CASE t = "event"
      <4>1. task'["shadow"] = task["shadow"]
        BY <1>1, <3>1 DEF Tasks
      <4> QED
        BY <4>1 DEF LabInv, PausedIsQuiet, Busy
    <3>2. CASE t = "shadow"
      BY <3>2 DEF LabInv, PausedIsQuiet, Busy
    <3> QED
      BY <3>1, <3>2 DEF Tasks
  <2> QED
    BY <2>1 DEF LabInv, PausedIsQuiet
<1> QED
  BY <1>3, <1>4, <1>5 DEF LabInv, LabStepped

LEMMA AnswersStep ==
    ASSUME LabInv, NEW t \in Tasks, NEW r \in Rows, Answers(t, r) PROVE LabStepped
<1> DEFINE s == [at |-> "save", mint |-> task[t].mint, swapped |-> task[t].swapped,
                 model |-> task[t].model, row |-> r]
<1> DEFINE w == [status |-> "made", mint |-> task[t].mint, model |-> task[t].model]
<1>1. /\ task[t].at = "infer" /\ rows[r] = Unused /\ task' = [task EXCEPT ![t] = s]
      /\ rows' = [rows EXCEPT ![r] = w] /\ pendingOutcomes' = pendingOutcomes
      /\ UNCHANGED <<mode, model, installed, paused, settled, queueVars, auditVars, download, unproven>>
  BY DEF Answers, AwaitedAtAnswer
<1>2. task[t] \in Asking
  BY <1>1, LabTyped, StageFacts
<1>3. /\ s \in Stages /\ s.at = "save" /\ s.mint = task[t].mint /\ s.swapped = task[t].swapped
      /\ s.model = task[t].model /\ s.row = r
  BY <1>2 DEF Stages, Asking, Saving
<1>4. w \in Assessments /\ w.status = "made"
  BY <1>2 DEF Asking, Assessments
<1> HIDE DEF s, w
<1>5. task'[t] = s /\ \A u \in Tasks \ {t} : task'[u] = task[u]
  BY <1>1, LabTyped
<1>6. /\ rows' \in [Rows -> Assessments] /\ rows'[r] = w /\ \A q \in Rows \ {r} : rows'[q] = rows[q]
  BY <1>1, <1>4, LabTyped
<1>7. rows[r].status = "unused"
  BY <1>1 DEF Unused
<1>8. QueuedMintsExact' /\ QueuedOnce'
  <2>1. task'["shadow"] = task["shadow"] \/ (task["shadow"].at = "infer" /\ task'["shadow"] = s /\ t = "shadow")
    BY <1>1, <1>5 DEF Tasks
  <2> QED
    BY <1>1, <1>3, <2>1, QueueKept
<1>9. OutcomesAwaited'
  BY <1>1, <1>4, <1>5, <1>6 DEF LabInv, OutcomesAwaited
<1>10. \A u \in Tasks : task[u].at \in {"save", "commit"} => task[u].row # r /\ task[u].row \in Rows
  <2> TAKE u \in Tasks
  <2> HAVE task[u].at \in {"save", "commit"}
  <2>1. task[u].row \in Rows
    BY LabTyped, StageFacts
  <2> QED
    BY <1>7, <2>1 DEF LabInv, RowsOwned
<1>11. RowsOwned'
  <2>1. \A p \in pendingOutcomes' : rows'[p].status = "open"
    BY <1>1, <1>6, <1>7, LabTyped DEF LabInv, RowsOwned
  <2>2. \A u \in Tasks : task'[u].at = "save" => rows'[task'[u].row].status = "made"
    BY <1>3, <1>4, <1>5, <1>6, <1>10 DEF LabInv, RowsOwned
  <2>3. \A u \in Tasks : task'[u].at = "commit" =>
           rows'[task'[u].row].status = "open" /\ task'[u].row \notin pendingOutcomes'
    BY <1>1, <1>3, <1>5, <1>6, <1>10 DEF LabInv, RowsOwned
  <2>4. \A u, v \in Tasks : task'[u].at \in {"save", "commit"} /\ task'[v].at \in {"save", "commit"}
                               /\ task'[u].row = task'[v].row => u = v
    BY <1>3, <1>5, <1>10 DEF LabInv, RowsOwned
  <2> QED
    BY <2>1, <2>2, <2>3, <2>4 DEF RowsOwned
<1>12. FinalStep
  BY <1>6, <1>7 DEF FinalStep
<1>13. /\ UNCHANGED <<mode, model, installed, paused, settled, qualified, download, audited, audit>>
       /\ cache' \in {cache, NoCache} /\ shadowQueue' = shadowQueue /\ queuedMints' \subseteq queuedMints
       /\ pendingOutcomes' \subseteq Rows
  BY <1>1, LabTyped DEF auditVars, queueVars
<1>14. ~unproven'
  BY <1>1 DEF LabInv, AuditsKnown
<1>15. task[t].at \in {"infer", "save", "commit"} /\ s.at \in {"idle", "save", "commit"}
  BY <1>1, <1>3
<1> QED
  BY <1>1, <1>3, <1>6, <1>8, <1>9, <1>11, <1>12, <1>13, <1>14, <1>15, RowStep

LEMMA SavesRowStep == ASSUME LabInv, NEW t \in Tasks, SavesRow(t) PROVE LabStepped
<1> DEFINE s == [task[t] EXCEPT !.at = "commit"]
<1> DEFINE r == task[t].row
<1> DEFINE w == [status |-> "open", mint |-> task[t].mint, model |-> task[t].model]
<1>1. /\ task[t].at = "save" /\ task' = [task EXCEPT ![t] = s] /\ rows' = [rows EXCEPT ![r] = w]
      /\ UNCHANGED <<mode, model, installed, paused, settled, queueVars, pendingOutcomes, auditVars,
                     download, unproven>>
  BY DEF SavesRow
<1>2. task[t] \in Saving /\ r \in Rows
  BY <1>1, LabTyped, StageFacts
<1>3. /\ s \in Stages /\ s.at = "commit" /\ s.mint = task[t].mint /\ s.swapped = task[t].swapped
      /\ s.model = task[t].model /\ s.row = r
  BY <1>2 DEF Stages, Saving
<1>4. w \in Assessments /\ w.status = "open"
  BY <1>2 DEF Saving, Assessments
<1>5. rows[r].status = "made"
  BY <1>1 DEF LabInv, RowsOwned
<1>6. \A u \in Tasks \ {t} : task[u].at \in {"save", "commit"} => task[u].row # r /\ task[u].row \in Rows
  <2> TAKE u \in Tasks \ {t}
  <2> HAVE task[u].at \in {"save", "commit"}
  <2>1. task[u].row \in Rows
    BY LabTyped, StageFacts
  <2> QED
    BY <1>1, <2>1 DEF LabInv, RowsOwned
<1> HIDE DEF s, w, r
<1>7. task'[t] = s /\ \A u \in Tasks \ {t} : task'[u] = task[u]
  BY <1>1, LabTyped
<1>8. /\ rows' \in [Rows -> Assessments] /\ rows'[r] = w /\ \A q \in Rows \ {r} : rows'[q] = rows[q]
  BY <1>1, <1>2, <1>4, LabTyped
<1>9. QueuedMintsExact' /\ QueuedOnce'
  <2>1. task'["shadow"] = task["shadow"] \/ (task["shadow"].at = "save" /\ task'["shadow"] = s /\ t = "shadow")
    BY <1>1, <1>7 DEF Tasks
  <2> QED
    BY <1>1, <1>3, <2>1, QueueKept
<1>10. OutcomesAwaited'
  <2> SUFFICES ASSUME NEW q \in Rows, rows'[q].status = "open"
               PROVE  q \in pendingOutcomes' \/ \E u \in Tasks : task'[u].at = "commit" /\ task'[u].row = q
    BY DEF OutcomesAwaited
  <2>1. CASE q = r
    BY <1>3, <1>7, <2>1
  <2>2. CASE q # r
    <3>1. q \in pendingOutcomes \/ \E u \in Tasks : task[u].at = "commit" /\ task[u].row = q
      BY <1>8, <2>2 DEF LabInv, OutcomesAwaited
    <3> QED
      BY <1>1, <1>7, <3>1
  <2> QED
    BY <2>1, <2>2
<1>11. r \notin pendingOutcomes
  BY <1>5 DEF LabInv, RowsOwned
<1>12. RowsOwned'
  <2>1. \A p \in pendingOutcomes' : rows'[p].status = "open"
    BY <1>1, <1>8, <1>11, LabTyped DEF LabInv, RowsOwned
  <2>2. \A u \in Tasks : task'[u].at = "save" => rows'[task'[u].row].status = "made"
    BY <1>3, <1>6, <1>7, <1>8 DEF LabInv, RowsOwned
  <2>3. \A u \in Tasks : task'[u].at = "commit" =>
           rows'[task'[u].row].status = "open" /\ task'[u].row \notin pendingOutcomes'
    BY <1>1, <1>3, <1>4, <1>6, <1>7, <1>8, <1>11 DEF LabInv, RowsOwned
  <2>4. \A u, v \in Tasks : task'[u].at \in {"save", "commit"} /\ task'[v].at \in {"save", "commit"}
                               /\ task'[u].row = task'[v].row => u = v
    BY <1>3, <1>6, <1>7 DEF LabInv, RowsOwned
  <2> QED
    BY <2>1, <2>2, <2>3, <2>4 DEF RowsOwned
<1>13. FinalStep
  BY <1>5, <1>8 DEF FinalStep
<1>14. /\ UNCHANGED <<mode, model, installed, paused, settled, qualified, download, audited, audit>>
       /\ cache' \in {cache, NoCache} /\ shadowQueue' = shadowQueue /\ queuedMints' \subseteq queuedMints
       /\ pendingOutcomes' \subseteq Rows
  BY <1>1, LabTyped DEF auditVars, queueVars
<1>15. ~unproven'
  BY <1>1 DEF LabInv, AuditsKnown
<1>16. task[t].at \in {"infer", "save", "commit"} /\ s.at \in {"idle", "save", "commit"}
  BY <1>1, <1>3
<1> QED
  BY <1>1, <1>3, <1>8, <1>9, <1>10, <1>12, <1>13, <1>14, <1>15, <1>16, RowStep

\* The other task's row, seen from a task that ends with one.
LEMMA OtherRows ==
    ASSUME LabInv, NEW t \in Tasks, task[t].at \in {"save", "commit"}
    PROVE  /\ task[t].row \in Rows
           /\ \A u \in Tasks \ {t} : task[u].at \in {"save", "commit"} =>
                task[u].row # task[t].row /\ task[u].row \in Rows
<1>1. \A u \in Tasks : task[u].at \in {"save", "commit"} => task[u].row \in Rows
  BY LabTyped, StageFacts
<1> QED
  BY <1>1 DEF LabInv, RowsOwned

LEMMA SaveFailsStep == ASSUME LabInv, NEW t \in Tasks, SaveFails(t) PROVE LabStepped
<1> DEFINE r == task[t].row
<1>1. /\ task[t].at = "save" /\ EndsTask(t) /\ rows' = [rows EXCEPT ![r].status = "lost"]
      /\ UNCHANGED <<mode, model, installed, paused, settled, pendingOutcomes, auditVars, download,
                     unproven>>
  BY DEF SaveFails
<1>2. /\ task' = [task EXCEPT ![t] = Resting] /\ task'[t] = Resting
      /\ \A u \in Tasks \ {t} : task'[u] = task[u]
      /\ QueuedMintsExact' /\ QueuedOnce' /\ shadowQueue' = shadowQueue /\ queuedMints' \subseteq queuedMints
  BY <1>1, EndsFacts
<1>3. Resting \in Stages /\ Resting.at = "idle"
  BY DEF Stages, Resting
<1>4. /\ r \in Rows /\ rows[r].status = "made"
      /\ \A u \in Tasks \ {t} : task[u].at \in {"save", "commit"} => task[u].row # r /\ task[u].row \in Rows
  BY <1>1, OtherRows DEF LabInv, RowsOwned
<1> HIDE DEF r
<1>5. /\ rows' \in [Rows -> Assessments] /\ rows'[r].status = "lost"
      /\ \A q \in Rows \ {r} : rows'[q] = rows[q]
  <2>1. rows[r] \in [status : {"made", "open", "lost"}, mint : Mints, model : Models]
    BY <1>4, LabTyped, AssessmentFacts
  <2> DEFINE w == [rows[r] EXCEPT !.status = "lost"]
  <2>2. w \in Assessments /\ w.status = "lost"
    BY <2>1 DEF Assessments
  <2>3. rows' = [rows EXCEPT ![r] = w]
    BY <1>1
  <2> HIDE DEF w
  <2> QED
    BY <1>4, <2>2, <2>3, LabTyped
<1>6. OutcomesAwaited'
  <2> SUFFICES ASSUME NEW q \in Rows, rows'[q].status = "open"
               PROVE  q \in pendingOutcomes' \/ \E u \in Tasks : task'[u].at = "commit" /\ task'[u].row = q
    BY DEF OutcomesAwaited
  <2>1. q \in pendingOutcomes \/ \E u \in Tasks : task[u].at = "commit" /\ task[u].row = q
    BY <1>5 DEF LabInv, OutcomesAwaited
  <2> QED
    BY <1>1, <1>2, <2>1
<1>7. RowsOwned'
  <2>1. \A p \in pendingOutcomes' : rows'[p].status = "open"
    BY <1>1, <1>4, <1>5, LabTyped DEF LabInv, RowsOwned
  <2>2. \A u \in Tasks : task'[u].at = "save" => rows'[task'[u].row].status = "made"
    BY <1>2, <1>3, <1>4, <1>5 DEF LabInv, RowsOwned
  <2>3. \A u \in Tasks : task'[u].at = "commit" =>
           rows'[task'[u].row].status = "open" /\ task'[u].row \notin pendingOutcomes'
    BY <1>1, <1>2, <1>3, <1>4, <1>5 DEF LabInv, RowsOwned
  <2>4. \A u, v \in Tasks : task'[u].at \in {"save", "commit"} /\ task'[v].at \in {"save", "commit"}
                               /\ task'[u].row = task'[v].row => u = v
    BY <1>2, <1>3 DEF LabInv, RowsOwned
  <2> QED
    BY <2>1, <2>2, <2>3, <2>4 DEF RowsOwned
<1>8. FinalStep
  BY <1>4, <1>5 DEF FinalStep
<1>9. /\ UNCHANGED <<mode, model, installed, paused, settled, qualified, download, audited, audit>>
      /\ cache' \in {cache, NoCache} /\ pendingOutcomes' \subseteq Rows
  BY <1>1, LabTyped DEF auditVars
<1>10. ~unproven'
  BY <1>1 DEF LabInv, AuditsKnown
<1>11. task[t].at \in {"infer", "save", "commit"}
  BY <1>1
<1> QED
  BY <1>2, <1>3, <1>5, <1>6, <1>7, <1>8, <1>9, <1>10, <1>11, RowStep

LEMMA PublishesStep == ASSUME LabInv, NEW t \in Tasks, Publishes(t) PROVE LabStepped
<1> DEFINE r == task[t].row
<1>1. /\ task[t].at = "commit" /\ EndsTask(t) /\ pendingOutcomes' = pendingOutcomes \cup {r}
      /\ cache' = NoCache
      /\ unproven' = (unproven \/ (t = "event" /\ ~task[t].swapped /\ task[t].model \notin audited))
      /\ UNCHANGED <<mode, model, installed, paused, settled, rows, qualified, audit, audited, download>>
  BY DEF Publishes
<1>2. /\ task' = [task EXCEPT ![t] = Resting] /\ task'[t] = Resting
      /\ \A u \in Tasks \ {t} : task'[u] = task[u]
      /\ QueuedMintsExact' /\ QueuedOnce' /\ shadowQueue' = shadowQueue /\ queuedMints' \subseteq queuedMints
  BY <1>1, EndsFacts
<1>3. Resting \in Stages /\ Resting.at = "idle"
  BY DEF Stages, Resting
<1>4. /\ r \in Rows /\ rows[r].status = "open"
      /\ \A u \in Tasks \ {t} : task[u].at \in {"save", "commit"} => task[u].row # r /\ task[u].row \in Rows
  BY <1>1, OtherRows DEF LabInv, RowsOwned
<1>5. ~unproven'
  <2>1. ~unproven
    BY DEF LabInv, AuditsKnown
  <2>2. t = "event" /\ ~task[t].swapped => task[t].model \in audited
    BY <1>1 DEF LabInv, AuditsKnown
  <2> QED
    BY <1>1, <2>1, <2>2
<1> HIDE DEF r
<1>6. OutcomesAwaited'
  <2> SUFFICES ASSUME NEW q \in Rows, rows'[q].status = "open"
               PROVE  q \in pendingOutcomes' \/ \E u \in Tasks : task'[u].at = "commit" /\ task'[u].row = q
    BY DEF OutcomesAwaited
  <2>1. q \in pendingOutcomes \/ \E u \in Tasks : task[u].at = "commit" /\ task[u].row = q
    BY <1>1 DEF LabInv, OutcomesAwaited
  <2>2. task[t].row = r
    BY DEF r
  <2> QED
    BY <1>1, <1>2, <2>1, <2>2
<1>7. RowsOwned'
  <2>1. \A p \in pendingOutcomes' : rows'[p].status = "open"
    BY <1>1, <1>4 DEF LabInv, RowsOwned
  <2>2. \A u \in Tasks : task'[u].at = "save" => rows'[task'[u].row].status = "made"
    BY <1>1, <1>2, <1>3 DEF LabInv, RowsOwned
  <2>3. \A u \in Tasks : task'[u].at = "commit" =>
           rows'[task'[u].row].status = "open" /\ task'[u].row \notin pendingOutcomes'
    BY <1>1, <1>2, <1>3, <1>4 DEF LabInv, RowsOwned
  <2>4. \A u, v \in Tasks : task'[u].at \in {"save", "commit"} /\ task'[v].at \in {"save", "commit"}
                               /\ task'[u].row = task'[v].row => u = v
    BY <1>2, <1>3 DEF LabInv, RowsOwned
  <2> QED
    BY <2>1, <2>2, <2>3, <2>4 DEF RowsOwned
<1>8. FinalStep
  BY <1>1 DEF FinalStep
<1>9. pendingOutcomes' \subseteq Rows /\ rows' \in [Rows -> Assessments]
  BY <1>1, <1>4, LabTyped
<1>10. task[t].at \in {"infer", "save", "commit"} /\ cache' \in {cache, NoCache}
  BY <1>1
<1> QED
  BY <1>1, <1>2, <1>3, <1>5, <1>6, <1>7, <1>8, <1>9, <1>10, RowStep

LEMMA ResolveOutcomeStep == ASSUME LabInv, NEW r \in Rows, ResolveOutcome(r) PROVE LabStepped
<1> DEFINE w == [status |-> "resolved"]
<1>1. /\ task["event"].at = "idle" /\ r \in pendingOutcomes /\ rows' = [rows EXCEPT ![r] = w]
      /\ pendingOutcomes' = pendingOutcomes \ {r} /\ cache' = NoCache
      /\ qualified' \in {qualified \cup {rows[r].model}, qualified \ {rows[r].model}}
      /\ UNCHANGED <<mode, model, installed, paused, settled, queueVars, task, audit, audited, download,
                     unproven>>
  BY DEF ResolveOutcome
<1>2. w \in Assessments /\ w.status = "resolved"
  BY DEF Assessments
<1> HIDE DEF w
<1>3. rows' \in [Rows -> Assessments] /\ rows'[r] = w /\ \A q \in Rows \ {r} : rows'[q] = rows[q]
  BY <1>1, <1>2, LabTyped
<1>4. rows[r].status = "open" /\ rows[r].model \in Models
  <2>1. rows[r].status = "open"
    BY <1>1 DEF LabInv, RowsOwned
  <2> QED
    BY <2>1, LabTyped, AssessmentFacts
<1>5. \A u \in Tasks : task[u].at \in {"save", "commit"} => task[u].row # r /\ task[u].row \in Rows
  <2>1. \A u \in Tasks : task[u].at \in {"save", "commit"} => task[u].row \in Rows
    BY LabTyped, StageFacts
  <2> QED
    BY <1>1, <1>4, <2>1 DEF LabInv, RowsOwned
<1>6. LabTypes'
  BY <1>1, <1>3, <1>4, LabTyped, NoCacheFacts, LabTypesAgain DEF queueVars
<1>7. QueuedMintsExact' /\ QueuedOnce'
  BY <1>1, QueueKept
<1>8. OutcomesAwaited'
  BY <1>1, <1>2, <1>3 DEF LabInv, OutcomesAwaited
<1>9. RowsOwned'
  <2>1. \A p \in pendingOutcomes' : rows'[p].status = "open"
    BY <1>1, <1>3, LabTyped DEF LabInv, RowsOwned
  <2> QED
    BY <1>1, <1>3, <1>5, <2>1 DEF LabInv, RowsOwned
<1>10. AuditsKnown'
  BY <1>1, NoCacheFacts, AuditsKept DEF LabInv, AuditsKnown
<1>11. PausedIsQuiet'
  BY <1>1 DEF LabInv, PausedIsQuiet, Busy, queueVars
<1>12. FinalStep
  BY <1>2, <1>3 DEF FinalStep
<1> QED
  BY <1>6, <1>7, <1>8, <1>9, <1>10, <1>11, <1>12 DEF LabInv, LabStepped

LEMMA RestartLabStep == ASSUME LabInv, RestartLab PROVE LabStepped
<1>1. /\ paused' = FALSE /\ settled' = FALSE /\ task' = [t \in Tasks |-> Resting]
      /\ shadowQueue' = <<>> /\ queuedMints' = {} /\ download' = NoModel
      /\ rows' = [r \in Rows |-> IF rows[r].status = "made" THEN [rows[r] EXCEPT !.status = "lost"]
                                 ELSE rows[r]]
      /\ pendingOutcomes' = {r \in Rows : rows[r].status = "open"}
      /\ mode' \in {"shadow", mode} /\ cache' = NoCache /\ audit' = NoCache
      /\ UNCHANGED <<model, installed, qualified, audited, unproven>>
  BY DEF RestartLab
<1>2. Resting \in Stages /\ Resting.at = "idle"
  BY DEF Stages, Resting
<1>3. \A t \in Tasks : task'[t].at = "idle"
  BY <1>1, <1>2
<1>4. task'["shadow"].at = "idle" /\ task'["event"].at = "idle"
  BY <1>3 DEF Tasks
<1>5. \A r \in Rows : /\ rows'[r] \in Assessments
                      /\ rows[r].status # "made" => rows'[r] = rows[r]
                      /\ rows[r].status = "made" => rows'[r].status = "lost"
  <2> TAKE r \in Rows
  <2>1. CASE rows[r].status = "made"
    <3>1. rows[r] \in [status : {"made", "open", "lost"}, mint : Mints, model : Models]
      BY <2>1, LabTyped, AssessmentFacts
    <3>2. rows'[r] = [rows[r] EXCEPT !.status = "lost"]
      BY <1>1, <2>1
    <3> QED
      BY <2>1, <3>1, <3>2 DEF Assessments
  <2>2. CASE rows[r].status # "made"
    BY <1>1, <2>2, LabTyped
  <2> QED
    BY <2>1, <2>2
<1>6. LabTypes'
  <2>1. task' \in [Tasks -> Stages] /\ rows' \in [Rows -> Assessments] /\ pendingOutcomes' \subseteq Rows
    BY <1>1, <1>2, <1>5
  <2>2. shadowQueue' \in Seq(Mints) /\ Len(shadowQueue') <= QueueCapacity
    BY <1>1, LabAssumption
  <2> QED
    BY <1>1, <1>4, <2>1, <2>2, LabTyped, NoCacheFacts, LabTypesAgain
<1>7. Range(shadowQueue') = {} /\ Len(shadowQueue') = 0
  BY <1>1 DEF Range
<1>8. QueuedMintsExact' /\ QueuedOnce'
  BY <1>1, <1>4, <1>7 DEF QueuedMintsExact, QueuedOnce
<1>9. OutcomesAwaited' /\ RowsOwned'
  BY <1>1, <1>3, <1>5 DEF OutcomesAwaited, RowsOwned
<1>10. AuditsKnown'
  BY <1>1, <1>4, NoCacheFacts DEF LabInv, AuditsKnown
<1>11. PausedIsQuiet'
  BY <1>1 DEF PausedIsQuiet
<1>12. FinalStep
  BY <1>5 DEF FinalStep
<1> QED
  BY <1>6, <1>8, <1>9, <1>10, <1>11, <1>12 DEF LabInv, LabStepped

LEMMA LabStarts == ASSUME LabInit PROVE LabInv
<1>1. /\ mode = "off" /\ model \in Models /\ installed = {model} /\ paused = FALSE /\ settled = FALSE
      /\ shadowQueue = <<>> /\ queuedMints = {} /\ task = [t \in Tasks |-> Resting]
      /\ rows = [r \in Rows |-> Unused] /\ pendingOutcomes = {}
      /\ qualified = {} /\ cache = NoCache /\ audit = NoCache /\ audited = {}
      /\ download = NoModel /\ unproven = FALSE
  BY DEF LabInit
<1>2. Resting \in Stages /\ Resting.at = "idle" /\ Unused \in Assessments /\ Unused.status = "unused"
  BY DEF Stages, Resting, Assessments, Unused
<1>3. \A t \in Tasks : task[t].at = "idle"
  BY <1>1, <1>2
<1>4. task["shadow"].at = "idle" /\ task["event"].at = "idle"
  BY <1>3 DEF Tasks
<1>5. Range(shadowQueue) = {} /\ Len(shadowQueue) = 0 /\ shadowQueue \in Seq(Mints) /\ 0 <= QueueCapacity
  BY <1>1, LabAssumption DEF Range
<1>6. LabTypes
  <2>1. task \in [Tasks -> Stages] /\ rows \in [Rows -> Assessments]
    BY <1>1, <1>2
  <2>2. cache.of = NoModel
    BY <1>1 DEF NoCache
  <2>3. LabTypeOK
    BY <1>1, <1>5, <2>2 DEF LabTypeOK
  <2> QED
    BY <1>1, <1>4, <1>5, <2>1, <2>3, NoCacheFacts DEF LabTypes
<1>7. QueuedMintsExact /\ QueuedOnce
  BY <1>1, <1>4, <1>5 DEF QueuedMintsExact, QueuedOnce
<1>8. OutcomesAwaited /\ RowsOwned
  BY <1>1, <1>2, <1>3 DEF OutcomesAwaited, RowsOwned
<1>9. AuditsKnown /\ PausedIsQuiet
  BY <1>1, <1>4, NoCacheFacts DEF AuditsKnown, PausedIsQuiet
<1> QED
  BY <1>6, <1>7, <1>8, <1>9 DEF LabInv

LEMMA LabStuttersStep == ASSUME LabInv, UNCHANGED labVars PROVE LabStepped
<1>1. UNCHANGED <<mode, model, installed, paused, settled, queueVars, task, outcomeVars, auditVars,
                  download, unproven>>
  BY DEF labVars
<1>2. PausedIsQuiet'
  BY <1>1 DEF LabInv, PausedIsQuiet, Busy, queueVars
<1> QED
  BY <1>1, <1>2, LabTyped, BesideStep DEF auditVars, LabInv, AuditsKnown

LEMMA LabSteps == ASSUME LabInv, [LabNext]_labVars PROVE LabStepped
<1>1. CASE WorkerTakes \/ SlotRefused \/ SlotGranted \/ CancelWorker
  BY <1>1, WorkerTakesStep, GivesUpSteps, SlotGrantedStep
<1>2. CASE AuditReads \/ AuditPublishes \/ CacheExpires \/ RefreshModels
  BY <1>2, AuditSteps
<1>3. CASE DownloadEnds \/ PauseLab \/ SettleLab \/ ResumeLab \/ RestartLab
  BY <1>3, SelectSteps, PauseLabStep, OwnerSteps, RestartLabStep
<1>4. CASE \E m \in Mints : EnqueueShadow(m) \/ GuardBegins(m)
  BY <1>4, EnqueueStep, GuardBeginsStep
<1>5. CASE \E t \in Tasks : Selects(t) \/ SavesRow(t) \/ SaveFails(t) \/ Publishes(t)
  BY <1>5, SelectsStep, SavesRowStep, SaveFailsStep, PublishesStep
<1>6. CASE \E t \in Tasks, r \in Rows : Answers(t, r)
  BY <1>6, AnswersStep
<1>7. CASE \E r \in Rows : ResolveOutcome(r)
  BY <1>7, ResolveOutcomeStep
<1>8. CASE \E new \in {"off", "shadow", "guarded"} : SetMode(new)
  BY <1>8, SetModeStep
<1>9. CASE \E m \in Models : SelectModel(m) \/ StartDownload(m) \/ RemoveModel(m)
  BY <1>9, SelectSteps, OwnerSteps
<1>10. CASE UNCHANGED labVars
  BY <1>10, LabStuttersStep
<1> QED
  BY <1>1, <1>2, <1>3, <1>4, <1>5, <1>6, <1>7, <1>8, <1>9, <1>10 DEF LabNext

\* For any number of tokens, models and assessments and any capacity: every token the critic takes
\* up is given back, every saved answer is followed to its one outcome, every veto has an audited
\* model behind it, and a settled lab stays quiet (ai_lab.py 110-1116).
THEOREM LabAlwaysAccountable == LabSpec => LabIsAccountable
<1>1. LabInit => LabInv
  BY LabStarts
<1>2. LabInv /\ [LabNext]_labVars => LabInv' /\ FinalStep
  BY LabSteps DEF LabStepped
<1>3. LabInv => LabTypeOK /\ QueuedMintsExact /\ OutcomesAwaited /\ VetoIsQualified /\ SettledLabIsQuiet
  BY DEF LabInv, LabTypes, AuditsKnown, PausedIsQuiet, VetoIsQualified, SettledLabIsQuiet
<1>4. FinalStep =>
        [\A r \in Rows : rows[r].status = "resolved" => rows'[r].status = "resolved"]_labVars
  BY DEF FinalStep
<1> QED
  BY <1>1, <1>2, <1>3, <1>4, PTL DEF LabSpec, LabIsAccountable, OutcomesFinal

=============================================================================
