--------------------------- MODULE LearningProofs ---------------------------
(***************************************************************************)
(* What learning may rest on, for every bound.  The continuity guard       *)
(* (IntegrityWindow) keeps lost events and outages out of its windows, for *)
(* every window length, bound on remembered tokens and age of timestamps;  *)
(* the outcomes of a mint (LearningCollection) are of its first entry, in  *)
(* time, counted once and final.                                           *)
(***************************************************************************)
EXTENDS IntegrityWindow, LearningCollection, SumTheorems, TLAPS

-----------------------------------------------------------------------------
\* The continuity guard.

\* What the memory must know of a lost event: it is outside every window that can still
\* be asked about, or the source-wide boundary or the token's own covers it.
LossCovered ==
    \A m \in Mints : lostAt[m] # Never =>
        \/ lostAt[m] <= now - Window
        \/ streamGap >= lostAt[m] - MaxLag
        \/ mintGap[m] >= lostAt[m]

LossInv == WindowTypeOK /\ LossCovered

\* What it must know of outages: one in progress is acknowledged or still to be noticed
\* by its count, and a stream taken as healthy has its horizon after the last outage.
OutageCovered ==
    ~contradicted =>
        /\ ~healthy => ~wasHealthy \/ reconnects > lastReconnects
        /\ healthy /\ wasHealthy /\ reconnects = lastReconnects =>
               streamGap >= downAt - MaxLag

OutageInv == WindowTypeOK /\ OutageCovered

GapMints == {m \in Mints : mintGap[m] # Never}
GapInv == IsFiniteSet(GapMints) /\ Cardinality(GapMints) <= MaxGapMints

USE DEF Never, NoTick

-----------------------------------------------------------------------------
\* What reading health may do to the boundaries and to the tick.
LEMMA ObserveEffect ==
    ASSUME ObserveHealth
    PROVE  /\ tick # NoTick /\ tick' \in {tick, NoTick}
           /\ recording' # "no" => tick' = tick
           /\ UNCHANGED <<streamGap, mintGap>> \/ MarkStreamGap(tick)
<1>1. recording = "no" /\ tick # NoTick
      BY DEF ObserveHealth
<1>2. CASE incident /\ reconnects > seenReconnects
      BY Zenon, <1>1, <1>2 DEF ObserveHealth
<1>3. CASE ~(incident /\ reconnects > seenReconnects)
  <2>1. UNCHANGED recording /\ \E was : FinishObservation(healthy, was)
        BY Zenon, <1>3 DEF ObserveHealth
  <2> QED BY Zenon, <1>1, <2>1 DEF FinishObservation
<1> QED BY <1>2, <1>3

LEMMA InitTyped == Init => WindowTypeOK
<1>1. Init => FlagsTyped
      BY Zenon, WindowAssumption DEF Init, FlagsTyped
<1>2. Init => ClocksTyped
      BY WindowAssumption DEF Init, ClocksTyped
<1> QED BY <1>1, <1>2 DEF WindowTypeOK

LEMMA StepFlags == WindowTypeOK /\ [Next]_vars => FlagsTyped'
<1> SUFFICES ASSUME FlagsTyped, [Next]_vars PROVE FlagsTyped'
    BY DEF WindowTypeOK
<1> USE WindowAssumption DEF FlagsTyped, providerVars, memoryVars, heartbeatVars, historyVars
<1>1. CASE Tick \/ Disconnect \/ Reconnect \/ SourceRestart \/ LoseUnidentified
      BY Zenon, <1>1 DEF Tick, Disconnect, Reconnect, SourceRestart, LoseUnidentified
<1>2. CASE HeartbeatStart
      BY Zenon, <1>2 DEF HeartbeatStart
<1>3. CASE ObserveHealth
      BY Zenon, <1>3 DEF ObserveHealth, FinishObservation
<1>4. CASE IncidentRecorded
      BY Zenon, <1>4 DEF IncidentRecorded, FinishObservation
<1>5. ASSUME NEW m \in Mints, LoseEvent(m) PROVE FlagsTyped'
      BY Zenon, <1>5 DEF LoseEvent
<1>6. ASSUME NEW m \in Mints, NEW at \in 0..now, Decide(m, at) PROVE FlagsTyped'
      BY Zenon, <1>6 DEF Decide
<1>7. CASE UNCHANGED vars
      BY Zenon, <1>7 DEF vars
<1> QED BY <1>1, <1>2, <1>3, <1>4, <1>5, <1>6, <1>7 DEF Next

\* No action sets a timestamp into the future, so no timestamp is ever in the future.
LEMMA StepClocks == WindowTypeOK /\ [Next]_vars => ClocksTyped'
<1> SUFFICES ASSUME ClocksTyped, [Next]_vars PROVE ClocksTyped'
    BY DEF WindowTypeOK
<1> USE WindowAssumption
<1>1. CASE Tick
      BY <1>1 DEF Tick, ClocksTyped, providerVars, memoryVars, heartbeatVars
<1>2. CASE Disconnect
      BY <1>2 DEF Disconnect, ClocksTyped, memoryVars, heartbeatVars
<1>3. CASE Reconnect
      BY <1>3 DEF Reconnect, ClocksTyped, memoryVars, heartbeatVars, historyVars
<1>4. CASE SourceRestart
      BY <1>4 DEF SourceRestart, MarkStreamGap, ClocksTyped, heartbeatVars
<1>5. CASE LoseUnidentified
      BY <1>5 DEF LoseUnidentified, MarkStreamGap, ClocksTyped, providerVars, heartbeatVars
<1>6. CASE HeartbeatStart
      BY <1>6 DEF HeartbeatStart, ClocksTyped, providerVars, memoryVars, historyVars
<1>7. CASE ObserveHealth
  <2>1. UNCHANGED <<now, reconnects, downAt, lostAt>>
        BY <1>7 DEF ObserveHealth, providerVars, historyVars
  <2>2. /\ seenReconnects' \in {seenReconnects, reconnects}
        /\ lastReconnects' \in {lastReconnects, reconnects}
        BY Zenon, <1>7 DEF ObserveHealth
  <2> QED BY <1>7, <2>1, <2>2, ObserveEffect DEF MarkStreamGap, ClocksTyped
<1>8. CASE IncidentRecorded
      BY <1>8 DEF IncidentRecorded, FinishObservation, MarkStreamGap, ClocksTyped,
                  providerVars, historyVars
<1>9. ASSUME NEW m \in Mints, LoseEvent(m) PROVE ClocksTyped'
      BY <1>9 DEF LoseEvent, NoteMintGap, MarkStreamGap, ClocksTyped, providerVars,
                  heartbeatVars
<1>10. ASSUME NEW m \in Mints, NEW at \in 0..now, Decide(m, at) PROVE ClocksTyped'
      BY <1>10 DEF Decide, Usable, MarkStreamGap, ClocksTyped, providerVars, heartbeatVars,
                   historyVars
<1>11. CASE UNCHANGED vars
      BY <1>11 DEF vars, ClocksTyped, providerVars, memoryVars, heartbeatVars, historyVars
<1> QED BY <1>1, <1>2, <1>3, <1>4, <1>5, <1>6, <1>7, <1>8, <1>9, <1>10, <1>11 DEF Next

LEMMA StepTyped == WindowTypeOK /\ [Next]_vars => WindowTypeOK'
  BY StepFlags, StepClocks DEF WindowTypeOK

-----------------------------------------------------------------------------
\* Pruning, popping, clearing and the fall-back at the limit all keep a loss covered.
LEMMA StepLossCovered == LossInv /\ [Next]_vars => LossCovered'
<1> SUFFICES ASSUME WindowTypeOK, LossCovered, [Next]_vars,
                    NEW x \in Mints, lostAt'[x] # Never
             PROVE  \/ lostAt'[x] <= now' - Window
                    \/ streamGap' >= lostAt'[x] - MaxLag
                    \/ mintGap'[x] >= lostAt'[x]
    BY DEF LossInv, LossCovered
<1> USE WindowAssumption
<1>1. CASE Tick
      BY <1>1 DEF Tick, WindowTypeOK, FlagsTyped,
                  ClocksTyped, LossCovered, providerVars, memoryVars, heartbeatVars
<1>2. CASE Disconnect
      BY <1>2 DEF Disconnect, WindowTypeOK, FlagsTyped,
                  ClocksTyped, LossCovered, memoryVars, heartbeatVars
<1>3. CASE Reconnect
      BY <1>3 DEF Reconnect, WindowTypeOK, FlagsTyped,
                  ClocksTyped, LossCovered, memoryVars, heartbeatVars, historyVars
<1>4. CASE SourceRestart
      BY <1>4 DEF SourceRestart, MarkStreamGap, WindowTypeOK, FlagsTyped,
                  ClocksTyped, heartbeatVars
<1>5. CASE LoseUnidentified
      BY <1>5 DEF LoseUnidentified, MarkStreamGap, WindowTypeOK, FlagsTyped,
                  ClocksTyped, providerVars, heartbeatVars
<1>6. CASE HeartbeatStart
      BY <1>6 DEF HeartbeatStart, WindowTypeOK, FlagsTyped,
                  ClocksTyped, LossCovered, providerVars, memoryVars,
                  historyVars
<1>7. CASE ObserveHealth
  <2>1. UNCHANGED <<now, lostAt>>
        BY <1>7 DEF ObserveHealth, historyVars
  <2> QED BY <1>7, <2>1, ObserveEffect DEF MarkStreamGap, WindowTypeOK, ClocksTyped, LossCovered
<1>8. CASE IncidentRecorded
      BY <1>8 DEF IncidentRecorded, FinishObservation, MarkStreamGap, WindowTypeOK, FlagsTyped,
                  ClocksTyped,
                  LossCovered, providerVars, historyVars
<1>9. ASSUME NEW m \in Mints, LoseEvent(m)
      PROVE  \/ lostAt'[x] <= now' - Window
             \/ streamGap' >= lostAt'[x] - MaxLag
             \/ mintGap'[x] >= lostAt'[x]
      BY <1>9 DEF LoseEvent, NoteMintGap, MarkStreamGap, Retained, WindowTypeOK, FlagsTyped,
                  ClocksTyped, LossCovered,
                  providerVars, heartbeatVars
<1>10. ASSUME NEW m \in Mints, NEW at \in 0..now, Decide(m, at)
      PROVE  \/ lostAt'[x] <= now' - Window
             \/ streamGap' >= lostAt'[x] - MaxLag
             \/ mintGap'[x] >= lostAt'[x]
      BY <1>10 DEF Decide, Usable, MarkStreamGap, WindowTypeOK, FlagsTyped,
                  ClocksTyped, LossCovered, providerVars,
                   heartbeatVars, historyVars
<1>11. CASE UNCHANGED vars
      BY <1>11 DEF vars, WindowTypeOK, FlagsTyped,
                  ClocksTyped, LossCovered, providerVars, memoryVars, heartbeatVars,
                   historyVars
<1> QED BY <1>1, <1>2, <1>3, <1>4, <1>5, <1>6, <1>7, <1>8, <1>9, <1>10, <1>11 DEF Next

\* A window that _integrity_learning_window_complete accepts has no lost event of its
\* token in it, up to the age of the timestamps in use (orchestrator.py:1145-1204).
THEOREM LostEventsExcluded == Spec => []NoLossInWindow
<1>1. Init => LossInv
      BY InitTyped DEF Init, LossInv, LossCovered
<1>2. LossInv /\ [Next]_vars => LossInv'
      BY StepTyped, StepLossCovered DEF LossInv
<1>3. LossInv => NoLossInWindow
      BY WindowAssumption DEF LossInv, LossCovered, WindowTypeOK, FlagsTyped,
                  ClocksTyped, NoLossInWindow, Usable,
                              WindowComplete, CleanBefore
<1> QED BY <1>1, <1>2, <1>3, PTL DEF Spec

-----------------------------------------------------------------------------
\* Only a conclusion that contradicts the stream's health uncovers an outage.
LEMMA StepOutageCovered == OutageInv /\ [Next]_vars => OutageCovered'
<1> SUFFICES ASSUME WindowTypeOK, OutageCovered, [Next]_vars PROVE OutageCovered'
    BY DEF OutageInv
<1> USE WindowAssumption
<1>1. CASE Tick
      BY <1>1 DEF Tick, WindowTypeOK, FlagsTyped,
                  ClocksTyped, OutageCovered, providerVars, memoryVars, heartbeatVars
<1>2. CASE Disconnect
      BY <1>2 DEF Disconnect, WindowTypeOK, FlagsTyped,
                  ClocksTyped, OutageCovered, memoryVars, heartbeatVars
<1>3. CASE Reconnect
      BY <1>3 DEF Reconnect, WindowTypeOK, FlagsTyped,
                  ClocksTyped, OutageCovered, memoryVars, heartbeatVars, historyVars
<1>4. CASE SourceRestart
      BY <1>4 DEF SourceRestart, MarkStreamGap, WindowTypeOK, FlagsTyped,
                  ClocksTyped, OutageCovered, heartbeatVars
<1>5. CASE LoseUnidentified
      BY <1>5 DEF LoseUnidentified, MarkStreamGap, WindowTypeOK, FlagsTyped,
                  ClocksTyped, OutageCovered, providerVars,
                  heartbeatVars
<1>6. CASE HeartbeatStart
      BY <1>6 DEF HeartbeatStart, WindowTypeOK, FlagsTyped,
                  ClocksTyped, OutageCovered, providerVars, memoryVars,
                  historyVars
<1>7. CASE ObserveHealth
  <2>1. UNCHANGED <<now, healthy, reconnects, downAt, contradicted>>
        BY <1>7 DEF ObserveHealth, providerVars, historyVars
  <2>2. lastReconnects' = lastReconnects \/ lastReconnects' = reconnects
        BY Zenon, <1>7 DEF ObserveHealth
  <2>3. CASE ~wasHealthy'
        BY <2>1, <2>2, <2>3 DEF OutageCovered
  <2>4. CASE wasHealthy' /\ wasHealthy /\ UNCHANGED <<streamGap, lastReconnects>>
        BY <2>1, <2>4 DEF OutageCovered
  <2>5. CASE MarkStreamGap(tick) /\ wasHealthy' /\ healthy
        BY <1>7, <2>1, <2>5, ObserveEffect DEF MarkStreamGap, WindowTypeOK, ClocksTyped,
                                               OutageCovered
  <2>6. wasHealthy' => \/ wasHealthy /\ UNCHANGED <<streamGap, lastReconnects>>
                       \/ healthy /\ MarkStreamGap(tick)
        BY Zenon, <1>7 DEF ObserveHealth, FinishObservation
  <2> QED BY <2>3, <2>4, <2>5, <2>6
<1>8. CASE IncidentRecorded
  <2>1. UNCHANGED <<now, healthy, reconnects, lastReconnects, downAt>>
        BY <1>8 DEF IncidentRecorded, providerVars
  <2>2. ~contradicted' => ~contradicted /\ (recording = "up" => healthy)
        BY Zenon, <1>8 DEF IncidentRecorded
  <2>3. CASE ~wasHealthy'
        BY <2>1, <2>3 DEF OutageCovered
  <2>4. CASE wasHealthy' /\ wasHealthy /\ UNCHANGED streamGap
        BY <2>1, <2>2, <2>4 DEF OutageCovered
  <2>5. CASE wasHealthy' /\ recording = "up" /\ MarkStreamGap(tick)
    <3>1. tick # NoTick
          BY <1>8 DEF IncidentRecorded, WindowTypeOK, ClocksTyped
    <3> QED BY <2>1, <2>2, <2>5, <3>1 DEF MarkStreamGap, WindowTypeOK, ClocksTyped,
                                          OutageCovered
  <2>6. wasHealthy' => \/ wasHealthy /\ UNCHANGED streamGap
                       \/ recording = "up" /\ MarkStreamGap(tick)
        BY Zenon, <1>8 DEF IncidentRecorded, FinishObservation
  <2> QED BY <2>3, <2>4, <2>5, <2>6
<1>9. ASSUME NEW m \in Mints, LoseEvent(m) PROVE OutageCovered'
      BY <1>9 DEF LoseEvent, NoteMintGap, MarkStreamGap, WindowTypeOK, FlagsTyped,
                  ClocksTyped, OutageCovered,
                  providerVars, heartbeatVars
<1>10. ASSUME NEW m \in Mints, NEW at \in 0..now, Decide(m, at) PROVE OutageCovered'
      BY <1>10 DEF Decide, Usable, MarkStreamGap, WindowTypeOK, FlagsTyped,
                  ClocksTyped, OutageCovered, providerVars,
                   heartbeatVars, historyVars
<1>11. CASE UNCHANGED vars
      BY <1>11 DEF vars, WindowTypeOK, FlagsTyped,
                  ClocksTyped, OutageCovered, providerVars, memoryVars, heartbeatVars,
                   historyVars
<1> QED BY <1>1, <1>2, <1>3, <1>4, <1>5, <1>6, <1>7, <1>8, <1>9, <1>10, <1>11 DEF Next

\* A window that the guard accepts has no outage in it, however outages, waits for the
\* incident store, decisions and restarts interleave, unless the observer concludes from
\* a reading that an outage has overtaken (orchestrator.py:1171-1190, 1596-1624).
THEOREM UncontradictedOutagesExcluded == Spec => []OutagesExcluded
<1>1. Init => OutageInv
      BY InitTyped DEF Init, OutageInv, OutageCovered
<1>2. OutageInv /\ [Next]_vars => OutageInv'
      BY StepTyped, StepOutageCovered DEF OutageInv
<1>3. OutageInv => OutagesExcluded
      BY WindowAssumption DEF OutageInv, OutageCovered, WindowTypeOK, FlagsTyped,
                  ClocksTyped, OutagesExcluded, NoOutageInWindow,
                              Usable, WindowComplete, CleanBefore
<1> QED BY <1>1, <1>2, <1>3, PTL DEF Spec

-----------------------------------------------------------------------------
\* Remembering one more lost event keeps the memory finite and within its bound.
LEMMA NoteWithinBound ==
    ASSUME WindowTypeOK, GapInv, NEW m \in Mints, NoteMintGap(m)
    PROVE  GapInv'
<1> DEFINE kept == Retained(now)
<1>1. kept \subseteq GapMints
      BY DEF Retained, GapMints
<1>2. IsFiniteSet(kept) /\ Cardinality(kept) <= Cardinality(GapMints)
      BY <1>1, FS_Subset DEF GapInv
<1>3. Cardinality(kept) \in Nat /\ Cardinality(GapMints) \in Nat
      BY <1>2, FS_CardinalityType DEF GapInv
<1>4. CASE m \notin kept /\ Cardinality(kept) >= MaxGapMints
  <2>1. GapMints' = {}
        BY <1>4 DEF NoteMintGap, MarkStreamGap, GapMints
  <2> QED BY <2>1, FS_EmptySet, WindowAssumption DEF GapInv
<1>5. CASE ~(m \notin kept /\ Cardinality(kept) >= MaxGapMints)
  <2>1. mintGap' = [x \in Mints |-> IF x = m THEN now ELSE IF x \in kept THEN mintGap[x] ELSE -1]
        BY <1>5 DEF NoteMintGap
  <2>2. \A x \in Mints : mintGap'[x] # -1 <=> x = m \/ x \in kept
        BY <2>1 DEF Retained, WindowTypeOK, ClocksTyped
  <2>3. kept \subseteq Mints
        BY DEF Retained
  <2> HIDE DEF kept
  <2>4. GapMints' = kept \cup {m}
        BY <2>2, <2>3 DEF GapMints
  <2>5. CASE m \in kept
    <3>1. GapMints' = kept
          BY <2>4, <2>5
    <3> QED BY <3>1, <1>2, <1>3, WindowAssumption DEF GapInv
  <2>6. CASE m \notin kept
    <3>1. IsFiniteSet(GapMints') /\ Cardinality(GapMints') = Cardinality(kept) + 1
          BY <2>4, <2>6, <1>2, FS_AddElement
    <3>2. Cardinality(kept) < MaxGapMints
          BY <1>5, <2>6, <1>3, WindowAssumption
    <3> QED BY <3>1, <3>2, <1>3, WindowAssumption DEF GapInv
  <2> QED BY <2>5, <2>6
<1> QED BY <1>4, <1>5

\* Every other action forgets tokens or leaves them alone.
LEMMA FewerGapsBounded ==
    ASSUME GapInv, GapMints' \subseteq GapMints PROVE GapInv'
<1>1. IsFiniteSet(GapMints') /\ Cardinality(GapMints') <= Cardinality(GapMints)
      BY FS_Subset DEF GapInv
<1>2. Cardinality(GapMints') \in Nat /\ Cardinality(GapMints) \in Nat
      BY <1>1, FS_CardinalityType DEF GapInv
<1> QED BY <1>1, <1>2, WindowAssumption DEF GapInv

\* However many tokens lose events, the memory of gaps never outgrows
\* _max_integrity_gap_mints (orchestrator.py:1158-1166).
THEOREM GapMemoryBounded == Spec => []GapMintsBounded
<1>1. Init => WindowTypeOK /\ GapInv
  <2> SUFFICES ASSUME Init PROVE GapInv
      BY InitTyped
  <2>1. GapMints = {}
        BY DEF Init, GapMints
  <2> QED BY <2>1, FS_EmptySet, WindowAssumption DEF GapInv
<1>2. WindowTypeOK /\ GapInv /\ [Next]_vars => GapInv'
  <2> SUFFICES ASSUME WindowTypeOK, GapInv, [Next]_vars PROVE GapInv'
      OBVIOUS
  <2>1. ASSUME NEW m \in Mints, LoseEvent(m) PROVE GapInv'
        BY <2>1, NoteWithinBound DEF LoseEvent
  <2>2. ASSUME NEW m \in Mints, NEW at \in 0..now, Decide(m, at)
        PROVE  GapMints' \subseteq GapMints
        BY <2>2 DEF Decide, MarkStreamGap, GapMints, WindowTypeOK, ClocksTyped
  <2>3. CASE Tick \/ Disconnect \/ Reconnect \/ HeartbeatStart \/ UNCHANGED vars
        BY <2>3, FewerGapsBounded DEF Tick, Disconnect, Reconnect, HeartbeatStart, vars,
                                      memoryVars, GapMints
  <2>4. CASE SourceRestart \/ LoseUnidentified
    <3>1. GapMints' = {}
          BY <2>4 DEF SourceRestart, LoseUnidentified, MarkStreamGap, GapMints
    <3> QED BY <3>1, FewerGapsBounded
  <2>5. CASE ObserveHealth \/ IncidentRecorded
    <3>1. UNCHANGED mintGap \/ mintGap' = [m \in Mints |-> -1]
          BY <2>5 DEF ObserveHealth, IncidentRecorded, FinishObservation, MarkStreamGap
    <3>2. GapMints' \subseteq GapMints
          BY <3>1 DEF GapMints
    <3> QED BY <3>2, FewerGapsBounded
  <2> QED BY <2>1, <2>2, <2>3, <2>4, <2>5, FewerGapsBounded DEF Next
<1>3. GapInv => GapMintsBounded
      BY DEF GapInv, GapMints, GapMintsBounded
<1> QED BY <1>1, <1>2, <1>3, StepTyped, PTL DEF Spec

-----------------------------------------------------------------------------
\* The evidence of a mint.

Cps == [Horizons -> -1..MaxAge]
ItemType == [at : -1..MaxAge, cps : Cps, eligible : BOOLEAN]
Proofs == (0..MaxAge) \X CollectSeasons
EntryType == {NoEntry} \cup Proofs

CollectionTyped ==
    /\ time \in 0..MaxAge /\ collecting \in CollectSeasons
    /\ items \in [Items -> ItemType] /\ rows \in [Items -> ItemType]
    /\ identity \in EntryType /\ ledger \in EntryType /\ first \in EntryType
    /\ seen \in Nat /\ seenSaved \in Nat /\ usable \in Nat
    /\ unledgered \in BOOLEAN

\* A checkpoint is taken once its age is reached, and inside its window if it has a value.
ItemFits(e) ==
    /\ e.at <= time
    /\ \A h \in Horizons : e.cps[h] # 0 => Known(e) /\ time - e.at >= h
    /\ \A h \in Horizons : e.cps[h] > 0 => e.cps[h] \in h..(h + CheckpointGrace)

ItemsFit == \A i \in Items : ItemFits(items[i]) /\ ItemFits(rows[i])

\* What a new state of an item keeps of the one before.
Keeps(old, new) ==
    /\ new.at = old.at /\ new.eligible = old.eligible
    /\ \A h \in Horizons : old.cps[h] \in {0, new.cps[h]}

\* The database is behind memory, and never differs in what both have.
RowsBehind == \A i \in Items : Known(rows[i]) => Keeps(rows[i], items[i])

\* No eligible row is earlier than the first entry; the row that made it is still there, or time
\* has passed and the season's episode, if there is one, is a later one.
FirstIsEarliest ==
    \A e \in Entries(rows) : first # NoEntry /\ NotAfter(first, e)

Stands(s, at) == rows[s].at = at /\ rows[s].eligible
Replaced(s, at) == time > at /\ (Known(items[s]) => items[s].at > at)
FirstStands == first # NoEntry => Stands(first[2], first[1]) \/ Replaced(first[2], first[1])

\* Memory holds the ledger's entry or none; the ledger is never ahead of the first entry, and
\* agrees with it unless an episode was saved without its ledger row.
LedgerAgrees ==
    /\ identity \in {NoEntry, ledger}
    /\ ledger # NoEntry => first # NoEntry /\ NotAfter(first, ledger)
    /\ ~unledgered => ledger = first

\* The count follows the observations that had a value.
CountHolds ==
    /\ seen <= usable /\ seenSaved <= usable
    /\ items[Discovery].cps[Primary] > 0 => usable >= 1

EvidenceInv ==
    /\ CollectionTyped /\ ItemsFit /\ RowsBehind /\ FirstIsEarliest /\ FirstStands
    /\ LedgerAgrees /\ CountHolds

-----------------------------------------------------------------------------
\* The order of entries is total, and the entries of a database have a first one.
LEMMA EntryOrder ==
    \A e, f, g \in Int \X Int : /\ NotAfter(e, e)
                                /\ NotAfter(e, f) \/ NotAfter(f, e)
                                /\ NotAfter(e, f) /\ NotAfter(f, e) => e = f
                                /\ NotAfter(e, f) /\ NotAfter(f, g) => NotAfter(e, g)
<1> TAKE e, f, g \in Int \X Int
<1>1. e = <<e[1], e[2]>> /\ f = <<f[1], f[2]>> /\ g = <<g[1], g[2]>>
  OBVIOUS
<1>2. e[1] \in Int /\ e[2] \in Int /\ f[1] \in Int /\ f[2] \in Int /\ g[1] \in Int /\ g[2] \in Int
  OBVIOUS
<1>3. NotAfter(e, f) /\ NotAfter(f, e) => e[1] = f[1] /\ e[2] = f[2]
  BY <1>2 DEF NotAfter
<1> QED BY <1>1, <1>2, <1>3 DEF NotAfter

LEMMA EntriesAreProofs ==
    /\ EntryType \subseteq Int \X Int /\ NoEntry \notin Proofs
    /\ \A d \in [Items -> ItemType] : Entries(d) \subseteq Proofs
<1>1. EntryType \subseteq Int \X Int /\ NoEntry \notin Proofs
  BY CollectionAssumption DEF EntryType, Proofs, NoEntry, CollectSeasons
<1>2. ASSUME NEW d \in [Items -> ItemType], NEW s \in CollectSeasons, Known(d[s])
      PROVE  <<d[s].at, s>> \in Proofs
  <2>1. d[s] \in ItemType
    BY DEF Items
  <2>2. d[s].at \in 0..MaxAge
    BY <1>2, <2>1, CollectionAssumption DEF ItemType, Known
  <2> QED BY <2>2 DEF Proofs
<1> QED BY <1>1, <1>2 DEF Entries

LEMMA FirstEntry == \A S \in SUBSET Proofs : S # {} => \E e \in S : \A f \in S : NotAfter(e, f)
<1> SUFFICES ASSUME NEW S \in SUBSET Proofs, S # {}
             PROVE  \E e \in S : \A f \in S : NotAfter(e, f)
  OBVIOUS
<1> DEFINE times == {e[1] : e \in S}
<1>1. times \in SUBSET Nat /\ times # {}
  BY DEF Proofs
<1>2. PICK m \in times : \A k \in times : m <= k
  <2> HIDE DEF times
  <2> QED BY <1>1, LeastNumber
<1> DEFINE seasons == {n \in Nat : <<m, n>> \in S}
<1>3. seasons \in SUBSET Nat /\ seasons # {}
  <2>1. PICK e \in S : e[1] = m
    OBVIOUS
  <2>2. e = <<m, e[2]>> /\ e[2] \in Nat
    BY <2>1 DEF Proofs, CollectSeasons
  <2>3. e[2] \in seasons
    BY <2>2
  <2> QED BY <2>3
<1>4. PICK n \in seasons : \A k \in seasons : n <= k
  <2> HIDE DEF seasons
  <2> QED BY <1>3, LeastNumber
<1>5. ASSUME NEW f \in S
      PROVE  NotAfter(<<m, n>>, f)
  <2>1. f = <<f[1], f[2]>> /\ f[1] \in Nat /\ f[2] \in Nat
    BY DEF Proofs, CollectSeasons
  <2>2. m <= f[1] /\ m \in Nat
    BY <1>1, <1>2
  <2>3. f[1] = m => n <= f[2]
    BY <1>4, <2>1
  <2> QED BY <2>1, <2>2, <2>3 DEF NotAfter
<1> QED BY <1>4, <1>5

LEMMA RememberedIs ==
    ASSUME NEW known \in EntryType, NEW e \in Proofs
    PROVE  LET r == Remembered(known, e)
           IN  /\ r \in Proofs /\ r \in {known, e}
               /\ NotAfter(r, e) /\ (known # NoEntry => NotAfter(r, known))
<1>1. known \in Int \X Int /\ e \in Int \X Int /\ NoEntry \notin Proofs
  BY EntriesAreProofs DEF EntryType
<1>2. CASE known = NoEntry
  BY <1>1, <1>2, EntryOrder DEF Remembered
<1>3. CASE known # NoEntry
  <2>1. known \in Proofs
    BY <1>3 DEF EntryType
  <2> QED BY <1>1, <1>3, <2>1, EntryOrder DEF Remembered
<1> QED BY <1>2, <1>3

LEMMA RememberedAllIs ==
    ASSUME NEW known \in EntryType, NEW d \in [Items -> ItemType]
    PROVE  LET r == RememberedAll(known, d)
           IN  /\ r \in EntryType
               /\ r = known \/ r \in Entries(d)
               /\ \A e \in Entries(d) : r # NoEntry /\ NotAfter(r, e)
               /\ known # NoEntry => r # NoEntry /\ NotAfter(r, known)
<1>1. CASE Entries(d) = {}
  <2>1. RememberedAll(known, d) = known
    BY <1>1 DEF RememberedAll
  <2>2. known \in Int \X Int
    BY EntriesAreProofs
  <2> QED BY <1>1, <2>1, <2>2, EntryOrder
<1>2. CASE Entries(d) # {}
  <2>1. Entries(d) \in SUBSET Proofs
    BY EntriesAreProofs
  <2>2. \E e \in Entries(d) : \A f \in Entries(d) : NotAfter(e, f)
    BY <1>2, <2>1, FirstEntry
  <2>3. PICK e \in Entries(d) : /\ \A f \in Entries(d) : NotAfter(e, f)
                                /\ RememberedAll(known, d) = Remembered(known, e)
    BY <1>2, <2>2 DEF RememberedAll
  <2>4. e \in Proofs
    BY <2>1
  <2> DEFINE r == Remembered(known, e)
  <2>5. /\ r \in Proofs /\ r \in {known, e}
        /\ NotAfter(r, e) /\ (known # NoEntry => NotAfter(r, known))
    BY <2>4, RememberedIs
  <2> HIDE DEF r
  <2>6. r \in EntryType /\ r # NoEntry
    BY <2>5, EntriesAreProofs DEF EntryType
  <2>7. ASSUME NEW f \in Entries(d)
        PROVE  NotAfter(r, f)
    <3>1. r \in Int \X Int /\ e \in Int \X Int /\ f \in Int \X Int
      BY <2>1, <2>4, <2>6, EntriesAreProofs DEF EntryType
    <3>2. NotAfter(e, f)
      BY <2>3
    <3> QED BY <2>5, <3>1, <3>2, EntryOrder
  <2>8. RememberedAll(known, d) = r
    BY <2>3 DEF r
  <2> QED BY <2>5, <2>6, <2>7, <2>8
<1> QED BY <1>1, <1>2

-----------------------------------------------------------------------------
\* What memory does to an item before a save: one it knows goes on, one it did not know begins now.
Grows(old, new) ==
    IF Known(old) THEN Keeps(old, new) ELSE new = old \/ new.at = time

LEMMA SavesKeep ==
    ASSUME EvidenceInv, NEW mem \in [Items -> ItemType], NEW done \in SUBSET Items, Saves(mem, done),
           time' = time, \A i \in Items : ItemFits(mem[i]) /\ Grows(items[i], mem[i])
    PROVE  /\ items' \in [Items -> ItemType] /\ rows' \in [Items -> ItemType] /\ first' \in EntryType
           /\ ItemsFit' /\ RowsBehind' /\ FirstIsEarliest' /\ FirstStands'
           /\ first # NoEntry => first' # NoEntry /\ NotAfter(first', first)
           /\ \A i \in Items : Known(rows[i]) => Known(rows'[i]) /\ Keeps(rows[i], rows'[i])
<1>1. /\ items' = mem
      /\ rows' = [i \in Items |-> IF i \in done THEN mem[i] ELSE rows[i]]
      /\ first' = RememberedAll(first, rows')
  BY DEF Saves
<1>2. /\ rows \in [Items -> ItemType] /\ items \in [Items -> ItemType] /\ first \in EntryType
      /\ time \in 0..MaxAge /\ ItemsFit /\ RowsBehind /\ FirstStands
  BY DEF EvidenceInv, CollectionTyped
<1>3. rows' \in [Items -> ItemType] /\ \A i \in Items : rows'[i] \in {mem[i], rows[i]}
  BY <1>1, <1>2
<1>4. /\ first' \in EntryType
      /\ first' = first \/ first' \in Entries(rows')
      /\ \A e \in Entries(rows') : first' # NoEntry /\ NotAfter(first', e)
      /\ first # NoEntry => first' # NoEntry /\ NotAfter(first', first)
  BY <1>1, <1>2, <1>3, RememberedAllIs
<1>5. ItemsFit'
  BY <1>1, <1>2, <1>3 DEF ItemsFit, ItemFits
<1>6. \A i \in Items : Known(rows[i]) => Known(items[i]) /\ Keeps(rows[i], items[i]) /\ Keeps(items[i], mem[i])
  BY <1>2 DEF RowsBehind, Keeps, Known, Grows
<1>7. \A i \in Items : Known(rows[i]) => Known(mem[i]) /\ Keeps(rows[i], mem[i])
  BY <1>6 DEF Keeps, Known
<1>8. \A i \in Items : Keeps(mem[i], mem[i]) /\ Keeps(rows[i], rows[i])
  BY DEF Keeps
<1>9. RowsBehind'
  BY <1>1, <1>3, <1>7, <1>8 DEF RowsBehind
<1>10. \A i \in Items : Known(rows[i]) => Known(rows'[i]) /\ Keeps(rows[i], rows'[i])
  BY <1>3, <1>7, <1>8
<1>11. FirstStands'
  <2>1. CASE first' \in Entries(rows')
    <3>1. PICK s \in CollectSeasons : first' = <<rows'[s].at, s>> /\ rows'[s].eligible
      BY <2>1 DEF Entries
    <3> QED BY <3>1 DEF FirstStands, Stands
  <2>2. CASE first' = first /\ first # NoEntry
    <3>1. PICK at \in 0..MaxAge, s \in CollectSeasons : first = <<at, s>>
      BY <1>2, <2>2 DEF EntryType, Proofs
    <3>2. first[1] = at /\ first[2] = s /\ s \in Items
      BY <3>1 DEF Items
    <3>3. Stands(s, at) \/ Replaced(s, at)
      BY <1>2, <2>2, <3>2 DEF FirstStands
    <3>4. CASE Stands(s, at)
      <4>1. Known(rows[s])
        BY <3>4, CollectionAssumption DEF Stands, Known
      <4>2. Stands(s, at)'
        BY <1>10, <3>2, <3>4, <4>1 DEF Stands, Keeps
      <4> QED BY <2>2, <3>2, <4>2 DEF FirstStands
    <3>5. CASE Replaced(s, at)
      <4>1. Grows(items[s], mem[s])
        BY <3>2
      <4>2. Known(mem[s]) => mem[s].at > at
        BY <3>5, <4>1 DEF Replaced, Grows, Keeps, Known
      <4>3. Replaced(s, at)'
        BY <1>1, <3>5, <4>2 DEF Replaced
      <4> QED BY <2>2, <3>2, <4>3 DEF FirstStands
    <3> QED BY <3>3, <3>4, <3>5
  <2> QED BY <1>4, <2>1, <2>2 DEF FirstStands
<1>12. FirstIsEarliest'
  BY <1>4 DEF FirstIsEarliest
<1> QED BY <1>1, <1>3, <1>4, <1>5, <1>9, <1>10, <1>11, <1>12

\* A save that leaves the ledger alone leaves it behind the first entry, or remembers that it is.
LEMMA LedgerLagsBehind ==
    ASSUME EvidenceInv, NEW mem \in [Items -> ItemType], NEW done \in SUBSET Items, Saves(mem, done),
           first' \in EntryType, first # NoEntry => first' # NoEntry /\ NotAfter(first', first),
           ledger' = ledger, identity' \in {NoEntry, ledger}
    PROVE  LedgerAgrees'
<1>1. LedgerAgrees /\ ledger \in EntryType /\ first \in EntryType
  BY DEF EvidenceInv, CollectionTyped
<1>2. ledger # NoEntry => first' # NoEntry /\ NotAfter(first', ledger)
  <2>1. ledger \in Int \X Int /\ first \in Int \X Int /\ first' \in Int \X Int
    BY <1>1, EntriesAreProofs
  <2> QED BY <1>1, <2>1, EntryOrder DEF LedgerAgrees
<1>3. ~unledgered' => ledger' = first'
  BY <1>1 DEF LedgerAgrees, Saves
<1> QED BY <1>2, <1>3 DEF LedgerAgrees

-----------------------------------------------------------------------------
\* What a row does to an item, and what time does to one that is late.
LEMMA ItemsGrow ==
    ASSUME EvidenceInv, NEW i \in Items, Pending(items[i])
    PROVE  /\ \A fresh, priced \in BOOLEAN :
                LET e == Taken(items[i], fresh, priced)
                IN  e \in ItemType /\ ItemFits(e) /\ Grows(items[i], e)
           /\ LET e == Lapsed(items[i])
              IN  e \in ItemType /\ ItemFits(e) /\ Grows(items[i], e)
<1>1. /\ items[i] \in ItemType /\ ItemFits(items[i]) /\ time \in 0..MaxAge
      /\ items[i].at \in 0..MaxAge /\ items[i].at <= time /\ Known(items[i])
  BY CollectionAssumption DEF EvidenceInv, CollectionTyped, ItemsFit, ItemFits, ItemType, Pending, Known
<1>2. /\ \A h \in Horizons : h \in Nat /\ h >= 1
      /\ CheckpointGrace \in Nat /\ MaxAge \in Nat
  BY CollectionAssumption
<1>3. /\ \A h \in Horizons : items[i].cps[h] \in -1..MaxAge
      /\ \A h \in Horizons : items[i].cps[h] # 0 => time - items[i].at >= h
      /\ \A h \in Horizons : items[i].cps[h] > 0 => items[i].cps[h] \in h..(h + CheckpointGrace)
  BY <1>1 DEF ItemType, Cps, ItemFits
<1>4. ASSUME NEW fresh \in BOOLEAN, NEW priced \in BOOLEAN
      PROVE  LET e == Taken(items[i], fresh, priced)
             IN  e \in ItemType /\ ItemFits(e) /\ Grows(items[i], e)
  <2> DEFINE e == Taken(items[i], fresh, priced)
             age == time - items[i].at
             taken(h) == IF items[i].cps[h] # 0 \/ age < h THEN items[i].cps[h]
                         ELSE IF age > h + CheckpointGrace THEN Missing
                         ELSE IF ~fresh THEN 0 ELSE IF priced THEN age ELSE Missing
  <2>1. e = [items[i] EXCEPT !.cps = [h \in Horizons |-> taken(h)]]
    BY DEF Taken
  <2>2. age \in 0..MaxAge
    BY <1>1, <1>2
  <2>3. ASSUME NEW h \in Horizons
        PROVE  /\ taken(h) \in -1..MaxAge
               /\ taken(h) # 0 => age >= h
               /\ taken(h) > 0 => taken(h) \in h..(h + CheckpointGrace)
               /\ items[i].cps[h] \in {0, taken(h)}
    <3> HIDE DEF age
    <3> QED BY <1>2, <1>3, <2>2 DEF Missing, age
  <2> HIDE DEF taken, age
  <2>4. e.at = items[i].at /\ e.eligible = items[i].eligible /\ e.cps = [h \in Horizons |-> taken(h)]
    BY <1>1, <2>1 DEF ItemType
  <2>5. e \in ItemType
    BY <1>1, <2>1, <2>3 DEF ItemType, Cps
  <2>6. ItemFits(e)
    BY <1>1, <2>3, <2>4 DEF ItemFits, Known, age
  <2>7. Grows(items[i], e)
    BY <1>1, <2>3, <2>4 DEF Grows, Keeps
  <2> QED BY <2>5, <2>6, <2>7
<1>5. LET e == Lapsed(items[i])
      IN  e \in ItemType /\ ItemFits(e) /\ Grows(items[i], e)
  <2> DEFINE e == Lapsed(items[i])
             age == time - items[i].at
             lapsed(h) == IF items[i].cps[h] = 0 /\ age > h + CheckpointGrace THEN Missing
                          ELSE items[i].cps[h]
  <2>1. e = [items[i] EXCEPT !.cps = [h \in Horizons |-> lapsed(h)]]
    BY DEF Lapsed
  <2>2. age \in 0..MaxAge
    BY <1>1, <1>2
  <2>3. ASSUME NEW h \in Horizons
        PROVE  /\ lapsed(h) \in -1..MaxAge
               /\ lapsed(h) # 0 => age >= h
               /\ lapsed(h) > 0 => lapsed(h) \in h..(h + CheckpointGrace)
               /\ items[i].cps[h] \in {0, lapsed(h)}
    <3> HIDE DEF age
    <3> QED BY <1>2, <1>3, <2>2 DEF Missing, age
  <2> HIDE DEF lapsed, age
  <2>4. e.at = items[i].at /\ e.eligible = items[i].eligible /\ e.cps = [h \in Horizons |-> lapsed(h)]
    BY <1>1, <2>1 DEF ItemType
  <2>5. e \in ItemType
    BY <1>1, <2>1, <2>3 DEF ItemType, Cps
  <2>6. ItemFits(e)
    BY <1>1, <2>3, <2>4 DEF ItemFits, Known, age
  <2>7. Grows(items[i], e)
    BY <1>1, <2>3, <2>4 DEF Grows, Keeps
  <2> QED BY <2>5, <2>6, <2>7
<1> QED BY <1>4, <1>5

-----------------------------------------------------------------------------
\* An item that begins now: neither the first entry nor the ledger can be later.
Begun(new, eligible) ==
    [i \in Items |-> IF i \in new THEN [at |-> time, cps |-> Open, eligible |-> eligible /\ i # Discovery]
                     ELSE items[i]]

LEMMA ItemsBegin ==
    ASSUME EvidenceInv, NEW new \in SUBSET Items, NEW eligible \in BOOLEAN,
           \A i \in new : ~Known(items[i])
    PROVE  /\ Begun(new, eligible) \in [Items -> ItemType]
           /\ \A i \in Items : /\ ItemFits(Begun(new, eligible)[i])
                               /\ Grows(items[i], Begun(new, eligible)[i])
<1>1. /\ items \in [Items -> ItemType] /\ ItemsFit /\ time \in 0..MaxAge /\ MaxAge \in Nat
  BY CollectionAssumption DEF EvidenceInv, CollectionTyped
<1>2. ASSUME NEW i \in new
      PROVE  LET e == [at |-> time, cps |-> Open, eligible |-> eligible /\ i # Discovery]
             IN  e \in ItemType /\ ItemFits(e) /\ Grows(items[i], e)
  <2> DEFINE e == [at |-> time, cps |-> Open, eligible |-> eligible /\ i # Discovery]
  <2>1. e.at = time /\ e.cps = Open /\ \A h \in Horizons : Open[h] = 0
    BY DEF Open
  <2>2. Open \in Cps
    BY <1>1 DEF Open, Cps
  <2>3. time \in -1..MaxAge /\ (eligible /\ i # Discovery) \in BOOLEAN
    BY <1>1
  <2>4. e \in ItemType
    BY <2>2, <2>3 DEF ItemType
  <2>5. ItemFits(e)
    BY <1>1, <2>1 DEF ItemFits
  <2>6. Grows(items[i], e)
    BY <1>2, <2>1 DEF Grows
  <2> QED BY <2>4, <2>5, <2>6
<1>3. ASSUME NEW i \in Items
      PROVE  items[i] \in ItemType /\ ItemFits(items[i]) /\ Grows(items[i], items[i])
  BY <1>1 DEF ItemsFit, Grows, Keeps
<1> QED BY <1>2, <1>3 DEF Begun

LEMMA LedgerRemembers ==
    ASSUME EvidenceInv, NEW mem \in [Items -> ItemType], NEW done \in SUBSET Items, Saves(mem, done),
           first' \in EntryType, first # NoEntry => first' # NoEntry /\ NotAfter(first', first),
           FirstIsEarliest', collecting \in done, mem[collecting].at = time, mem[collecting].eligible,
           ledger' = Remembered(ledger, <<time, collecting>>), identity' = ledger'
    PROVE  LedgerAgrees'
<1> DEFINE new == <<time, collecting>>
<1>1. /\ LedgerAgrees /\ ledger \in EntryType /\ first \in EntryType
      /\ time \in 0..MaxAge /\ collecting \in CollectSeasons /\ new \in Proofs
  BY DEF EvidenceInv, CollectionTyped, Proofs
<1>2. new \in Entries(rows')
  <2>1. rows'[collecting] = mem[collecting]
    BY <1>1 DEF Saves, Items
  <2> QED BY <1>1, <2>1, CollectionAssumption DEF Entries, Known
<1>3. first' # NoEntry /\ NotAfter(first', new)
  BY <1>2 DEF FirstIsEarliest
<1> HIDE DEF new
<1>4. /\ ledger' \in Proofs /\ ledger' \in {ledger, new}
      /\ NotAfter(ledger', new) /\ (ledger # NoEntry => NotAfter(ledger', ledger))
  BY <1>1, RememberedIs DEF new
<1>5. /\ ledger \in Int \X Int /\ ledger' \in Int \X Int /\ new \in Int \X Int
      /\ first \in Int \X Int /\ first' \in Int \X Int /\ ledger' # NoEntry
  BY <1>1, <1>4, EntriesAreProofs DEF EntryType
<1>6. NotAfter(first', ledger')
  <2>1. CASE ledger' = new
    BY <1>3, <2>1
  <2>2. CASE ledger' = ledger
    BY <1>1, <1>5, <2>2, EntryOrder DEF LedgerAgrees
  <2> QED BY <1>4, <2>1, <2>2
<1>7. ASSUME ~unledgered'
      PROVE  ledger' = first'
  <2>1. ledger = first /\ (first' = first \/ first' = ledger')
    BY <1>1, <1>7 DEF LedgerAgrees, Saves
  <2>2. CASE first' = first
    <3>1. NotAfter(ledger', first')
      BY <1>3, <1>4, <2>1, <2>2
    <3> QED BY <1>5, <1>6, <3>1, EntryOrder
  <2> QED BY <2>1, <2>2
<1> QED BY <1>3, <1>5, <1>6, <1>7 DEF LedgerAgrees

LEMMA EvidenceRegistered ==
    ASSUME EvidenceInv, NEW actionable \in BOOLEAN, RegisterDecision(actionable)
    PROVE  EvidenceInv' /\ \A i \in Items : Known(rows[i]) => Known(rows'[i]) /\ Keeps(rows[i], rows'[i])
<1> DEFINE newPolicy == actionable /\ ~Known(items[collecting])
           newObs == ~Known(items[Discovery])
           eligible == ~(Reserved[2] = collecting /\ Reserved[1] # time)
           policy == IF newPolicy THEN {collecting} ELSE {}
           obs == IF newObs THEN {Discovery} ELSE {}
           entered == IF newPolicy /\ eligible THEN Remembered(Reserved, <<time, collecting>>)
                      ELSE Reserved
<1>1. /\ EvidenceInv /\ CollectionTyped /\ collecting \in CollectSeasons /\ collecting # Discovery
      /\ collecting \in Items /\ Discovery \in Items
      /\ UNCHANGED <<time, collecting, seen, seenSaved, collectRestarts, usable>>
  BY DEF EvidenceInv, CollectionTyped, RegisterDecision, CollectSeasons, Discovery, Items
<1>2. Reserved = ledger /\ identity \in {NoEntry, ledger}
  BY DEF EvidenceInv, LedgerAgrees, Reserved
<1>3. eligible \in BOOLEAN
  OBVIOUS
<1>4. PICK new \in {policy \cup obs, policy}, done \in {policy \cup obs, policy, {}} :
         /\ Saves(Begun(new, eligible), done)
         /\ \/ ledger' = ledger /\ identity' = ledger
            \/ /\ newPolicy /\ eligible /\ done # {}
               /\ ledger' = Remembered(ledger, <<time, collecting>>) /\ identity' = ledger'
  <2> HIDE DEF eligible
  <2>1. /\ \/ /\ identity' = entered /\ ledger' = entered
              /\ \/ Saves(Begun(policy \cup obs, eligible), policy \cup obs)
                 \/ Saves(Begun(policy \cup obs, eligible), policy)
           \/ /\ identity' = Reserved /\ ledger' = ledger
              /\ \E done \in {{}, policy} : Saves(Begun(policy, eligible), done)
    BY DEF RegisterDecision, Begun, eligible
  <2>2. entered = ledger \/ (newPolicy /\ eligible /\ entered = Remembered(ledger, <<time, collecting>>))
    BY <1>2
  <2>3. newPolicy => policy # {} /\ policy \cup obs # {}
    OBVIOUS
  <2> HIDE DEF entered, newPolicy, policy, obs
  <2> QED BY <1>2, <2>1, <2>2, <2>3
<1>5. /\ new \in SUBSET Items /\ done \in SUBSET Items /\ \A i \in new : ~Known(items[i])
      /\ newPolicy => collecting \in new /\ (done # {} => collecting \in done)
  BY <1>1, <1>4
<1> HIDE DEF eligible, newPolicy, policy, obs
<1>6. PICK mem \in [Items -> ItemType] : mem = Begun(new, eligible)
  BY <1>3, <1>5, ItemsBegin
<1>7. Saves(mem, done) /\ \A i \in Items : ItemFits(mem[i]) /\ Grows(items[i], mem[i])
  BY <1>3, <1>4, <1>5, <1>6, ItemsBegin
<1>8. /\ items' \in [Items -> ItemType] /\ rows' \in [Items -> ItemType] /\ first' \in EntryType
      /\ ItemsFit' /\ RowsBehind' /\ FirstIsEarliest' /\ FirstStands'
      /\ first # NoEntry => first' # NoEntry /\ NotAfter(first', first)
      /\ \A i \in Items : Known(rows[i]) => Known(rows'[i]) /\ Keeps(rows[i], rows'[i])
  BY <1>1, <1>5, <1>7, SavesKeep
<1>9. LedgerAgrees' /\ ledger' \in EntryType /\ identity' \in EntryType
  <2>1. CASE ledger' = ledger /\ identity' = ledger
    BY <1>1, <1>5, <1>7, <1>8, <2>1, LedgerLagsBehind DEF CollectionTyped
  <2>2. CASE /\ newPolicy /\ eligible /\ done # {}
             /\ ledger' = Remembered(ledger, <<time, collecting>>) /\ identity' = ledger'
    <3>1. collecting \in done /\ mem[collecting].at = time /\ mem[collecting].eligible
      BY <1>1, <1>5, <1>6, <2>2 DEF Begun
    <3>2. LedgerAgrees'
      BY <1>5, <1>7, <1>8, <2>2, <3>1, LedgerRemembers
    <3>3. <<time, collecting>> \in Proofs /\ ledger \in EntryType
      BY <1>1 DEF CollectionTyped, Proofs
    <3>4. ledger' \in EntryType
      BY <2>2, <3>3, RememberedIs DEF EntryType
    <3> QED BY <2>2, <3>2, <3>4
  <2> QED BY <1>4, <2>1, <2>2
<1>10. CountHolds'
  <2>1. items'[Discovery] = items[Discovery] \/ items'[Discovery].cps = Open
    BY <1>1, <1>6, <1>7 DEF Begun, Saves
  <2>2. Open[Primary] = 0
    BY CollectionAssumption DEF Open
  <2> QED BY <1>1, <2>1, <2>2 DEF EvidenceInv, CountHolds
<1>11. unledgered' \in BOOLEAN
  BY <1>7 DEF Saves
<1>12. CollectionTyped'
  BY <1>1, <1>8, <1>9, <1>11 DEF CollectionTyped
<1> QED BY <1>8, <1>9, <1>10, <1>12 DEF EvidenceInv

-----------------------------------------------------------------------------
\* A row reaches the pending items, in order until a save fails.
LEMMA EvidenceObserved ==
    ASSUME EvidenceInv, NEW fresh \in BOOLEAN, NEW priced \in BOOLEAN, ObserveMarket(fresh, priced)
    PROVE  EvidenceInv' /\ \A i \in Items : Known(rows[i]) => Known(rows'[i]) /\ Keeps(rows[i], rows'[i])
<1> DEFINE touched == {i \in Items : Pending(items[i]) /\ Taken(items[i], fresh, priced) # items[i]}
           reaches(S) == [i \in Items |-> IF i \in S THEN Taken(items[i], fresh, priced) ELSE items[i]]
           counts == Discovery \in touched /\ NewOutcome(items[Discovery], reaches(touched)[Discovery])
           earns == items'[Discovery].cps[Primary] > 0 /\ items[Discovery].cps[Primary] = 0
<1>1. /\ CollectionTyped /\ ItemsFit /\ CountHolds /\ Discovery \in Items
      /\ UNCHANGED <<time, collecting, identity, collectRestarts, ledger>>
      /\ usable' = IF earns THEN usable + 1 ELSE usable
  BY DEF EvidenceInv, ObserveMarket, Items
<1>2. PICK reached \in SUBSET touched, done \in SUBSET touched :
         /\ Saves(reaches(reached), done)
         /\ \/ UNCHANGED <<seen, seenSaved>>
            \/ /\ reached = touched /\ seen' = IF counts THEN seen + 1 ELSE seen
               /\ seenSaved' \in {seen', seenSaved}
  <2>1. \/ /\ Saves(reaches(touched), touched)
           /\ seen' = IF counts THEN seen + 1 ELSE seen
           /\ seenSaved' \in {seen', seenSaved}
        \/ /\ \E i \in touched :
                LET done == {j \in touched : j # Discovery /\ (i = Discovery \/ j < i)}
                    reached == done \cup {i}
                IN  Saves([j \in Items |-> IF j \in reached THEN reaches(touched)[j] ELSE items[j]], done)
           /\ UNCHANGED <<seen, seenSaved>>
    BY DEF ObserveMarket
  <2>2. \A S \in SUBSET touched :
           [j \in Items |-> IF j \in S THEN reaches(touched)[j] ELSE items[j]] = reaches(S)
    OBVIOUS
  <2>3. CASE /\ Saves(reaches(touched), touched)
             /\ seen' = IF counts THEN seen + 1 ELSE seen
             /\ seenSaved' \in {seen', seenSaved}
    <3> HIDE DEF reaches, touched, counts
    <3> QED BY <2>3
  <2>4. ASSUME NEW i \in touched, UNCHANGED <<seen, seenSaved>>,
               LET done == {j \in touched : j # Discovery /\ (i = Discovery \/ j < i)}
                   reached == done \cup {i}
               IN  Saves([j \in Items |-> IF j \in reached THEN reaches(touched)[j] ELSE items[j]], done)
        PROVE  \E reached \in SUBSET touched, done \in SUBSET touched :
                   Saves(reaches(reached), done) /\ UNCHANGED <<seen, seenSaved>>
    <3> DEFINE done == {j \in touched : j # Discovery /\ (i = Discovery \/ j < i)}
    <3>1. done \in SUBSET touched /\ done \cup {i} \in SUBSET touched
      BY <2>4
    <3>2. Saves(reaches(done \cup {i}), done)
      <4> HIDE DEF done, reaches, touched
      <4> QED BY <2>2, <2>4, <3>1 DEF done
    <3> HIDE DEF done, reaches, touched
    <3> QED BY <2>4, <3>1, <3>2
  <2> HIDE DEF reaches, touched, counts
  <2> QED BY <2>1, <2>3, <2>4
<1>3. \A i \in Items : /\ items[i] \in ItemType /\ ItemFits(items[i]) /\ Grows(items[i], items[i])
  BY <1>1 DEF CollectionTyped, ItemsFit, Grows, Keeps
<1>4. \A i \in touched : /\ i \in Items /\ Taken(items[i], fresh, priced) \in ItemType
                         /\ ItemFits(Taken(items[i], fresh, priced))
                         /\ Grows(items[i], Taken(items[i], fresh, priced))
  BY ItemsGrow
<1>5. reaches(reached) \in [Items -> ItemType] /\ done \in SUBSET Items
      /\ \A i \in Items : ItemFits(reaches(reached)[i]) /\ Grows(items[i], reaches(reached)[i])
  <2> HIDE DEF touched
  <2> QED BY <1>3, <1>4
<1>6. PICK mem \in [Items -> ItemType] : mem = reaches(reached)
  BY <1>5
<1>7. Saves(mem, done) /\ \A i \in Items : ItemFits(mem[i]) /\ Grows(items[i], mem[i])
  BY <1>2, <1>5, <1>6
<1> HIDE DEF reaches, touched
<1>8. /\ items' \in [Items -> ItemType] /\ rows' \in [Items -> ItemType] /\ first' \in EntryType
      /\ ItemsFit' /\ RowsBehind' /\ FirstIsEarliest' /\ FirstStands'
      /\ first # NoEntry => first' # NoEntry /\ NotAfter(first', first)
      /\ \A i \in Items : Known(rows[i]) => Known(rows'[i]) /\ Keeps(rows[i], rows'[i])
  BY <1>1, <1>5, <1>7, SavesKeep
<1>9. LedgerAgrees'
  <2>1. identity' \in {NoEntry, ledger}
    BY <1>1 DEF EvidenceInv, LedgerAgrees
  <2> QED BY <1>1, <1>5, <1>7, <1>8, <2>1, LedgerLagsBehind
<1>10. items' = mem
  BY <1>7 DEF Saves
<1>11. /\ usable' \in Nat /\ usable' >= usable
       /\ usable \in Nat /\ seen \in Nat /\ seenSaved \in Nat /\ seen <= usable /\ seenSaved <= usable
  BY <1>1 DEF CollectionTyped, CountHolds
<1>12. counts /\ reached = touched => earns
  BY <1>6, <1>10 DEF NewOutcome
<1>13. seen' \in Nat /\ seenSaved' \in Nat /\ seen' <= usable' /\ seenSaved' <= usable'
  <2> HIDE DEF counts, earns
  <2> QED BY <1>1, <1>2, <1>11, <1>12
<1>14. items'[Discovery].cps[Primary] > 0 => usable' >= 1
  <2>1. CASE earns
    BY <1>1, <1>11, <2>1
  <2>2. CASE ~earns
    <3>1. items[Discovery].cps[Primary] \in Int
      <4>1. items[Discovery] \in ItemType /\ Primary \in Horizons
        BY <1>1, <1>3, CollectionAssumption
      <4> QED BY <4>1, CollectionAssumption DEF ItemType, Cps
    <3>2. Grows(items[Discovery], items'[Discovery])
      BY <1>1, <1>7, <1>10
    <3>3. items'[Discovery].cps[Primary] > 0 => items[Discovery].cps[Primary] # 0
      BY <2>2
    <3>4. items[Discovery].cps[Primary] # 0 => Known(items[Discovery])
      BY <1>1, CollectionAssumption DEF ItemsFit, ItemFits
    <3>5. items'[Discovery].cps[Primary] > 0 => items[Discovery].cps[Primary] > 0
      BY <3>2, <3>3, <3>4, CollectionAssumption DEF Grows, Keeps
    <3> QED BY <1>1, <1>11, <3>5 DEF CountHolds
  <2> QED BY <2>1, <2>2
<1>15. CollectionTyped' /\ CountHolds'
  <2>1. unledgered' \in BOOLEAN
    BY <1>7 DEF Saves
  <2> QED BY <1>1, <1>8, <1>11, <1>13, <1>14, <2>1 DEF CollectionTyped, CountHolds
<1> QED BY <1>8, <1>9, <1>15 DEF EvidenceInv

LEMMA EvidenceExpires ==
    ASSUME EvidenceInv, ExpireCheckpoints
    PROVE  EvidenceInv' /\ \A i \in Items : Known(rows[i]) => Known(rows'[i]) /\ Keeps(rows[i], rows'[i])
<1> DEFINE touched == {i \in Items : Pending(items[i]) /\ Lapsed(items[i]) # items[i]}
           reaches(S) == [i \in Items |-> IF i \in S THEN Lapsed(items[i]) ELSE items[i]]
<1>1. /\ CollectionTyped /\ ItemsFit /\ CountHolds /\ Discovery \in Items
      /\ UNCHANGED <<time, collecting, identity, seen, seenSaved, collectRestarts, usable, ledger>>
  BY DEF EvidenceInv, ExpireCheckpoints, Items
<1>2. PICK reached \in SUBSET touched, done \in SUBSET touched : Saves(reaches(reached), done)
  <2>1. \/ Saves(reaches(touched), touched)
        \/ \E i \in touched :
              LET done == {j \in touched : j < i}
              IN  Saves([j \in Items |-> IF j \in done \cup {i} THEN reaches(touched)[j] ELSE items[j]], done)
    BY DEF ExpireCheckpoints
  <2>2. \A S \in SUBSET touched :
           [j \in Items |-> IF j \in S THEN reaches(touched)[j] ELSE items[j]] = reaches(S)
    OBVIOUS
  <2>3. ASSUME NEW i \in touched,
               LET done == {j \in touched : j < i}
               IN  Saves([j \in Items |-> IF j \in done \cup {i} THEN reaches(touched)[j] ELSE items[j]], done)
        PROVE  \E reached \in SUBSET touched, done \in SUBSET touched : Saves(reaches(reached), done)
    <3> DEFINE done == {j \in touched : j < i}
    <3>1. done \in SUBSET touched /\ done \cup {i} \in SUBSET touched
      BY <2>3
    <3>2. Saves(reaches(done \cup {i}), done)
      <4> HIDE DEF done, reaches, touched
      <4> QED BY <2>2, <2>3, <3>1 DEF done
    <3> HIDE DEF done, reaches, touched
    <3> QED BY <3>1, <3>2
  <2> HIDE DEF reaches, touched
  <2> QED BY <2>1, <2>3
<1>3. \A i \in Items : /\ items[i] \in ItemType /\ ItemFits(items[i]) /\ Grows(items[i], items[i])
  BY <1>1 DEF CollectionTyped, ItemsFit, Grows, Keeps
<1>4. \A i \in touched : /\ i \in Items /\ Lapsed(items[i]) \in ItemType
                         /\ ItemFits(Lapsed(items[i])) /\ Grows(items[i], Lapsed(items[i]))
  BY ItemsGrow
<1>5. reaches(reached) \in [Items -> ItemType] /\ done \in SUBSET Items
      /\ \A i \in Items : ItemFits(reaches(reached)[i]) /\ Grows(items[i], reaches(reached)[i])
  <2> HIDE DEF touched
  <2> QED BY <1>3, <1>4
<1>6. PICK mem \in [Items -> ItemType] : mem = reaches(reached)
  BY <1>5
<1>7. Saves(mem, done) /\ \A i \in Items : ItemFits(mem[i]) /\ Grows(items[i], mem[i])
  BY <1>2, <1>5, <1>6
<1>8. mem[Discovery].cps[Primary] > 0 => items[Discovery].cps[Primary] > 0
  <2>1. mem[Discovery] = items[Discovery] \/ mem[Discovery] = Lapsed(items[Discovery])
    BY <1>1, <1>6
  <2>2. /\ items[Discovery] \in ItemType /\ Primary \in Horizons
    BY <1>1, <1>3, CollectionAssumption
  <2>3. Lapsed(items[Discovery]).cps[Primary] \in {Missing, items[Discovery].cps[Primary]}
    BY <2>2 DEF Lapsed, ItemType
  <2> QED BY <2>1, <2>3 DEF Missing
<1> HIDE DEF reaches, touched
<1>9. /\ items' \in [Items -> ItemType] /\ rows' \in [Items -> ItemType] /\ first' \in EntryType
      /\ ItemsFit' /\ RowsBehind' /\ FirstIsEarliest' /\ FirstStands'
      /\ first # NoEntry => first' # NoEntry /\ NotAfter(first', first)
      /\ \A i \in Items : Known(rows[i]) => Known(rows'[i]) /\ Keeps(rows[i], rows'[i])
  BY <1>1, <1>5, <1>7, SavesKeep
<1>10. LedgerAgrees'
  <2>1. identity' \in {NoEntry, ledger}
    BY <1>1 DEF EvidenceInv, LedgerAgrees
  <2> QED BY <1>1, <1>5, <1>7, <1>9, <2>1, LedgerLagsBehind
<1>11. CollectionTyped' /\ CountHolds'
  <2>1. unledgered' \in BOOLEAN /\ items' = mem
    BY <1>7 DEF Saves
  <2> QED BY <1>1, <1>8, <1>9, <2>1 DEF CollectionTyped, CountHolds
<1> QED BY <1>9, <1>10, <1>11 DEF EvidenceInv

\* What is pruned is finished, so some time has passed since it began.
LEMMA EvidencePruned ==
    ASSUME EvidenceInv, PruneHistory
    PROVE  /\ EvidenceInv'
           /\ \A i \in Items : /\ Known(rows[i]) /\ Known(rows'[i]) => rows'[i] = rows[i]
                               /\ Known(rows[i]) /\ ~Known(rows'[i]) => Finished(rows[i])
<1>1. PICK gone \in SUBSET Prunable(rows) \ {{}} :
         /\ rows' = [i \in Items |-> IF i \in gone THEN Nothing ELSE rows[i]]
         /\ items' = [i \in Items |-> IF i \in gone THEN Nothing ELSE items[i]]
         /\ identity' = IF \E i \in Items : Known(items'[i]) THEN identity ELSE NoEntry
         /\ UNCHANGED <<time, collecting, ledger, seen, seenSaved, collectErrors, collectRestarts,
                        first, usable, unledgered>>
  BY DEF PruneHistory
<1>2. /\ CollectionTyped /\ ItemsFit /\ RowsBehind /\ FirstIsEarliest /\ FirstStands /\ LedgerAgrees
      /\ CountHolds /\ time \in 0..MaxAge
  BY DEF EvidenceInv, CollectionTyped
<1>3. /\ Nothing \in ItemType /\ ~Known(Nothing) /\ Nothing.at = -1
      /\ \A h \in Horizons : Nothing.cps[h] = 0
  <2>1. Open \in Cps /\ -1 \in -1..MaxAge /\ \A h \in Horizons : Open[h] = 0
    BY CollectionAssumption DEF Open, Cps
  <2> QED BY <2>1 DEF Nothing, ItemType, Known
<1>4. ItemFits(Nothing)
  BY <1>2, <1>3 DEF ItemFits
<1>5. \A i \in gone : i \in Items /\ Known(rows[i]) /\ Finished(rows[i])
  BY DEF Prunable
<1>6. /\ rows' \in [Items -> ItemType] /\ items' \in [Items -> ItemType]
      /\ \A i \in Items : rows'[i] = IF i \in gone THEN Nothing ELSE rows[i]
      /\ \A i \in Items : items'[i] = IF i \in gone THEN Nothing ELSE items[i]
  BY <1>1, <1>2, <1>3 DEF CollectionTyped
<1>7. ItemsFit'
  BY <1>1, <1>2, <1>4, <1>6 DEF ItemsFit, ItemFits
<1>8. RowsBehind'
  BY <1>2, <1>3, <1>6 DEF RowsBehind
<1>9. FirstIsEarliest'
  <2>1. Entries(rows') \subseteq Entries(rows)
    BY <1>3, <1>6 DEF Entries, Items
  <2> QED BY <1>1, <1>2, <2>1 DEF FirstIsEarliest
<1>10. FirstStands'
  <2> SUFFICES ASSUME first # NoEntry
               PROVE  FirstStands'
    BY <1>1 DEF FirstStands
  <2>1. PICK at \in 0..MaxAge, s \in CollectSeasons : first = <<at, s>>
    BY <1>2 DEF CollectionTyped, EntryType, Proofs
  <2>2. first[1] = at /\ first[2] = s /\ s \in Items
    BY <2>1 DEF Items
  <2>3. Stands(s, at) \/ Replaced(s, at)
    BY <1>2, <2>2 DEF FirstStands
  <2>4. CASE s \notin gone
    <3>1. rows'[s] = rows[s] /\ items'[s] = items[s] /\ time' = time
      BY <1>1, <1>6, <2>2, <2>4
    <3>2. Stands(s, at)' \/ Replaced(s, at)'
      BY <2>3, <3>1 DEF Stands, Replaced
    <3> QED BY <1>1, <2>2, <3>2 DEF FirstStands
  <2>5. CASE s \in gone
    <3>1. rows[s].cps[Primary] # 0
      BY <1>5, <2>5, CollectionAssumption DEF Finished
    <3>2. time - rows[s].at >= Primary /\ rows[s].at \in 0..MaxAge
      BY <1>2, <1>5, <2>5, <3>1, CollectionAssumption DEF ItemsFit, ItemFits, CollectionTyped, ItemType, Known
    <3>3. time > at
      <4>1. Primary \in Nat /\ Primary >= 1 /\ time \in Nat
        BY <1>2, CollectionAssumption
      <4>2. rows[s].at = at => time > at
        BY <3>2, <4>1
      <4> QED BY <2>3, <4>2 DEF Stands, Replaced
    <3>4. ~Known(items'[s])
      BY <1>3, <1>6, <2>2, <2>5
    <3>5. Replaced(s, at)'
      BY <1>1, <3>3, <3>4 DEF Replaced
    <3> QED BY <1>1, <2>2, <3>5 DEF FirstStands
  <2> QED BY <2>4, <2>5
<1>11. LedgerAgrees' /\ identity' \in EntryType
  BY <1>1, <1>2 DEF LedgerAgrees, CollectionTyped, EntryType
<1>12. CountHolds'
  <2>1. Discovery \in Items
    BY DEF Items
  <2>2. items'[Discovery] = items[Discovery] \/ items'[Discovery].cps[Primary] = 0
    BY <1>3, <1>6, <2>1, CollectionAssumption
  <2> QED BY <1>1, <1>2, <2>2 DEF CountHolds
<1>13. CollectionTyped'
  BY <1>1, <1>2, <1>6, <1>11 DEF CollectionTyped
<1>14. \A i \in Items : /\ Known(rows[i]) /\ Known(rows'[i]) => rows'[i] = rows[i]
                        /\ Known(rows[i]) /\ ~Known(rows'[i]) => Finished(rows[i])
  BY <1>3, <1>5, <1>6
<1> QED BY <1>7, <1>8, <1>9, <1>10, <1>11, <1>12, <1>13, <1>14 DEF EvidenceInv

LEMMA EvidenceAges ==
    ASSUME EvidenceInv, Elapses \/ SeasonEnds
    PROVE  EvidenceInv' /\ rows' = rows
<1>1. /\ UNCHANGED <<items, rows, identity, ledger, seen, seenSaved, first, usable, unledgered>>
      /\ time \in Nat /\ time' >= time /\ time' \in 0..MaxAge /\ collecting' \in CollectSeasons
  BY CollectionAssumption DEF EvidenceInv, CollectionTyped, Elapses, SeasonEnds, CollectSeasons
<1>2. CollectionTyped'
  BY <1>1 DEF EvidenceInv, CollectionTyped
<1>3. ItemsFit'
  <2>1. \A h \in Horizons : h \in Nat
    BY CollectionAssumption
  <2>2. ASSUME NEW e \in ItemType, ItemFits(e)
        PROVE  ItemFits(e)'
    <3>1. e.at \in Int /\ e.at <= time'
      BY <1>1, <2>2, CollectionAssumption DEF ItemFits, ItemType
    <3>2. \A h \in Horizons : e.cps[h] # 0 => Known(e) /\ time' - e.at >= h
      BY <1>1, <2>1, <2>2, <3>1 DEF ItemFits
    <3> QED BY <2>2, <3>1, <3>2 DEF ItemFits
  <2>3. ASSUME NEW i \in Items
        PROVE  /\ items[i] \in ItemType /\ ItemFits(items[i]) /\ items'[i] = items[i]
               /\ rows[i] \in ItemType /\ ItemFits(rows[i]) /\ rows'[i] = rows[i]
    BY <1>1 DEF EvidenceInv, CollectionTyped, ItemsFit
  <2>4. ASSUME NEW i \in Items
        PROVE  ItemFits(items[i])' /\ ItemFits(rows[i])'
    <3>1. PICK e \in ItemType : e = items[i] /\ ItemFits(e) /\ items'[i] = e
      BY <2>3
    <3>2. PICK f \in ItemType : f = rows[i] /\ ItemFits(f) /\ rows'[i] = f
      BY <2>3
    <3>3. ItemFits(e)' /\ ItemFits(f)'
      BY <2>2, <3>1, <3>2
    <3> QED BY <3>1, <3>2, <3>3 DEF ItemFits
  <2> QED BY <2>4 DEF ItemsFit
<1>4. RowsBehind' /\ FirstIsEarliest' /\ LedgerAgrees' /\ CountHolds'
  BY <1>1 DEF EvidenceInv, RowsBehind, FirstIsEarliest, LedgerAgrees, CountHolds
<1>5. FirstStands'
  <2>1. first # NoEntry => first[1] \in Int
    BY DEF EvidenceInv, CollectionTyped, EntryType, Proofs
  <2> QED BY <1>1, <2>1 DEF EvidenceInv, FirstStands, Stands, Replaced
<1> QED BY <1>1, <1>2, <1>3, <1>4, <1>5 DEF EvidenceInv

-----------------------------------------------------------------------------
\* A restart remembers the row of the first entry, if it is still there: the ledger catches up.
LEMMA EvidenceRestarts ==
    ASSUME EvidenceInv, CollectionRestarts
    PROVE  EvidenceInv' /\ rows' = rows
<1> DEFINE held == IF rows[Discovery].cps[Primary] > 0 THEN 1 ELSE 0
<1>1. /\ items' = rows
      /\ ledger' = RememberedAll(ledger, rows)
      /\ identity' = IF \E i \in Items : Known(rows[i]) THEN ledger' ELSE NoEntry
      /\ seen' = IF held > seenSaved THEN held ELSE seenSaved
      /\ seenSaved' = seen'
      /\ unledgered' = (unledgered /\ (first # NoEntry => rows[first[2]].at # first[1]))
      /\ UNCHANGED <<time, collecting, rows, collectErrors, first, usable>>
  BY DEF CollectionRestarts
<1>2. /\ CollectionTyped /\ ItemsFit /\ RowsBehind /\ FirstIsEarliest /\ FirstStands /\ LedgerAgrees
      /\ CountHolds /\ rows \in [Items -> ItemType] /\ ledger \in EntryType /\ first \in EntryType
      /\ Discovery \in Items /\ Primary \in Horizons
  BY CollectionAssumption DEF EvidenceInv, CollectionTyped, Items
<1>3. /\ ledger' \in EntryType
      /\ ledger' = ledger \/ ledger' \in Entries(rows)
      /\ \A e \in Entries(rows) : ledger' # NoEntry /\ NotAfter(ledger', e)
      /\ ledger # NoEntry => ledger' # NoEntry /\ NotAfter(ledger', ledger)
  BY <1>1, <1>2, RememberedAllIs
<1>4. ledger' # NoEntry => first # NoEntry /\ NotAfter(first, ledger')
  BY <1>2, <1>3 DEF FirstIsEarliest, LedgerAgrees
<1>5. /\ ledger' \in Int \X Int /\ ledger \in Int \X Int /\ first \in Int \X Int
  BY <1>2, <1>3, EntriesAreProofs
<1>6. ASSUME ~unledgered'
      PROVE  ledger' = first
  <2>1. CASE ~unledgered
    <3>1. ledger = first
      BY <1>2, <2>1 DEF LedgerAgrees
    <3>2. CASE first = NoEntry
      BY <1>4, <3>2
    <3>3. CASE first # NoEntry
      BY <1>3, <1>4, <1>5, <3>1, <3>3, EntryOrder
    <3> QED BY <3>2, <3>3
  <2>2. CASE first # NoEntry /\ rows[first[2]].at = first[1]
    <3>1. PICK at \in 0..MaxAge, s \in CollectSeasons : first = <<at, s>>
      BY <1>2, <2>2 DEF EntryType, Proofs
    <3>2. first[1] = at /\ first[2] = s /\ s \in Items /\ at \in Nat
      BY <3>1 DEF Items
    <3>3. Known(rows[s])
      BY <2>2, <3>2 DEF Known
    <3>4. ~Replaced(s, at)
      BY <1>2, <2>2, <3>2, <3>3 DEF RowsBehind, Keeps, Replaced, Known
    <3>5. rows[s].eligible
      BY <1>2, <2>2, <3>2, <3>4 DEF FirstStands, Stands
    <3>6. first \in Entries(rows)
      BY <2>2, <3>1, <3>2, <3>3, <3>5 DEF Entries
    <3> QED BY <1>3, <1>4, <1>5, <3>6, EntryOrder
  <2> QED BY <1>1, <1>6, <2>1, <2>2
<1>7. LedgerAgrees' /\ identity' \in EntryType /\ unledgered' \in BOOLEAN
  BY <1>1, <1>3, <1>4, <1>6 DEF LedgerAgrees, EntryType
<1>8. ItemsFit' /\ RowsBehind' /\ FirstIsEarliest'
  BY <1>1, <1>2 DEF ItemsFit, ItemFits, RowsBehind, Keeps, FirstIsEarliest
<1>9. FirstStands'
  <2> SUFFICES ASSUME first # NoEntry
               PROVE  FirstStands'
    BY <1>1 DEF FirstStands
  <2>1. PICK at \in 0..MaxAge, s \in CollectSeasons : first = <<at, s>>
    BY <1>2 DEF EntryType, Proofs
  <2>2. first[1] = at /\ first[2] = s /\ s \in Items
    BY <2>1 DEF Items
  <2>3. Stands(s, at) \/ Replaced(s, at)
    BY <1>2, <2>2 DEF FirstStands
  <2>4. Stands(s, at)' \/ Replaced(s, at)'
    BY <1>1, <1>2, <2>2, <2>3 DEF Stands, Replaced, RowsBehind, Keeps, Known
  <2> QED BY <1>1, <2>2, <2>4 DEF FirstStands
<1>10. CountHolds' /\ seen' \in Nat
  <2>1. rows[Discovery] \in ItemType /\ items[Discovery] \in ItemType
    BY <1>2 DEF CollectionTyped
  <2>2. rows[Discovery].cps[Primary] > 0 => items[Discovery].cps[Primary] > 0
    <3>1. rows[Discovery].cps[Primary] > 0 => Known(rows[Discovery])
      BY <1>2 DEF ItemsFit, ItemFits
    <3>2. rows[Discovery].cps[Primary] > 0 => rows[Discovery].cps[Primary] = items[Discovery].cps[Primary]
      BY <1>2, <3>1 DEF RowsBehind, Keeps
    <3> QED BY <3>2
  <2>3. /\ seenSaved \in Nat /\ usable \in Nat /\ seenSaved <= usable
        /\ rows[Discovery].cps[Primary] > 0 => usable >= 1
    BY <1>2, <2>2 DEF CollectionTyped, CountHolds
  <2>4. held \in {0, 1} /\ held <= usable
    BY <2>3
  <2>5. rows[Discovery].cps[Primary] > 0 => usable' >= 1
    BY <1>1, <2>3
  <2> HIDE DEF held
  <2>6. seen' \in Nat /\ seen' <= usable'
    BY <1>1, <2>3, <2>4
  <2> QED BY <1>1, <2>5, <2>6 DEF CountHolds
<1>11. CollectionTyped'
  BY <1>1, <1>2, <1>3, <1>7, <1>10 DEF CollectionTyped
<1> QED BY <1>1, <1>7, <1>8, <1>9, <1>10, <1>11 DEF EvidenceInv

LEMMA EvidenceBegins == CollectionInit => EvidenceInv
<1> SUFFICES ASSUME CollectionInit
             PROVE  EvidenceInv
  OBVIOUS
<1>1. /\ Nothing \in ItemType /\ ~Known(Nothing) /\ Nothing.at = -1
      /\ \A h \in Horizons : Nothing.cps[h] = 0
  <2>1. Open \in Cps /\ -1 \in -1..MaxAge /\ \A h \in Horizons : Open[h] = 0
    BY CollectionAssumption DEF Open, Cps
  <2> QED BY <2>1 DEF Nothing, ItemType, Known
<1>2. \A i \in Items : items[i] = Nothing /\ rows[i] = Nothing
  BY DEF CollectionInit
<1>3. CollectionTyped
  <2>1. items = [i \in Items |-> Nothing] /\ rows = items
    BY DEF CollectionInit
  <2>2. items \in [Items -> ItemType] /\ rows \in [Items -> ItemType]
    BY <1>1, <2>1
  <2>3. /\ time = 0 /\ collecting = 1 /\ identity = NoEntry /\ ledger = NoEntry /\ first = NoEntry
        /\ seen = 0 /\ seenSaved = 0 /\ usable = 0 /\ unledgered = FALSE
    BY DEF CollectionInit
  <2>4. 0 \in 0..MaxAge /\ 1 \in CollectSeasons /\ NoEntry \in EntryType
    BY CollectionAssumption DEF EntryType, CollectSeasons
  <2> QED BY <2>2, <2>3, <2>4 DEF CollectionTyped
<1>4. ItemsFit /\ RowsBehind
  BY <1>1, <1>2 DEF ItemsFit, ItemFits, RowsBehind, CollectionInit
<1>5. FirstIsEarliest /\ FirstStands /\ LedgerAgrees
  BY <1>1, <1>2 DEF FirstIsEarliest, Entries, Items, FirstStands, LedgerAgrees, CollectionInit
<1>6. CountHolds
  <2>1. items[Discovery].cps[Primary] = 0
    BY <1>1, <1>2, CollectionAssumption DEF Items
  <2> QED BY <2>1 DEF CountHolds, CollectionInit
<1> QED BY <1>3, <1>4, <1>5, <1>6 DEF EvidenceInv

LEMMA EvidenceStep ==
    ASSUME EvidenceInv, [CollectionNext]_collectionVars
    PROVE  /\ EvidenceInv'
           /\ \A i \in Items : Known(rows[i]) /\ rows'[i] # rows[i] =>
                  IF Known(rows'[i]) THEN Keeps(rows[i], rows'[i]) ELSE Finished(rows[i])
<1>1. CASE CollectionNext
  BY <1>1, EvidenceRegistered, EvidenceObserved, EvidenceExpires, EvidencePruned, EvidenceAges,
     EvidenceRestarts DEF CollectionNext
<1>2. CASE UNCHANGED collectionVars
  <2>1. CollectionTyped' /\ RowsBehind' /\ FirstIsEarliest' /\ LedgerAgrees' /\ CountHolds' /\ rows' = rows
    BY <1>2 DEF collectionVars, EvidenceInv, CollectionTyped, RowsBehind, FirstIsEarliest, LedgerAgrees,
       CountHolds
  <2>2. ItemsFit' /\ FirstStands'
    BY <1>2 DEF collectionVars, EvidenceInv, ItemsFit, ItemFits, FirstStands, Stands, Replaced
  <2> QED BY <2>1, <2>2 DEF EvidenceInv
<1> QED BY <1>1, <1>2

LEMMA EvidenceHolds ==
    EvidenceInv => CollectionTypeOK /\ ProofIsFirst /\ ValuesInWindow /\ OutcomesCountedOnce
<1> SUFFICES ASSUME EvidenceInv
             PROVE  CollectionTypeOK /\ ProofIsFirst /\ ValuesInWindow /\ OutcomesCountedOnce
  OBVIOUS
<1>1. CollectionTyped /\ ItemsFit /\ LedgerAgrees
  BY DEF EvidenceInv
<1>2. ASSUME NEW e \in ItemType, ItemFits(e)
      PROVE  e.at \in -1..time /\ \A h \in Horizons : e.cps[h] \in -1..MaxAge
  BY <1>1, <1>2, CollectionAssumption DEF ItemType, Cps, ItemFits, CollectionTyped
<1>3. CollectionTypeOK
  <2>1. \A i \in Items : items[i] \in ItemType /\ ItemFits(items[i]) /\ rows[i] \in ItemType /\ ItemFits(rows[i])
    BY <1>1 DEF CollectionTyped, ItemsFit
  <2>2. \A d \in {items, rows} : \A i \in Items :
           /\ d[i].at \in -1..time
           /\ \A h \in Horizons : d[i].cps[h] \in -1..MaxAge
    BY <1>2, <2>1
  <2> QED BY <1>1, <2>2 DEF CollectionTypeOK, CollectionTyped
<1>4. ProofIsFirst
  <2> SUFFICES ASSUME NEW s \in CollectSeasons, Proves(s), ~unledgered
               PROVE  first = <<items[s].at, s>>
    BY DEF ProofIsFirst
  <2>1. identity = <<items[s].at, s>> /\ items[s].at >= 0
    BY DEF Proves, Known
  <2>2. identity # NoEntry
    BY <2>1 DEF NoEntry
  <2> QED BY <1>1, <2>1, <2>2 DEF LedgerAgrees
<1>5. ValuesInWindow
  BY <1>1 DEF ItemsFit, ItemFits, ValuesInWindow
<1>6. OutcomesCountedOnce
  BY DEF EvidenceInv, CountHolds, OutcomesCountedOnce
<1> QED BY <1>3, <1>4, <1>5, <1>6

\* In every behaviour what the engine learns from is the mint's first entry, taken in time,
\* counted once and final, whatever write fails, is pruned or restarts in between.
THEOREM EvidenceAlwaysSound == CollectionSpec => EvidenceIsSound
<1>1. CollectionInit => EvidenceInv
  BY EvidenceBegins
<1>2. EvidenceInv /\ [CollectionNext]_collectionVars => EvidenceInv'
  BY EvidenceStep
<1>3. EvidenceInv /\ [CollectionNext]_collectionVars
        => [\A i \in Items : Known(rows[i]) /\ rows'[i] # rows[i] =>
               IF Known(rows'[i])
               THEN \A h \in Horizons : rows[i].cps[h] \in {0, rows'[i].cps[h]}
               ELSE Finished(rows[i])]_collectionVars
  BY EvidenceStep DEF Keeps
<1>4. EvidenceInv => CollectionTypeOK /\ ProofIsFirst /\ ValuesInWindow /\ OutcomesCountedOnce
  BY EvidenceHolds
<1> QED BY <1>1, <1>2, <1>3, <1>4, PTL DEF CollectionSpec, EvidenceIsSound, SavedOutcomesAreFinal

=============================================================================
