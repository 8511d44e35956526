---------------------------- MODULE MarketProofs ----------------------------
(***************************************************************************)
(* What brings market data in keeps its promises for every bound: the      *)
(* chain stream (SolanaStream) is current and implements StreamHealth, a   *)
(* token follows the chain (EventOrder), a position is written off on      *)
(* evidence of its own only (RouteProbes), the routes that wait for an     *)
(* outcome take turns (CheckpointTurns), requests stay within the month,   *)
(* the plan and the penalties of their provider (ProviderCalls), and no    *)
(* series of paper fills against unmoved reserves takes out more than it   *)
(* put in (CurveMath).                                                     *)
(***************************************************************************)
EXTENDS SolanaStream, EventOrder, RouteProbes, CheckpointTurns, ProviderCalls, CurveMath, TLAPS

-----------------------------------------------------------------------------
\* The chain stream.

Phases == Live \cup {"ended", "top", "waiting"}

\* StreamTypeOK in the parts that the steps of the proof deal with.
FlagsTyped ==
    /\ connected \in BOOLEAN /\ failed \in BOOLEAN /\ changed \in BOOLEAN
    /\ stable \in BOOLEAN /\ fallback \in BOOLEAN /\ hasFallback \in BOOLEAN
    /\ stopSet \in BOOLEAN

AttemptTyped ==
    /\ pc \in Phases
    /\ gen \in 0..MaxGenerations /\ attempt \in 0..gen /\ refusedIn \in -1..gen
    /\ acks \subseteq {1, 2}
    /\ pending \in 0..2 /\ (pc = "handing" => pending > 0)

WaitsTyped ==
    /\ backoff \in 1..LimitCap /\ delay \in 0..LimitCap
    /\ reconnects \in 0..MaxFailures

\* A connected task at the top of its loop is about to end: it left the read loop because
\* of the stop event, so the flag is cleared before another attempt could inherit it.
ConnectedLeavesByStop == connected /\ pc = "top" => stopSet

\* An open socket has no error of its attempt to report.
OpenHasNotFailed == pc \in {"subscribing", "reading", "handing"} => ~failed

StreamInv ==
    /\ FlagsTyped /\ AttemptTyped /\ WaitsTyped
    /\ ConnectedIsCurrent /\ ConnectedLeavesByStop /\ OpenHasNotFailed
    /\ WakeNotLost /\ FallbackEarned

Kinds == {"429", "413", "other"}

-----------------------------------------------------------------------------
\* The back-off stays positive and both waits stay below the cap.
LEMMA RetryBounded ==
    ASSUME NEW kind \in Kinds, NEW current \in 1..LimitCap, NEW r \in {0, LimitFloor}
    PROVE  /\ Retry(kind, current, r)[1] \in 0..LimitCap
           /\ Retry(kind, current, r)[2] \in 1..LimitCap
<1> USE StreamAssumption DEF Least, Most
<1>1. CASE ~Limited(kind) /\ (kind # "413" \/ r = 0)
      BY <1>1 DEF Retry
<1>2. CASE ~Limited(kind) /\ ~(kind # "413" \/ r = 0)
      BY <1>2 DEF Retry
<1>3. CASE Limited(kind)
      BY <1>3 DEF Retry
<1> QED BY <1>1, <1>2, <1>3

\* What a failure of the current attempt leaves behind.
LEMMA FailureEffect ==
    ASSUME StreamInv, NEW kind \in Kinds, NEW r \in {0, LimitFloor}, AttemptFails(kind, r)
    PROVE  \/ /\ Superseded /\ Return
              /\ UNCHANGED <<connected, failed, reconnects, fallback, delay, refusedIn>>
           \/ /\ ~Superseded
              /\ connected' = FALSE /\ failed' = TRUE
              /\ reconnects < MaxFailures /\ reconnects' = reconnects + 1
              /\ delay' \in 0..LimitCap /\ backoff' \in 1..LimitCap
              /\ fallback' \in BOOLEAN /\ refusedIn' \in {attempt, refusedIn}
              /\ fallback' /\ ~fallback => refusedIn' = attempt
              /\ pc' = "waiting" /\ pending' = 0
<1> DEFINE start == IF stable /\ ~Limited(kind) THEN 1 ELSE backoff
           next == IF TakesFallback(kind) THEN <<1, 1>> ELSE Retry(kind, start, r)
<1>1. start \in 1..LimitCap
      BY StreamAssumption DEF StreamInv, WaitsTyped
<1>2. next[1] \in 0..LimitCap /\ next[2] \in 1..LimitCap
  <2>1. CASE TakesFallback(kind)
        BY <2>1, StreamAssumption
  <2>2. CASE ~TakesFallback(kind)
    <3>1. next = Retry(kind, start, r)
          BY <2>2
    <3> HIDE DEF start, next
    <3> QED BY <3>1, <1>1, RetryBounded
  <2> QED BY <2>1, <2>2
<1>3. CASE Superseded
      BY Zenon, <1>3 DEF AttemptFails
<1>4. CASE ~Superseded
  <2>1. /\ connected' = FALSE /\ failed' = TRUE /\ reconnects' = reconnects + 1
        /\ fallback' = (fallback \/ TakesFallback(kind))
        /\ refusedIn' = IF Refused(kind) THEN attempt ELSE refusedIn
        /\ delay' = next[1] /\ backoff' = next[2]
        /\ pc' = "waiting" /\ pending' = 0 /\ reconnects < MaxFailures
        BY Zenon, <1>4 DEF AttemptFails
  <2>2. fallback' \in BOOLEAN
        BY Zenon, <2>1
  <2>3. fallback' /\ ~fallback => refusedIn' = attempt
        BY Zenon, <2>1 DEF TakesFallback
  <2> HIDE DEF next
  <2> QED BY <1>2, <1>4, <2>1, <2>2, <2>3
<1> QED BY <1>3, <1>4

LEMMA StreamInitially == StreamInit => StreamInv
<1> SUFFICES ASSUME StreamInit PROVE StreamInv
    OBVIOUS
<1>1. FlagsTyped
      BY Zenon DEF StreamInit, FlagsTyped
<1>2. AttemptTyped /\ WaitsTyped
      BY StreamAssumption DEF StreamInit, AttemptTyped, WaitsTyped, Phases, Live
<1>3. ~connected /\ ~fallback /\ pc = "ended"
      BY DEF StreamInit
<1> QED BY <1>1, <1>2, <1>3
        DEF StreamInv, ConnectedIsCurrent, ConnectedLeavesByStop, OpenHasNotFailed, WakeNotLost, FallbackEarned

\* Flags keep their values in BOOLEAN, acknowledgements come from the two subscriptions.
LEMMA FlagsStep == StreamInv /\ [StreamNext]_streamVars => FlagsTyped'
<1> SUFFICES ASSUME StreamInv, [StreamNext]_streamVars PROVE FlagsTyped'
    OBVIOUS
<1>0. FlagsTyped
      BY DEF StreamInv
<1> USE DEF FlagsTyped
<1>1. CASE StartSource \/ Attempt \/ Opened \/ Subscribed
      BY Zenon, <1>0, <1>1 DEF StartSource, Attempt, Opened, Subscribed
<1>2. ASSUME NEW i \in {1, 2}, Acknowledged(i) PROVE FlagsTyped'
      BY Zenon, <1>0, <1>2 DEF Acknowledged
<1>3. ASSUME NEW n \in 0..2, NEW longEnough \in BOOLEAN, Notified(n, longEnough)
      PROVE FlagsTyped'
      BY Zenon, <1>0, <1>3 DEF Notified
<1>4. CASE HandOff \/ LeaveRead \/ RetryWaitEnds
      BY Zenon, <1>0, <1>4 DEF HandOff, LeaveRead, RetryWaitEnds
<1>5. ASSUME NEW kind \in Kinds, NEW r \in {0, LimitFloor}, AttemptFails(kind, r)
      PROVE FlagsTyped'
  <2>1. UNCHANGED <<changed, stable, hasFallback, stopSet>>
        BY Zenon, <1>5 DEF AttemptFails
  <2>2. connected' \in BOOLEAN /\ failed' \in BOOLEAN /\ fallback' \in BOOLEAN
        BY <1>0, <1>5, FailureEffect
  <2> QED BY <1>0, <2>1, <2>2
<1>6. ASSUME NEW fb \in BOOLEAN, ConfigureStream(fb) PROVE FlagsTyped'
      BY Zenon, <1>0, <1>6 DEF ConfigureStream
<1>7. CASE StopSource \/ CancelSource
      BY Zenon, <1>0, <1>7 DEF StopSource, CancelSource
<1>8. CASE UNCHANGED streamVars
      BY Zenon, <1>0, <1>8 DEF streamVars
<1> QED BY Zenon, <1>1, <1>2, <1>3, <1>4, <1>5, <1>6, <1>7, <1>8 DEF StreamNext, Kinds

\* A failure reaches a wait or, if it is one of an old generation, the top of the loop.
LEMMA FailureStep ==
    ASSUME StreamInv, NEW kind \in Kinds, NEW r \in {0, LimitFloor}, AttemptFails(kind, r)
    PROVE  /\ AttemptTyped' /\ WaitsTyped'
           /\ ConnectedIsCurrent' /\ ConnectedLeavesByStop' /\ OpenHasNotFailed'
           /\ WakeNotLost' /\ FallbackEarned'
<1>1. UNCHANGED <<gen, attempt, acks, changed, stopSet>> /\ pc \in Live
      BY Zenon DEF AttemptFails
<1>2. CASE Superseded /\ Return /\
           UNCHANGED <<connected, failed, reconnects, fallback, delay, refusedIn>>
      BY <1>1, <1>2, StreamAssumption
         DEF StreamInv, AttemptTyped, WaitsTyped, ConnectedIsCurrent, ConnectedLeavesByStop,
             OpenHasNotFailed, WakeNotLost, FallbackEarned, Superseded, Return, Phases, Live
<1>3. CASE /\ ~Superseded /\ connected' = FALSE /\ failed' = TRUE
           /\ reconnects < MaxFailures /\ reconnects' = reconnects + 1
           /\ delay' \in 0..LimitCap /\ backoff' \in 1..LimitCap
           /\ fallback' \in BOOLEAN /\ refusedIn' \in {attempt, refusedIn}
           /\ fallback' /\ ~fallback => refusedIn' = attempt
           /\ pc' = "waiting" /\ pending' = 0
  <2>1. AttemptTyped' /\ WaitsTyped'
        BY <1>1, <1>3, StreamAssumption DEF StreamInv, AttemptTyped, WaitsTyped, Phases
  <2>2. ConnectedIsCurrent' /\ ConnectedLeavesByStop' /\ OpenHasNotFailed' /\ WakeNotLost'
        BY <1>1, <1>3 DEF ConnectedIsCurrent, ConnectedLeavesByStop, OpenHasNotFailed, WakeNotLost, Superseded
  <2>3. FallbackEarned'
        BY <1>1, <1>3 DEF StreamInv, FallbackEarned, Superseded
  <2> QED BY <2>1, <2>2, <2>3
<1> QED BY <1>2, <1>3, FailureEffect

LEMMA StreamStep == StreamInv /\ [StreamNext]_streamVars => StreamInv'
<1> SUFFICES ASSUME StreamInv, [StreamNext]_streamVars PROVE StreamInv'
    OBVIOUS
<1> DEFINE Rest == AttemptTyped /\ WaitsTyped /\ ConnectedIsCurrent /\
                   ConnectedLeavesByStop /\ OpenHasNotFailed /\
                   WakeNotLost /\ FallbackEarned
<1>0. FlagsTyped'
      BY FlagsStep
<1> USE StreamAssumption
    DEF StreamInv, AttemptTyped, WaitsTyped, Phases, Live, Superseded, Return,
        ConnectedIsCurrent, ConnectedLeavesByStop, OpenHasNotFailed, WakeNotLost, FallbackEarned
<1>1. ASSUME StartSource PROVE Rest'
      BY <1>1 DEF StartSource
<1>2. ASSUME Attempt PROVE Rest'
      BY <1>2 DEF Attempt
<1>3. ASSUME Opened PROVE Rest'
  <2>1. CASE Superseded
    <3>1. /\ Return
          /\ UNCHANGED <<gen, attempt, refusedIn, acks, delay, reconnects, changed, fallback,
                         connected, failed, stopSet>>
          BY Zenon, <1>3, <2>1 DEF Opened
    <3> QED BY <2>1, <3>1
  <2>2. CASE ~Superseded
    <3>1. ~connected' /\ ~failed' /\ pc' = "subscribing" /\ acks' = {}
          BY Zenon, <1>3, <2>2 DEF Opened
    <3>2. UNCHANGED <<gen, attempt, refusedIn, pending, backoff, delay, reconnects,
                      changed, fallback>>
          BY Zenon, <1>3, <2>2 DEF Opened
    <3> QED BY <3>1, <3>2
  <2> QED BY <2>1, <2>2
<1>4. ASSUME Subscribed PROVE Rest'
      BY <1>4 DEF Subscribed
<1>5. ASSUME NEW i \in {1, 2}, Acknowledged(i) PROVE Rest'
  <2>1. CASE Superseded
    <3>1. /\ Return
          /\ UNCHANGED <<gen, attempt, refusedIn, acks, delay, reconnects, changed, fallback,
                         connected, failed, stopSet>>
          BY Zenon, <1>5, <2>1 DEF Acknowledged
    <3> QED BY <2>1, <3>1
  <2>2. CASE ~Superseded
    <3>1. connected' => acks' = {1, 2}
          BY Zenon, <1>5, <2>2 DEF Acknowledged
    <3>2. /\ pc = "reading" /\ acks' = acks \cup {i}
          /\ UNCHANGED <<pc, gen, attempt, refusedIn, pending, backoff, delay, reconnects,
                         changed, fallback, failed, stopSet>>
          BY Zenon, <1>5, <2>2 DEF Acknowledged
    <3> QED BY <2>2, <3>1, <3>2
  <2> QED BY <2>1, <2>2
<1>6. ASSUME NEW n \in 0..2, NEW longEnough \in BOOLEAN, Notified(n, longEnough)
      PROVE Rest'
      BY <1>6 DEF Notified
<1>7. ASSUME HandOff PROVE Rest'
      BY <1>7 DEF HandOff
<1>8. ASSUME LeaveRead PROVE Rest'
      BY <1>8 DEF LeaveRead
<1>9. ASSUME RetryWaitEnds PROVE Rest'
      BY <1>9 DEF RetryWaitEnds
<1>10. ASSUME NEW kind \in Kinds, NEW r \in {0, LimitFloor}, AttemptFails(kind, r)
       PROVE Rest'
       BY <1>10, FailureStep
<1>11. ASSUME NEW fb \in BOOLEAN, ConfigureStream(fb) PROVE Rest'
       BY <1>11 DEF ConfigureStream
<1>12. ASSUME StopSource PROVE Rest'
       BY <1>12 DEF StopSource
<1>13. ASSUME CancelSource PROVE Rest'
       BY <1>13 DEF CancelSource
<1>14. ASSUME UNCHANGED streamVars PROVE Rest'
       BY <1>14 DEF streamVars
<1> QED BY Zenon, <1>0, <1>1, <1>2, <1>3, <1>4, <1>5, <1>6, <1>7, <1>8, <1>9, <1>10, <1>11,
           <1>12, <1>13, <1>14 DEF StreamNext, Kinds

LEMMA StreamInvariant == StreamSpec => []StreamInv
BY StreamInitially, StreamStep, PTL DEF StreamSpec

-----------------------------------------------------------------------------
\* After configure no event of the old endpoints is handed off, the rest of a notification
\* included (solana.py 335-340).
LEMMA HandOffStep ==
    ASSUME StreamInv, [StreamNext]_streamVars,
           pc = "handing", pending' = pending - 1, pc' \in {"handing", "reading"}
    PROVE  attempt = gen /\ ~stopSet
<1> USE DEF StreamInv, AttemptTyped
<1>1. pending \in 1..2
      OBVIOUS
<1>2. CASE StartSource \/ Attempt \/ Opened \/ Subscribed \/ LeaveRead \/ RetryWaitEnds
      BY <1>2 DEF StartSource, Attempt, Opened, Subscribed, LeaveRead, RetryWaitEnds
<1>3. ASSUME NEW i \in {1, 2}, Acknowledged(i) PROVE FALSE
      BY <1>3 DEF Acknowledged
<1>4. ASSUME NEW n \in 0..2, NEW longEnough \in BOOLEAN, Notified(n, longEnough) PROVE FALSE
      BY <1>4 DEF Notified
<1>5. CASE HandOff
      BY <1>5 DEF HandOff, Superseded, Return
<1>6. ASSUME NEW kind \in Kinds, NEW r \in {0, LimitFloor}, AttemptFails(kind, r) PROVE FALSE
      BY <1>6, FailureEffect DEF Return
<1>7. ASSUME NEW fb \in BOOLEAN, ConfigureStream(fb) PROVE FALSE
      BY <1>1, <1>7 DEF ConfigureStream
<1>8. CASE StopSource \/ CancelSource
      BY <1>1, <1>8 DEF StopSource, CancelSource
<1>9. CASE UNCHANGED streamVars
      BY <1>1, <1>9 DEF streamVars
<1> QED BY Zenon, <1>2, <1>3, <1>4, <1>5, <1>6, <1>7, <1>8, <1>9 DEF StreamNext, Kinds

\* Nothing an attempt of an old configuration does counts for the new one: the connection
\* flag, the wake-up, the fallback and the events handed off are of the generation in
\* force, and the waits keep their cap (solana.py 139-189, 203-350, 467-517).
THEOREM StreamAlwaysCurrent == StreamSpec => StreamIsCurrent
<1>1. StreamInv => StreamTypeOK
  <2> SUFFICES ASSUME StreamInv PROVE StreamTypeOK
      OBVIOUS
  <2>1. {connected, failed, changed, stable, fallback, hasFallback, stopSet} \subseteq BOOLEAN
        BY Zenon DEF StreamInv, FlagsTyped
  <2>2. AttemptTyped /\ WaitsTyped
        BY Zenon DEF StreamInv
  <2> QED BY Zenon, <2>1, <2>2 DEF StreamTypeOK, AttemptTyped, WaitsTyped, Phases
<1>2. StreamInv => ConnectedIsCurrent /\ WakeNotLost /\ FallbackEarned
      BY DEF StreamInv
<1>3. StreamInv /\ [StreamNext]_streamVars
        => [(pc = "handing" /\ pending' = pending - 1 /\ pc' \in {"handing", "reading"})
               => (attempt = gen /\ ~stopSet)]_streamVars
      BY HandOffStep
<1> QED BY <1>1, <1>2, <1>3, StreamInvariant, PTL DEF StreamSpec, StreamIsCurrent, NoStaleHandOff

-----------------------------------------------------------------------------
\* One step of the provider is a step of StreamHealth or leaves it alone.
LEMMA HealthStep ==
    ASSUME StreamInv, [StreamNext]_streamVars
    PROVE  [Health!HealthNext(ExplicitChange)]_(Health!healthVars)
<1> DEFINE Healthy == connected /\ ~failed
           Same == UNCHANGED <<Healthy, reconnects>>
           Recovers == ~Healthy /\ Healthy' /\ UNCHANGED reconnects
           Counted == ~Healthy' /\ reconnects' = reconnects + 1
           Explicit == (gen' # gen \/ stopSet) /\ Healthy /\ ~Healthy' /\ UNCHANGED reconnects
<1>0. SUFFICES Same \/ Recovers \/ Counted \/ Explicit
      BY Zenon DEF Health!HealthNext, Health!healthVars, Health!Recover, Health!CountedDrop,
                   Health!ExplicitEnd, ExplicitChange
<1>1. CASE StartSource \/ Subscribed \/ HandOff \/ LeaveRead \/ RetryWaitEnds \/ StopSource
  <2>1. UNCHANGED <<connected, failed, reconnects>>
        BY SMT, <1>1
        DEF StartSource, Subscribed, HandOff, LeaveRead, RetryWaitEnds, StopSource
  <2> QED BY Zenon, <2>1
<1>2. CASE Attempt
      BY Zenon, <1>2 DEF Attempt
<1>3. CASE Opened
  <2>1. CASE Superseded
        BY Zenon, <1>3, <2>1 DEF Opened
  <2>2. CASE ~Superseded
    <3>1. ~Healthy
          BY <1>3 DEF Opened, StreamInv, ConnectedIsCurrent
    <3> QED BY Zenon, <1>3, <2>2, <3>1 DEF Opened
  <2> QED BY <2>1, <2>2
<1>4. ASSUME NEW i \in {1, 2}, Acknowledged(i) PROVE Same \/ Recovers
  <2>1. UNCHANGED <<failed, reconnects>>
        BY Zenon, <1>4 DEF Acknowledged
  <2>2. connected => connected'
    <3>1. connected => acks \cup {i} = {1, 2}
          BY <1>4 DEF StreamInv, ConnectedIsCurrent
    <3> QED BY Zenon, <1>4, <3>1 DEF Acknowledged
  <2>3. connected \in BOOLEAN /\ connected' \in BOOLEAN /\ failed \in BOOLEAN
        BY Zenon, FlagsStep DEF StreamInv, FlagsTyped
  <2> QED BY Zenon, <2>1, <2>2, <2>3
<1>5. ASSUME NEW n \in 0..2, NEW longEnough \in BOOLEAN, Notified(n, longEnough) PROVE Same
      BY Zenon, <1>5 DEF Notified
<1>6. ASSUME NEW kind \in Kinds, NEW r \in {0, LimitFloor}, AttemptFails(kind, r)
      PROVE Same \/ Counted
      BY Zenon, <1>6, FailureEffect
<1>7. ASSUME NEW fb \in BOOLEAN, ConfigureStream(fb) PROVE Same \/ Explicit
  <2>1. gen' # gen
        BY <1>7 DEF ConfigureStream, StreamInv, AttemptTyped
  <2>2. ~Healthy' /\ UNCHANGED reconnects
        BY Zenon, <1>7 DEF ConfigureStream
  <2> QED BY Zenon, <2>1, <2>2
<1>8. CASE CancelSource
      BY Zenon, <1>8 DEF CancelSource
<1>9. CASE UNCHANGED streamVars
      BY Zenon, <1>9 DEF streamVars
<1> QED BY Zenon, <1>1, <1>2, <1>3, <1>4, <1>5, <1>6, <1>7, <1>8, <1>9 DEF StreamNext, Kinds

\* The provider implements StreamHealth: a healthy stream becomes unhealthy only when its
\* reconnect count moves, or by a new configuration or a stop (solana.py 139-189, 519-538).
THEOREM StreamImplementsHealth == StreamSpec => HealthImplemented
<1>1. StreamInit => Health!HealthInit
      BY Zenon DEF StreamInit, Health!HealthInit
<1>2. StreamInv /\ [StreamNext]_streamVars
        => [Health!HealthNext(ExplicitChange)]_(Health!healthVars)
      BY HealthStep
<1> QED BY <1>1, <1>2, StreamInvariant, PTL DEF StreamSpec, HealthImplemented

-----------------------------------------------------------------------------
\* The order of events of one token.

Slots == 0..MaxSlot
Positions == [slot : Slots, seq : Nat]

TokenTyped ==
    token \in [known : BOOLEAN, lastSlot : Slots, reserveSlot : Slots, at : Nat,
               pool : Venues, verified : BOOLEAN, shown : Slots]

RowsTyped ==
    /\ chainSlot \in 1..MaxSlot /\ migrated \in BOOLEAN
    /\ emitted \subseteq [slot : 1..MaxSlot, venue : Venues]
    /\ queued \subseteq [slot : 1..MaxSlot, venue : Venues, seq : 1..MaxDeliveries]
    /\ sequence \in Nat

BoundariesTyped ==
    /\ cursor \in Positions /\ fence \in Positions
    /\ snap \in [pc : {"none", "asked", "answered", "applied"}, pool : Venues,
                 slot : Slots, min : Slots]
    /\ check \in Venues

\* The newest slot the features know of; nothing shown is newer.
StateSlot == Larger(token.lastSlot, token.reserveSlot)
ShownIsKnown == token.shown <= StateSlot

\* Between its two steps an applied snapshot is the newest thing the features know.
AppliedIsNewest ==
    snap.pc = "applied" => token.reserveSlot = snap.slot /\ token.lastSlot <= snap.slot

\* The order boundary has reached the last snapshot: a newer slot has been seen, or the
\* cursor stands in the snapshot's slot behind every row received by then.
FenceCovered ==
    \/ fence = NoCursor
    \/ fence.slot < cursor.slot \/ fence.slot < StateSlot
    \/ fence.slot = cursor.slot /\ fence.seq <= cursor.seq

OrderInv ==
    /\ RowsTyped /\ TokenTyped /\ BoundariesTyped
    /\ ShownIsKnown /\ AppliedIsNewest /\ FenceCovered /\ VerifiedIsProven

-----------------------------------------------------------------------------
\* What _accept_event_order lets through: nothing older than the features' newest slot, and
\* in the slot of the cursor only rows received after it.
LEMMA AcceptedIsNewer ==
    ASSUME TokenTyped, BoundariesTyped,
           NEW e \in [slot : 1..MaxSlot, venue : Venues, seq : 1..MaxDeliveries],
           AcceptedInOrder(e)
    PROVE  /\ e.slot >= StateSlot /\ e.slot >= cursor.slot
           /\ e.slot = cursor.slot /\ StateSlot <= cursor.slot => e.seq > cursor.seq
BY OrderAssumption
   DEF TokenTyped, BoundariesTyped, Positions, Slots, AcceptedInOrder, StateSlot, Larger

\* So no row accepted after a snapshot was already received when it was applied.
LEMMA AcceptedIsBehindFence ==
    ASSUME TokenTyped, BoundariesTyped, FenceCovered,
           NEW e \in [slot : 1..MaxSlot, venue : Venues, seq : 1..MaxDeliveries],
           AcceptedInOrder(e)
    PROVE  e.slot > fence.slot \/ (e.slot = fence.slot /\ e.seq > fence.seq)
<1> USE OrderAssumption DEF BoundariesTyped, Positions, Slots, NoCursor
<1>0. StateSlot \in Slots
      BY DEF TokenTyped, StateSlot, Larger
<1>1. CASE fence = NoCursor
      BY <1>1
<1>2. CASE fence.slot < cursor.slot \/ fence.slot < StateSlot
      BY <1>0, <1>2, AcceptedIsNewer
<1>3. CASE fence.slot = cursor.slot /\ fence.seq <= cursor.seq
      BY <1>0, <1>3, AcceptedIsNewer
<1> QED BY <1>1, <1>2, <1>3 DEF FenceCovered

LEMMA OrderInitially == OrderInit => OrderInv
<1> SUFFICES ASSUME OrderInit PROVE OrderInv
    OBVIOUS
<1> USE OrderAssumption DEF OrderInit, Slots, Venues, CURVE
<1>1. RowsTyped
  <2>1. migrated \in BOOLEAN
        BY Zenon
  <2>2. chainSlot \in 1..MaxSlot /\ emitted = {} /\ queued = {} /\ sequence \in Nat
        OBVIOUS
  <2> QED BY <2>1, <2>2 DEF RowsTyped
<1>2. TokenTyped
      BY DEF TokenTyped, NoToken
<1>3. BoundariesTyped
      BY DEF BoundariesTyped, Positions, NoCursor, NoSnap
<1>4. ShownIsKnown /\ AppliedIsNewest /\ FenceCovered /\ VerifiedIsProven
      BY DEF StateSlot, Larger, ShownIsKnown, AppliedIsNewest, FenceCovered, VerifiedIsProven,
             NoToken, NoSnap
<1> QED BY <1>1, <1>2, <1>3, <1>4 DEF OrderInv

\* The chain and the deliveries touch rows only.
LEMMA RowSteps ==
    ASSUME OrderInv,
           \/ \E v \in Venues : ChainTrades(v)
           \/ \E migrates \in BOOLEAN : ChainAdvances(migrates)
           \/ \E r \in emitted : Receive(r)
    PROVE  RowsTyped' /\ UNCHANGED <<cursor, token, snap, check, fence, proven>>
<1> USE OrderAssumption DEF OrderInv, RowsTyped
<1>1. ASSUME NEW v \in Venues, ChainTrades(v)
      PROVE RowsTyped' /\ UNCHANGED <<cursor, token, snap, check, fence, proven>>
      BY <1>1 DEF ChainTrades
<1>2. ASSUME NEW migrates \in BOOLEAN, ChainAdvances(migrates)
      PROVE RowsTyped' /\ UNCHANGED <<cursor, token, snap, check, fence, proven>>
  <2>1. chainSlot' \in 1..MaxSlot
        BY <1>2 DEF ChainAdvances
  <2>2. migrated' \in BOOLEAN
        BY Zenon, <1>2 DEF ChainAdvances
  <2>3. UNCHANGED <<emitted, queued, sequence, cursor, token, snap, check, fence, proven>>
        BY <1>2 DEF ChainAdvances
  <2> QED BY <2>1, <2>2, <2>3
<1>3. ASSUME NEW r \in emitted, Receive(r)
      PROVE RowsTyped' /\ UNCHANGED <<cursor, token, snap, check, fence, proven>>
      BY <1>3 DEF Receive
<1> QED BY <1>1, <1>2, <1>3

\* A row handled under the event lock.
LEMMA HandleStep ==
    ASSUME OrderInv, NEW e \in queued, HandleRow(e)
    PROVE  /\ OrderInv'
           /\ token'.known => token'.shown >= token.shown
           /\ token' # token => e.slot > fence.slot \/ e.seq > fence.seq
<1> USE OrderAssumption
    DEF OrderInv
<1>1. e \in [slot : 1..MaxSlot, venue : Venues, seq : 1..MaxDeliveries]
      BY DEF RowsTyped
<1>2. RowsTyped'
      BY DEF HandleRow, RowsTyped
<1>3. UNCHANGED <<snap, check, fence, proven>> /\ snap.pc # "applied"
      BY DEF HandleRow, LockFree
<1>4. CASE RegressesRoute(e) \/ ~AcceptedInOrder(e)
  <2>1. UNCHANGED <<cursor, token>>
        BY <1>4 DEF HandleRow
  <2> QED BY <1>2, <1>3, <2>1
          DEF TokenTyped, BoundariesTyped, Slots, StateSlot, ShownIsKnown, AppliedIsNewest,
              FenceCovered, VerifiedIsProven
<1>5. CASE ~RegressesRoute(e) /\ AcceptedInOrder(e)
  <2>1. cursor' = CursorAfter(e) /\ token' = Applied(e)
        BY <1>5 DEF HandleRow
  <2>2. TokenTyped'
        BY <1>1, <2>1 DEF Applied, TokenTyped, Slots, Larger, Venues
  <2>3. BoundariesTyped'
        BY <1>1, <1>3, <2>1 DEF CursorAfter, BoundariesTyped, TokenTyped, Positions, Slots, Larger
  <2>4. ShownIsKnown' /\ AppliedIsNewest'
        BY <1>1, <1>3, <2>1 DEF Applied, ShownIsKnown, AppliedIsNewest, StateSlot, TokenTyped,
                               Slots, Larger
  <2>5. VerifiedIsProven'
        BY <1>3, <2>1 DEF Applied, VerifiedIsProven
  <2>6. /\ e.slot >= StateSlot /\ e.slot >= cursor.slot
        /\ e.slot > fence.slot \/ (e.slot = fence.slot /\ e.seq > fence.seq)
        BY <1>1, <1>5, AcceptedIsNewer, AcceptedIsBehindFence
  <2>7. cursor'.slot = e.slot /\ cursor'.seq = e.seq
        BY <1>1, <2>1, <2>6
        DEF CursorAfter, StateSlot, TokenTyped, BoundariesTyped, Positions, Slots, Larger
  <2>8. FenceCovered'
        BY <1>1, <1>3, <2>6, <2>7 DEF FenceCovered, BoundariesTyped, Positions, Slots
  <2>9. token'.shown >= token.shown
        BY <1>1, <2>1, <2>6
        DEF Applied, ShownIsKnown, StateSlot, TokenTyped, Slots, Larger
  <2> QED BY <1>2, <2>2, <2>3, <2>4, <2>5, <2>6, <2>8, <2>9
<1> QED BY <1>4, <1>5

\* A snapshot's request, answer, application and fence.
LEMMA SnapshotStep ==
    ASSUME OrderInv,
           \/ RequestSnapshot \/ ApplySnapshot \/ FenceSnapshot
           \/ \E s \in 1..chainSlot : AnswerSnapshot(s)
    PROVE  OrderInv' /\ token'.shown >= token.shown /\ queued' = queued
<1> USE OrderAssumption
    DEF OrderInv, RowsTyped, TokenTyped, BoundariesTyped, Positions, Slots, StateSlot, Larger,
        ShownIsKnown, AppliedIsNewest, FenceCovered, VerifiedIsProven
<1>1. CASE RequestSnapshot
      BY <1>1 DEF RequestSnapshot
<1>2. ASSUME NEW s \in 1..chainSlot, AnswerSnapshot(s)
      PROVE OrderInv' /\ token'.shown >= token.shown /\ queued' = queued
  <2>1. /\ snap.pc = "asked" /\ snap' = [snap EXCEPT !.pc = "answered", !.slot = s]
        /\ UNCHANGED <<chainSlot, migrated, emitted, queued, sequence, cursor, token, check,
                       fence, proven>>
        BY <1>2 DEF AnswerSnapshot
  <2>2. s \in 0..MaxSlot
        BY <1>2
  <2>3. BoundariesTyped' /\ snap'.pc = "answered"
        BY <2>1, <2>2
  <2>4. RowsTyped' /\ TokenTyped' /\ ShownIsKnown' /\ FenceCovered' /\ VerifiedIsProven'
        BY <2>1
  <2> QED BY <2>1, <2>3, <2>4
<1>3. CASE ApplySnapshot
  <2>1. UNCHANGED <<chainSlot, migrated, emitted, queued, sequence, cursor, check, fence>>
        BY <1>3 DEF ApplySnapshot
  <2>2. CASE /\ token.known /\ token.pool = snap.pool
             /\ snap.slot >= token.lastSlot /\ snap.slot > token.reserveSlot
    <3>1. /\ token' = [token EXCEPT !.reserveSlot = snap.slot, !.shown = snap.slot,
                             !.at = Larger(@, sequence),
                             !.verified = @ \/ token.pool # CURVE]
          /\ snap' = [snap EXCEPT !.pc = "applied"]
          /\ proven' = IF token.pool # CURVE THEN token.pool ELSE proven
          BY <1>3, <2>2 DEF ApplySnapshot
    <3>2. /\ token'.lastSlot = token.lastSlot /\ token'.reserveSlot = snap.slot
          /\ token'.shown = snap.slot /\ token'.pool = token.pool
          /\ token'.verified = (token.verified \/ token.pool # CURVE)
          BY <3>1
    <3>3. TokenTyped'
          BY <3>1
    <3>4. BoundariesTyped' /\ RowsTyped'
          BY <2>1, <3>1
    <3>5. ShownIsKnown' /\ AppliedIsNewest' /\ token'.shown >= token.shown
          BY <2>2, <3>1, <3>2
    <3>6. VerifiedIsProven'
          BY <3>1, <3>2
    <3>7. FenceCovered'
          BY <2>1, <2>2, <3>2
    <3> QED BY <2>1, <3>3, <3>4, <3>5, <3>6, <3>7
  <2>3. CASE ~(/\ token.known /\ token.pool = snap.pool
               /\ snap.slot >= token.lastSlot /\ snap.slot > token.reserveSlot)
    <3>1. snap' = NoSnap /\ UNCHANGED <<token, proven>>
          BY <1>3, <2>3 DEF ApplySnapshot
    <3>2. BoundariesTyped'
          BY <2>1, <3>1 DEF NoSnap, Venues, CURVE
    <3> QED BY <2>1, <3>1, <3>2 DEF NoSnap
  <2> QED BY <2>2, <2>3
<1>4. CASE FenceSnapshot
  <2>1. /\ snap.pc = "applied" /\ snap' = NoSnap
        /\ fence' = [slot |-> snap.slot, seq |-> sequence]
        /\ UNCHANGED <<chainSlot, migrated, emitted, queued, sequence, token, check, proven>>
        /\ cursor' = IF snap.slot > cursor.slot THEN [slot |-> snap.slot, seq |-> sequence]
                     ELSE IF snap.slot = cursor.slot
                     THEN [cursor EXCEPT !.seq = Larger(@, sequence)] ELSE cursor
        BY <1>4 DEF FenceSnapshot
  <2>2. BoundariesTyped'
        BY <2>1 DEF NoSnap, Venues, CURVE
  <2>3. FenceCovered'
        BY <2>1
  <2>4. ShownIsKnown' /\ AppliedIsNewest' /\ VerifiedIsProven'
        BY <2>1 DEF NoSnap
  <2> QED BY <2>1, <2>2, <2>3, <2>4
<1> QED BY <1>1, <1>2, <1>3, <1>4

\* Verification of a route, and the removal of an inactive token.
LEMMA RouteStep ==
    ASSUME OrderInv,
           RequestRoute \/ (\E ok \in BOOLEAN : ConfirmRoute(ok)) \/ PruneToken
    PROVE  /\ OrderInv' /\ queued' = queued
           /\ token'.known => token'.shown >= token.shown
<1> USE OrderAssumption
    DEF OrderInv, RowsTyped, TokenTyped, BoundariesTyped, Positions, Slots, StateSlot, Larger,
        ShownIsKnown, AppliedIsNewest, FenceCovered, VerifiedIsProven, Venues, CURVE
<1>1. CASE RequestRoute
      BY <1>1 DEF RequestRoute
<1>2. ASSUME NEW ok \in BOOLEAN, ConfirmRoute(ok)
      PROVE OrderInv' /\ queued' = queued /\ token'.shown >= token.shown
  <2>1. /\ snap.pc # "applied" /\ check' = 0
        /\ UNCHANGED <<chainSlot, migrated, emitted, queued, sequence, cursor, snap, fence>>
        BY <1>2 DEF ConfirmRoute, LockFree
  <2>2. CASE ok /\ token.known /\ token.pool = check
    <3>1. token' = [token EXCEPT !.verified = TRUE] /\ proven' = check
          BY <1>2, <2>2 DEF ConfirmRoute
    <3>2. /\ UNCHANGED <<token.lastSlot, token.reserveSlot, token.shown>>
          /\ token'.pool = check /\ TokenTyped'
          BY <2>2, <3>1
    <3> QED BY <2>1, <3>1, <3>2
  <2>3. CASE ~(ok /\ token.known /\ token.pool = check)
    <3>1. UNCHANGED <<token, proven>>
          BY <1>2, <2>3 DEF ConfirmRoute
    <3> QED BY <2>1, <3>1
  <2> QED BY <2>2, <2>3
<1>3. CASE PruneToken
  <2>1. /\ snap.pc # "applied" /\ token' = NoToken /\ cursor' = NoCursor /\ fence' = NoCursor
        /\ UNCHANGED <<chainSlot, migrated, emitted, queued, sequence, snap, check>>
        BY <1>3 DEF PruneToken, LockFree
  <2>2. TokenTyped' /\ BoundariesTyped'
        BY <2>1 DEF NoToken, NoCursor
  <2>3. ShownIsKnown' /\ AppliedIsNewest' /\ FenceCovered' /\ VerifiedIsProven'
        BY <2>1 DEF NoToken
  <2> QED BY <2>1, <2>2, <2>3 DEF NoToken
<1> QED BY <1>1, <1>2, <1>3

LEMMA OrderStep ==
    ASSUME OrderInv, [OrderNext]_orderVars
    PROVE  /\ OrderInv'
           /\ (token.known /\ token'.known) => token'.shown >= token.shown
           /\ \A e \in queued : (e \notin queued' /\ token' # token /\ snap' = snap)
                  => (e.slot > fence.slot \/ e.seq > fence.seq)
<1>1. CASE \/ \E v \in Venues : ChainTrades(v)
           \/ \E migrates \in BOOLEAN : ChainAdvances(migrates)
           \/ \E r \in emitted : Receive(r)
  <2>1. RowsTyped' /\ UNCHANGED <<cursor, token, snap, check, fence, proven>>
        BY <1>1, RowSteps
  <2> QED BY <2>1 DEF OrderInv, TokenTyped, BoundariesTyped, Slots, StateSlot, ShownIsKnown,
                      AppliedIsNewest, FenceCovered, VerifiedIsProven
<1>2. ASSUME NEW e \in queued, HandleRow(e)
      PROVE  /\ OrderInv'
             /\ token'.known => token'.shown >= token.shown
             /\ \A f \in queued : (f \notin queued' /\ token' # token)
                    => (f.slot > fence.slot \/ f.seq > fence.seq)
  <2>1. \A f \in queued : f \notin queued' => f = e
        BY <1>2 DEF HandleRow
  <2> QED BY <1>2, <2>1, HandleStep
<1>3. CASE \/ RequestSnapshot \/ ApplySnapshot \/ FenceSnapshot
           \/ \E s \in 1..chainSlot : AnswerSnapshot(s)
      BY <1>3, SnapshotStep
<1>4. CASE RequestRoute \/ (\E ok \in BOOLEAN : ConfirmRoute(ok)) \/ PruneToken
      BY <1>4, RouteStep
<1>5. CASE UNCHANGED orderVars
      BY <1>5 DEF orderVars, OrderInv, RowsTyped, TokenTyped, BoundariesTyped, Slots, StateSlot,
                  ShownIsKnown, AppliedIsNewest, FenceCovered, VerifiedIsProven
<1> QED BY Zenon, <1>1, <1>2, <1>3, <1>4, <1>5 DEF OrderNext

LEMMA OrderInvariant == OrderSpec => []OrderInv
<1>1. OrderInv /\ [OrderNext]_orderVars => OrderInv'
      BY OrderStep
<1> QED BY <1>1, OrderInitially, PTL DEF OrderSpec

\* What the engine shows of a token follows the chain: never an older slot after a newer one,
\* never a row that a snapshot already contained, never a route proved for another pool, in
\* whatever order rows, answers and verifications arrive (orchestrator.py 1226-1310,
\* 4198-4290, 5139-5148).
THEOREM TokenAlwaysFollowsChain == OrderSpec => TokenFollowsChain
<1>1. OrderInv => OrderTypeOK /\ VerifiedIsProven
      BY DEF OrderInv, OrderTypeOK, RowsTyped, TokenTyped, BoundariesTyped, Positions, Slots
<1>2. OrderInv /\ [OrderNext]_orderVars
        => [(token.known /\ token'.known) => token'.shown >= token.shown]_orderVars
      BY OrderStep
<1>3. OrderInv /\ [OrderNext]_orderVars
        => [\A e \in queued : (e \notin queued' /\ token' # token /\ snap' = snap)
                => (e.slot > fence.slot \/ e.seq > fence.seq)]_orderVars
      BY OrderStep
<1> QED BY <1>1, <1>2, <1>3, OrderInvariant, PTL
        DEF OrderSpec, TokenFollowsChain, ShownNeverRegresses, SnapshotFencesQueue

-----------------------------------------------------------------------------
\* The watchdog's evidence.

ProofType == [outcome : {"unknown", "available", "unavailable"}, id : Nat, askedFor : Nat,
              route : Nat, slot : Nat, at : Nat, askedAt : Nat]

AskType == [pc : {"none", "sent", "answered"}, id : 0..MaxPositions, route : Nat, min : Nat,
            at : Nat, endpoint : Nat, slot : Nat, dead : BOOLEAN, current : BOOLEAN]
ProbeType == [outcome : Outcomes, count : 0..MaxProbes, first : Nat, at : Nat, slot : Nat,
              firstSlot : Nat, id : 0..MaxPositions, route : Nat]

ChainTyped == /\ chain \in [slot : 1..MaxChainSlot, route : {1, 2}, dead : BOOLEAN]
              /\ probeClock \in 1..MaxClock
HeldTyped == /\ held \in [id : 0..MaxPositions, active : BOOLEAN]
             /\ opened \in 0..MaxPositions
StatusTyped == marketStatus \in [route : {1, 2}, lastSlot : Nat, reserveSlot : Nat]
AskTyped == ask \in AskType
EngineTyped == /\ inDemo \in BOOLEAN /\ endpoint \in Nat
               /\ asked \in 0..MaxProbes /\ resets \in 0..MaxResets
EvidenceTyped == /\ probe \in ProbeType /\ proofs \in Seq(ProofType)
                 /\ retired \in [id : Nat, at : Nat, route : Nat]
ProbeRecords == ChainTyped /\ HeldTyped /\ StatusTyped /\ AskTyped /\ EngineTyped /\ EvidenceTyped

\* What is recorded is of the position last opened, one record per request.
RecordsAreRecent ==
    /\ held.id \in {0, opened} /\ probe.id <= opened
    /\ \A k \in DOMAIN proofs : proofs[k].id = opened
    /\ Len(proofs) <= asked /\ (ask.pc # "none" => Len(proofs) < asked)

\* From proofs[i] on every outcome is the probe's.
RunFrom(i) ==
    /\ i \in 1..Len(proofs) /\ probe.count <= Len(proofs) - i + 1
    /\ \A k \in i..Len(proofs) :
          proofs[k].outcome = probe.outcome /\ proofs[k].route = probe.route
    /\ proofs[i].at = probe.first /\ proofs[i].slot = probe.firstSlot
    /\ probe.first <= probe.at /\ probe.firstSlot <= probe.slot
    /\ probe.count >= 2 =>
          \E j \in (i + 1)..Len(proofs) :
              proofs[i].slot < proofs[j].slot /\ proofs[i].at < proofs[j].at

\* A probe of the position last opened stands on a run of its outcomes.
ProbeStandsOnRun ==
    /\ probe.outcome \in {"none", "unknown"} <=> probe.count = 0
    /\ probe.id = 0 => probe.count = 0
    /\ probe.id = opened /\ probe.count > 0 => \E i \in 1..Len(proofs) : RunFrom(i)

RetiredIsGone == retired.id # 0 => held.id = 0

ProbeInv ==
    /\ ProbeRecords /\ RecordsAreRecent /\ ProbeStandsOnRun /\ RetiredIsGone
    /\ WriteOffProven /\ ProofsAreOwn

LEMMA ProbeInvInitially == ProbeInit => ProbeInv
<1> SUFFICES ASSUME ProbeInit PROVE ProbeInv
  OBVIOUS
<1> USE ProbeAssumption DEF ProbeInit, NoPosition, NoAsk, NoProbe, NotRetired, Outcomes
<1>1. ProbeRecords
  <2>1. 1 \in 1..MaxChainSlot /\ 1 \in 1..MaxClock /\ 0 \in 0..MaxPositions /\ 0 \in 0..MaxProbes
        /\ 0 \in 0..MaxResets
    OBVIOUS
  <2>2. ChainTyped /\ HeldTyped /\ StatusTyped /\ EngineTyped
    BY <2>1 DEF ChainTyped, HeldTyped, StatusTyped, EngineTyped
  <2>3. AskTyped
    BY <2>1 DEF AskTyped, AskType
  <2>4. EvidenceTyped
    <3>1. proofs \in Seq(ProofType)
      OBVIOUS
    <3> QED BY <2>1, <3>1 DEF EvidenceTyped, ProbeType
  <2> QED BY <2>2, <2>3, <2>4 DEF ProbeRecords
<1>2. RecordsAreRecent
  BY DEF RecordsAreRecent
<1>3. ProbeStandsOnRun /\ RetiredIsGone /\ WriteOffProven /\ ProofsAreOwn
  BY DEF ProbeStandsOnRun, RetiredIsGone, WriteOffProven, ProofsAreOwn
<1> QED BY <1>1, <1>2, <1>3 DEF ProbeInv

\* What the types say of the numbers.
LEMMA ProbeFields ==
    ASSUME ProbeInv
    PROVE  /\ chain.slot \in Nat /\ chain.slot >= 1 /\ chain.route \in {1, 2} /\ chain.dead \in BOOLEAN
           /\ probeClock \in Nat /\ held.id \in 0..MaxPositions /\ held.active \in BOOLEAN
           /\ opened \in Nat /\ opened <= MaxPositions
           /\ marketStatus.route \in Nat /\ marketStatus.lastSlot \in Nat
           /\ marketStatus.reserveSlot \in Nat
           /\ asked \in Nat /\ asked <= MaxProbes /\ endpoint \in Nat /\ Len(proofs) \in Nat
<1>1. ChainTyped /\ HeldTyped /\ StatusTyped /\ EngineTyped /\ EvidenceTyped
  BY DEF ProbeInv, ProbeRecords
<1>2. chain.slot \in Nat /\ chain.slot >= 1 /\ chain.route \in {1, 2} /\ chain.dead \in BOOLEAN
      /\ probeClock \in Nat
  BY <1>1, ProbeAssumption DEF ChainTyped
<1>3. held.id \in 0..MaxPositions /\ held.active \in BOOLEAN /\ opened \in Nat /\ opened <= MaxPositions
  BY <1>1, ProbeAssumption DEF HeldTyped
<1>4. marketStatus.route \in Nat /\ marketStatus.lastSlot \in Nat /\ marketStatus.reserveSlot \in Nat
  BY <1>1 DEF StatusTyped
<1>5. asked \in Nat /\ asked <= MaxProbes /\ endpoint \in Nat /\ Len(proofs) \in Nat
  BY <1>1, ProbeAssumption DEF EngineTyped, EvidenceTyped
<1> QED BY <1>2, <1>3, <1>4, <1>5

LEMMA NothingAsked == NoAsk \in AskType
BY ProbeAssumption DEF NoAsk, AskType

LEMMA NothingProbed == NoProbe \in ProbeType
BY ProbeAssumption DEF NoProbe, ProbeType, Outcomes

\* Steps that keep what is opened, recorded and retired, and the probe or forget it.
LEMMA ProbeInvKept ==
    ASSUME ProbeInv, ProbeRecords', UNCHANGED <<opened, proofs, retired>>,
           probe' = probe \/ probe' = NoProbe, held'.id = held.id \/ held'.id = 0,
           asked' \in Nat, asked' >= asked, ask'.pc # "none" => ask.pc # "none" \/ asked' > asked
    PROVE  ProbeInv'
<1>1. /\ asked \in Nat /\ Len(proofs) \in Nat /\ opened \in Nat
  BY ProbeFields
<1>2. RecordsAreRecent'
  BY <1>1 DEF ProbeInv, RecordsAreRecent, NoProbe
<1>3. ProbeStandsOnRun' /\ RetiredIsGone'
  <2>1. CASE probe' = probe
    BY <2>1 DEF ProbeInv, ProbeStandsOnRun, RunFrom, RetiredIsGone
  <2>2. CASE probe' = NoProbe
    BY <2>2 DEF ProbeInv, ProbeStandsOnRun, NoProbe, RetiredIsGone
  <2> QED BY <2>1, <2>2
<1>4. WriteOffProven' /\ ProofsAreOwn'
  BY DEF ProbeInv, WriteOffProven, ProofsAreOwn
<1> QED BY <1>2, <1>3, <1>4 DEF ProbeInv

LEMMA ProbesClock == ProbeInv /\ ClockTicks => ProbeInv'
<1> SUFFICES ASSUME ProbeInv, ClockTicks PROVE ProbeInv'
  OBVIOUS
<1>1. UNCHANGED <<chain, marketStatus, held, opened, inDemo, endpoint, ask, probe, asked, resets, proofs, retired>>
  BY DEF ClockTicks
<1>2. ChainTyped /\ HeldTyped /\ StatusTyped /\ AskTyped /\ EngineTyped /\ EvidenceTyped
  BY DEF ProbeInv, ProbeRecords
<1>3. ChainTyped'
  BY <1>1, <1>2, ProbeAssumption DEF ChainTyped, ClockTicks
<1>4. HeldTyped'
  BY <1>1, <1>2 DEF HeldTyped
<1>5. StatusTyped'
  BY <1>1, <1>2 DEF StatusTyped
<1>6. AskTyped'
  BY <1>1, <1>2 DEF AskTyped
<1>7. EngineTyped'
  BY <1>1, <1>2 DEF EngineTyped
<1>8. EvidenceTyped'
  BY <1>1, <1>2 DEF EvidenceTyped
<1>9. ProbeRecords'
  BY <1>3, <1>4, <1>5, <1>6, <1>7, <1>8 DEF ProbeRecords
<1>10. held'.id = held.id \/ held'.id = 0
  BY <1>1 DEF ClockTicks, NoPosition
<1>11. asked' \in Nat /\ asked' >= asked /\ (ask'.pc # "none" => ask.pc # "none" \/ asked' > asked)
  BY <1>1, ProbeFields DEF ClockTicks, NoAsk
<1>12. probe' = probe \/ probe' = NoProbe
  BY <1>1 DEF ClockTicks, Pruned
<1> QED BY <1>1, <1>9, <1>10, <1>11, <1>12, ProbeInvKept

LEMMA ProbesChain == ProbeInv /\ (\E m, d \in BOOLEAN : ChainMoves(m, d)) => ProbeInv'
<1> SUFFICES ASSUME ProbeInv, NEW m \in BOOLEAN, NEW d \in BOOLEAN, ChainMoves(m, d) PROVE ProbeInv'
  OBVIOUS
<1>1. UNCHANGED <<probeClock, marketStatus, held, opened, inDemo, endpoint, ask, probe, asked, resets, proofs, retired>>
  BY DEF ChainMoves
<1>2. ChainTyped /\ HeldTyped /\ StatusTyped /\ AskTyped /\ EngineTyped /\ EvidenceTyped
  BY DEF ProbeInv, ProbeRecords
<1>3. ChainTyped'
  <2>1. chain.slot + 1 \in 1..MaxChainSlot
    <3>1. chain.slot < MaxChainSlot
      BY DEF ChainMoves
    <3>2. chain.slot \in Nat
      BY ProbeFields
    <3> QED BY <3>1, <3>2, ProbeAssumption
  <2>2. (IF m THEN 2 ELSE chain.route) \in {1, 2}
    BY ProbeFields
  <2>3. chain' \in [slot : 1..MaxChainSlot, route : {1, 2}, dead : BOOLEAN]
    BY <2>1, <2>2, Zenon DEF ChainMoves
  <2> QED BY <1>1, <1>2, <2>3 DEF ChainTyped
<1>4. HeldTyped'
  BY <1>1, <1>2 DEF HeldTyped
<1>5. StatusTyped'
  BY <1>1, <1>2 DEF StatusTyped
<1>6. AskTyped'
  BY <1>1, <1>2 DEF AskTyped
<1>7. EngineTyped'
  BY <1>1, <1>2 DEF EngineTyped
<1>8. EvidenceTyped'
  BY <1>1, <1>2 DEF EvidenceTyped
<1>9. ProbeRecords'
  BY <1>3, <1>4, <1>5, <1>6, <1>7, <1>8 DEF ProbeRecords
<1>10. held'.id = held.id \/ held'.id = 0
  BY <1>1 DEF ChainMoves, NoPosition
<1>11. asked' \in Nat /\ asked' >= asked /\ (ask'.pc # "none" => ask.pc # "none" \/ asked' > asked)
  BY <1>1, ProbeFields DEF ChainMoves, NoAsk
<1>12. probe' = probe \/ probe' = NoProbe
  BY <1>1 DEF ChainMoves, Pruned
<1> QED BY <1>1, <1>9, <1>10, <1>11, <1>12, ProbeInvKept

LEMMA ProbesDormant == ProbeInv /\ GoesDormant => ProbeInv'
<1> SUFFICES ASSUME ProbeInv, GoesDormant PROVE ProbeInv'
  OBVIOUS
<1>1. UNCHANGED <<chain, probeClock, marketStatus, opened, inDemo, endpoint, ask, probe, asked, resets, proofs, retired>>
  BY DEF GoesDormant
<1>2. ChainTyped /\ HeldTyped /\ StatusTyped /\ AskTyped /\ EngineTyped /\ EvidenceTyped
  BY DEF ProbeInv, ProbeRecords
<1>3. ChainTyped'
  BY <1>1, <1>2 DEF ChainTyped
<1>4. HeldTyped'
  BY <1>1, <1>2 DEF HeldTyped, GoesDormant
<1>5. StatusTyped'
  BY <1>1, <1>2 DEF StatusTyped
<1>6. AskTyped'
  BY <1>1, <1>2 DEF AskTyped
<1>7. EngineTyped'
  BY <1>1, <1>2 DEF EngineTyped
<1>8. EvidenceTyped'
  BY <1>1, <1>2 DEF EvidenceTyped
<1>9. ProbeRecords'
  BY <1>3, <1>4, <1>5, <1>6, <1>7, <1>8 DEF ProbeRecords
<1>10. held'.id = held.id \/ held'.id = 0
  BY <1>1 DEF GoesDormant, NoPosition
<1>11. asked' \in Nat /\ asked' >= asked /\ (ask'.pc # "none" => ask.pc # "none" \/ asked' > asked)
  BY <1>1, ProbeFields DEF GoesDormant, NoAsk
<1>12. probe' = probe \/ probe' = NoProbe
  BY <1>1 DEF GoesDormant, Pruned
<1> QED BY <1>1, <1>9, <1>10, <1>11, <1>12, ProbeInvKept

LEMMA ProbesAsk == ProbeInv /\ AskRoute => ProbeInv'
<1> SUFFICES ASSUME ProbeInv, AskRoute PROVE ProbeInv'
  OBVIOUS
<1>1. UNCHANGED <<chain, probeClock, marketStatus, held, opened, inDemo, endpoint, probe, resets, proofs, retired>>
  BY DEF AskRoute
<1>2. ChainTyped /\ HeldTyped /\ StatusTyped /\ AskTyped /\ EngineTyped /\ EvidenceTyped
  BY DEF ProbeInv, ProbeRecords
<1>3. ChainTyped'
  BY <1>1, <1>2 DEF ChainTyped
<1>4. HeldTyped'
  BY <1>1, <1>2 DEF HeldTyped
<1>5. StatusTyped'
  BY <1>1, <1>2 DEF StatusTyped
<1>6. AskTyped'
  <2>1. Latest(marketStatus.lastSlot, marketStatus.reserveSlot) \in Nat
    BY ProbeFields DEF Latest
  <2>2. ask' = [pc |-> "sent", id |-> held.id, route |-> marketStatus.route,
                min |-> Latest(marketStatus.lastSlot, marketStatus.reserveSlot), at |-> probeClock,
                endpoint |-> endpoint, slot |-> 0, dead |-> FALSE, current |-> FALSE]
    BY DEF AskRoute, NoAsk
  <2> QED BY <2>1, <2>2, ProbeFields DEF AskTyped, AskType
<1>7. EngineTyped'
  BY <1>1, <1>2, ProbeAssumption DEF EngineTyped, AskRoute
<1>8. EvidenceTyped'
  BY <1>1, <1>2 DEF EvidenceTyped
<1>9. ProbeRecords'
  BY <1>3, <1>4, <1>5, <1>6, <1>7, <1>8 DEF ProbeRecords
<1>10. held'.id = held.id \/ held'.id = 0
  BY <1>1 DEF AskRoute, NoPosition
<1>11. asked' \in Nat /\ asked' >= asked /\ (ask'.pc # "none" => ask.pc # "none" \/ asked' > asked)
  BY <1>1, ProbeFields DEF AskRoute, NoAsk
<1>12. probe' = probe \/ probe' = NoProbe
  BY <1>1 DEF AskRoute, Pruned
<1> QED BY <1>1, <1>9, <1>10, <1>11, <1>12, ProbeInvKept

LEMMA ProbesAnswered == ProbeInv /\ EndpointAnswers => ProbeInv'
<1> SUFFICES ASSUME ProbeInv, EndpointAnswers PROVE ProbeInv'
  OBVIOUS
<1>1. UNCHANGED <<chain, probeClock, marketStatus, held, opened, inDemo, endpoint, probe, asked, resets, proofs, retired>>
  BY DEF EndpointAnswers
<1>2. ChainTyped /\ HeldTyped /\ StatusTyped /\ AskTyped /\ EngineTyped /\ EvidenceTyped
  BY DEF ProbeInv, ProbeRecords
<1>3. ChainTyped'
  BY <1>1, <1>2 DEF ChainTyped
<1>4. HeldTyped'
  BY <1>1, <1>2 DEF HeldTyped
<1>5. StatusTyped'
  BY <1>1, <1>2 DEF StatusTyped
<1>6. AskTyped'
  <2>1. \A d, c \in BOOLEAN, s \in Nat :
            [ask EXCEPT !.pc = "answered", !.slot = s, !.dead = d, !.current = c] \in AskType
    BY <1>2 DEF AskTyped, AskType
  <2> DEFINE c == ask.route = chain.route
  <2>2. ask' = [ask EXCEPT !.pc = "answered", !.slot = chain.slot, !.dead = chain.dead,
                           !.current = c]
    BY DEF EndpointAnswers
  <2>3. chain.slot \in Nat /\ chain.dead \in BOOLEAN
    BY ProbeFields
  <2>4. c \in BOOLEAN
    OBVIOUS
  <2> HIDE DEF c
  <2> QED BY <2>1, <2>2, <2>3, <2>4, Zenon DEF AskTyped
<1>7. EngineTyped'
  BY <1>1, <1>2 DEF EngineTyped
<1>8. EvidenceTyped'
  BY <1>1, <1>2 DEF EvidenceTyped
<1>9. ProbeRecords'
  BY <1>3, <1>4, <1>5, <1>6, <1>7, <1>8 DEF ProbeRecords
<1>10. held'.id = held.id \/ held'.id = 0
  BY <1>1 DEF EndpointAnswers, NoPosition
<1>11. asked' \in Nat /\ asked' >= asked /\ (ask'.pc # "none" => ask.pc # "none" \/ asked' > asked)
  BY <1>1, ProbeFields DEF EndpointAnswers, NoAsk
<1>12. probe' = probe \/ probe' = NoProbe
  BY <1>1 DEF EndpointAnswers, Pruned
<1> QED BY <1>1, <1>9, <1>10, <1>11, <1>12, ProbeInvKept

LEMMA ProbesUnanswered == ProbeInv /\ (EndpointFails \/ DiscardAnswer) => ProbeInv'
<1> SUFFICES ASSUME ProbeInv, EndpointFails \/ DiscardAnswer PROVE ProbeInv'
  OBVIOUS
<1>1. UNCHANGED <<chain, probeClock, marketStatus, held, opened, inDemo, endpoint, probe, asked, resets, proofs, retired>>
  BY DEF EndpointFails, DiscardAnswer
<1>2. ChainTyped /\ HeldTyped /\ StatusTyped /\ AskTyped /\ EngineTyped /\ EvidenceTyped
  BY DEF ProbeInv, ProbeRecords
<1>3. ChainTyped'
  BY <1>1, <1>2 DEF ChainTyped
<1>4. HeldTyped'
  BY <1>1, <1>2 DEF HeldTyped
<1>5. StatusTyped'
  BY <1>1, <1>2 DEF StatusTyped
<1>6. AskTyped'
  BY NothingAsked DEF AskTyped, EndpointFails, DiscardAnswer
<1>7. EngineTyped'
  BY <1>1, <1>2 DEF EngineTyped
<1>8. EvidenceTyped'
  BY <1>1, <1>2 DEF EvidenceTyped
<1>9. ProbeRecords'
  BY <1>3, <1>4, <1>5, <1>6, <1>7, <1>8 DEF ProbeRecords
<1>10. held'.id = held.id \/ held'.id = 0
  BY <1>1 DEF EndpointFails, DiscardAnswer, NoPosition
<1>11. asked' \in Nat /\ asked' >= asked /\ (ask'.pc # "none" => ask.pc # "none" \/ asked' > asked)
  BY <1>1, ProbeFields DEF EndpointFails, DiscardAnswer, NoAsk
<1>12. probe' = probe \/ probe' = NoProbe
  BY <1>1 DEF EndpointFails, DiscardAnswer, Pruned
<1> QED BY <1>1, <1>9, <1>10, <1>11, <1>12, ProbeInvKept

LEMMA ProbesReset == ProbeInv /\ ManualReset => ProbeInv'
<1> SUFFICES ASSUME ProbeInv, ManualReset PROVE ProbeInv'
  OBVIOUS
<1>1. UNCHANGED <<chain, probeClock, marketStatus, opened, inDemo, endpoint, ask, probe, asked, proofs, retired>>
  BY DEF ManualReset
<1>2. ChainTyped /\ HeldTyped /\ StatusTyped /\ AskTyped /\ EngineTyped /\ EvidenceTyped
  BY DEF ProbeInv, ProbeRecords
<1>3. ChainTyped'
  BY <1>1, <1>2 DEF ChainTyped
<1>4. HeldTyped'
  BY <1>1, <1>2, ProbeAssumption DEF HeldTyped, ManualReset, NoPosition
<1>5. StatusTyped'
  BY <1>1, <1>2 DEF StatusTyped
<1>6. AskTyped'
  BY <1>1, <1>2 DEF AskTyped
<1>7. EngineTyped'
  BY <1>1, <1>2, ProbeAssumption DEF EngineTyped, ManualReset
<1>8. EvidenceTyped'
  BY <1>1, <1>2 DEF EvidenceTyped
<1>9. ProbeRecords'
  BY <1>3, <1>4, <1>5, <1>6, <1>7, <1>8 DEF ProbeRecords
<1>10. held'.id = held.id \/ held'.id = 0
  BY <1>1 DEF ManualReset, NoPosition
<1>11. asked' \in Nat /\ asked' >= asked /\ (ask'.pc # "none" => ask.pc # "none" \/ asked' > asked)
  BY <1>1, ProbeFields DEF ManualReset, NoAsk
<1>12. probe' = probe \/ probe' = NoProbe
  BY <1>1 DEF ManualReset, Pruned
<1> QED BY <1>1, <1>9, <1>10, <1>11, <1>12, ProbeInvKept

LEMMA ProbesEndpoint == ProbeInv /\ NewEndpoint => ProbeInv'
<1> SUFFICES ASSUME ProbeInv, NewEndpoint PROVE ProbeInv'
  OBVIOUS
<1>1. UNCHANGED <<chain, probeClock, marketStatus, held, opened, inDemo, ask, probe, asked, proofs, retired>>
  BY DEF NewEndpoint
<1>2. ChainTyped /\ HeldTyped /\ StatusTyped /\ AskTyped /\ EngineTyped /\ EvidenceTyped
  BY DEF ProbeInv, ProbeRecords
<1>3. ChainTyped'
  BY <1>1, <1>2 DEF ChainTyped
<1>4. HeldTyped'
  BY <1>1, <1>2 DEF HeldTyped
<1>5. StatusTyped'
  BY <1>1, <1>2 DEF StatusTyped
<1>6. AskTyped'
  BY <1>1, <1>2 DEF AskTyped
<1>7. EngineTyped'
  BY <1>1, <1>2, ProbeAssumption DEF EngineTyped, NewEndpoint
<1>8. EvidenceTyped'
  BY <1>1, <1>2 DEF EvidenceTyped
<1>9. ProbeRecords'
  BY <1>3, <1>4, <1>5, <1>6, <1>7, <1>8 DEF ProbeRecords
<1>10. held'.id = held.id \/ held'.id = 0
  BY <1>1 DEF NewEndpoint, NoPosition
<1>11. asked' \in Nat /\ asked' >= asked /\ (ask'.pc # "none" => ask.pc # "none" \/ asked' > asked)
  BY <1>1, ProbeFields DEF NewEndpoint, NoAsk
<1>12. probe' = probe \/ probe' = NoProbe
  BY <1>1 DEF NewEndpoint, Pruned
<1> QED BY <1>1, <1>9, <1>10, <1>11, <1>12, ProbeInvKept

\* A heartbeat prunes the probe of another position, a demo switch every probe.
LEMMA ProbesPruned == ProbeInv /\ Heartbeat => ProbeInv'
<1> SUFFICES ASSUME ProbeInv, Heartbeat PROVE ProbeInv'
  OBVIOUS
<1>1. UNCHANGED <<chain, probeClock, marketStatus, held, opened, inDemo, endpoint, ask, asked, resets, proofs, retired>>
  BY DEF Heartbeat
<1>2. ChainTyped /\ HeldTyped /\ StatusTyped /\ AskTyped /\ EngineTyped /\ EvidenceTyped
  BY DEF ProbeInv, ProbeRecords
<1>3. ChainTyped'
  BY <1>1, <1>2 DEF ChainTyped
<1>4. HeldTyped'
  BY <1>1, <1>2 DEF HeldTyped
<1>5. StatusTyped'
  BY <1>1, <1>2 DEF StatusTyped
<1>6. AskTyped'
  BY <1>1, <1>2 DEF AskTyped
<1>7. EngineTyped'
  BY <1>1, <1>2 DEF EngineTyped
<1>8. EvidenceTyped'
  BY <1>1, <1>2, NothingProbed DEF EvidenceTyped, Heartbeat, Pruned
<1>9. ProbeRecords'
  BY <1>3, <1>4, <1>5, <1>6, <1>7, <1>8 DEF ProbeRecords
<1>10. held'.id = held.id \/ held'.id = 0
  BY <1>1 DEF Heartbeat, NoPosition
<1>11. asked' \in Nat /\ asked' >= asked /\ (ask'.pc # "none" => ask.pc # "none" \/ asked' > asked)
  BY <1>1, ProbeFields DEF Heartbeat, NoAsk
<1>12. probe' = probe \/ probe' = NoProbe
  BY <1>1 DEF Heartbeat, Pruned
<1> QED BY <1>1, <1>9, <1>10, <1>11, <1>12, ProbeInvKept

LEMMA ProbesDemo == ProbeInv /\ SwitchDemo => ProbeInv'
<1> SUFFICES ASSUME ProbeInv, SwitchDemo PROVE ProbeInv'
  OBVIOUS
<1>1. UNCHANGED <<chain, probeClock, opened, endpoint, ask, asked, proofs, retired>>
  BY DEF SwitchDemo
<1>2. ChainTyped /\ HeldTyped /\ StatusTyped /\ AskTyped /\ EngineTyped /\ EvidenceTyped
  BY DEF ProbeInv, ProbeRecords
<1>3. ChainTyped'
  BY <1>1, <1>2 DEF ChainTyped
<1>4. HeldTyped'
  BY <1>1, <1>2, ProbeAssumption DEF HeldTyped, SwitchDemo, NoPosition
<1>5. StatusTyped'
  BY <1>1, <1>2 DEF StatusTyped, ChainTyped, SwitchDemo
<1>6. AskTyped'
  BY <1>1, <1>2 DEF AskTyped
<1>7. EngineTyped'
  BY <1>1, <1>2, ProbeAssumption DEF EngineTyped, SwitchDemo
<1>8. EvidenceTyped'
  BY <1>1, <1>2, NothingProbed DEF EvidenceTyped, SwitchDemo
<1>9. ProbeRecords'
  BY <1>3, <1>4, <1>5, <1>6, <1>7, <1>8 DEF ProbeRecords
<1>10. held'.id = held.id \/ held'.id = 0
  BY <1>1 DEF SwitchDemo, NoPosition
<1>11. asked' \in Nat /\ asked' >= asked /\ (ask'.pc # "none" => ask.pc # "none" \/ asked' > asked)
  BY <1>1, ProbeFields DEF SwitchDemo, NoAsk
<1>12. probe' = probe \/ probe' = NoProbe
  BY <1>1 DEF SwitchDemo, Pruned
<1> QED BY <1>1, <1>9, <1>10, <1>11, <1>12, ProbeInvKept

\* A row may open a position, to which nothing recorded before belongs.
LEMMA ProbesRow ==
    ASSUME ProbeInv, NEW pos \in [id : 0..MaxPositions, active : BOOLEAN], StreamRow(pos)
    PROVE  ProbeInv'
<1>1. /\ UNCHANGED <<chain, probeClock, inDemo, endpoint, ask, probe, asked, resets>>
      /\ held' = pos
      /\ marketStatus' = [marketStatus EXCEPT !.route = chain.route, !.lastSlot = chain.slot]
  BY DEF StreamRow
<1>2. ChainTyped /\ HeldTyped /\ StatusTyped /\ AskTyped /\ EngineTyped /\ EvidenceTyped
  BY DEF ProbeInv, ProbeRecords
<1>3. ChainTyped' /\ AskTyped' /\ EngineTyped'
  BY <1>1, <1>2 DEF ChainTyped, AskTyped, EngineTyped
<1>4. StatusTyped'
  BY <1>1, <1>2, ProbeFields DEF StatusTyped
<1>5. \/ UNCHANGED <<opened, proofs, retired>> /\ (pos.id = held.id \/ pos.id = 0)
      \/ /\ opened < MaxPositions
         /\ pos.id = opened + 1 /\ opened' = opened + 1
         /\ proofs' = <<>> /\ retired' = NotRetired
  BY DEF StreamRow, NoPosition
<1>6. CASE UNCHANGED <<opened, proofs, retired>> /\ (pos.id = held.id \/ pos.id = 0)
  <2>1. HeldTyped' /\ EvidenceTyped'
    BY <1>1, <1>2, <1>6 DEF HeldTyped, EvidenceTyped
  <2>2. ProbeRecords'
    BY <1>3, <1>4, <2>1 DEF ProbeRecords
  <2>3. asked' \in Nat /\ asked' >= asked
    BY <1>1, ProbeFields
  <2> QED BY <1>1, <1>6, <2>2, <2>3, ProbeInvKept
<1>7. CASE /\ opened < MaxPositions
           /\ pos.id = opened + 1 /\ opened' = opened + 1
           /\ proofs' = <<>> /\ retired' = NotRetired
  <2>1. opened' \in 0..MaxPositions
    BY <1>7, ProbeFields, ProbeAssumption
  <2>2. HeldTyped' /\ EvidenceTyped'
    BY <1>1, <1>2, <1>7, <2>1 DEF HeldTyped, EvidenceTyped, NotRetired
  <2>3. ProbeRecords'
    BY <1>3, <1>4, <2>2 DEF ProbeRecords
  <2>4. probe.id <= opened /\ probe.id \in Nat /\ opened \in Nat /\ Len(proofs) <= asked
        /\ Len(proofs) \in Nat /\ asked \in Nat
    <3>1. probe.id \in Nat
      BY <1>2, ProbeAssumption DEF EvidenceTyped, ProbeType
    <3> QED BY <3>1, ProbeFields DEF ProbeInv, RecordsAreRecent
  <2>5. RecordsAreRecent'
    <3>1. held'.id = opened' /\ Len(proofs') = 0 /\ DOMAIN proofs' = {}
      BY <1>1, <1>7
    <3>2. probe'.id <= opened' /\ (ask'.pc # "none" => 0 < asked')
      <4>1. ask.pc # "none" => Len(proofs) < asked
        BY DEF ProbeInv, RecordsAreRecent
      <4> QED BY <1>1, <1>7, <2>4, <4>1
    <3> QED BY <1>1, <2>4, <3>1, <3>2 DEF RecordsAreRecent
  <2>6. ProbeStandsOnRun'
    <3>1. probe'.id # opened'
      BY <1>1, <1>7, <2>4
    <3> QED BY <1>1, <3>1 DEF ProbeInv, ProbeStandsOnRun
  <2>7. RetiredIsGone' /\ WriteOffProven' /\ ProofsAreOwn'
    BY <1>7 DEF RetiredIsGone, WriteOffProven, ProofsAreOwn, NotRetired
  <2> QED BY <2>3, <2>5, <2>6, <2>7 DEF ProbeInv
<1> QED BY <1>5, <1>6, <1>7

\* A boundary writes off on the run that the probe stands on.
LEMMA ProbesBoundary ==
    ASSUME ProbeInv, NEW healthy \in BOOLEAN, SeasonBoundary(healthy)
    PROVE  ProbeInv'
<1>1. /\ held' = NoPosition /\ probe' = NoProbe /\ held.id # 0
      /\ UNCHANGED <<chain, probeClock, marketStatus, opened, inDemo, endpoint, ask,
                     asked, resets, proofs>>
  BY DEF SeasonBoundary
<1>2. ChainTyped /\ HeldTyped /\ StatusTyped /\ AskTyped /\ EngineTyped /\ EvidenceTyped
  BY DEF ProbeInv, ProbeRecords
<1>3. ChainTyped' /\ StatusTyped' /\ AskTyped' /\ EngineTyped'
  BY <1>1, <1>2 DEF ChainTyped, StatusTyped, AskTyped, EngineTyped
<1>4. HeldTyped'
  BY <1>1, <1>2, ProbeAssumption DEF HeldTyped, NoPosition
<1>5. RecordsAreRecent'
  BY <1>1, ProbeFields DEF ProbeInv, RecordsAreRecent, NoProbe, NoPosition
<1>6. ProbeStandsOnRun' /\ RetiredIsGone'
  BY <1>1 DEF ProbeStandsOnRun, NoProbe, RetiredIsGone, NoPosition
<1>7. ProofsAreOwn'
  BY <1>1 DEF ProbeInv, ProofsAreOwn
<1>8. CASE retired' = NotRetired
  <2>1. EvidenceTyped'
    BY <1>1, <1>2, <1>8, NothingProbed DEF EvidenceTyped, NotRetired
  <2>2. WriteOffProven'
    BY <1>8 DEF WriteOffProven, NotRetired
  <2> QED BY <1>3, <1>4, <1>5, <1>6, <1>7, <2>1, <2>2 DEF ProbeInv, ProbeRecords
<1>9. CASE /\ ConfirmedUnavailable(Pruned)
           /\ retired' = [id |-> held.id, at |-> probeClock, route |-> Pruned.route]
  <2>1. Pruned = probe /\ probe.id = held.id
    BY <1>9 DEF Pruned, ConfirmedUnavailable, NoProbe
  <2>2. held.id = opened
    BY <1>1 DEF ProbeInv, RecordsAreRecent
  <2>3. /\ probe.outcome = "unavailable" /\ probe.count >= 2 /\ probeClock - probe.first <= ProbeMaxAge
    BY <1>9, <2>1 DEF ConfirmedUnavailable
  <2>4. probe.route \in Nat /\ probe.count \in Nat
    BY <1>2, ProbeAssumption DEF EvidenceTyped, ProbeType
  <2>5. PICK i \in 1..Len(proofs) : RunFrom(i)
    <3>1. probe.count > 0
      BY <2>3, <2>4
    <3> QED BY <2>1, <2>2, <3>1 DEF ProbeInv, ProbeStandsOnRun
  <2>6. PICK j \in (i + 1)..Len(proofs) : proofs[i].slot < proofs[j].slot /\ proofs[i].at < proofs[j].at
    BY <2>3, <2>5 DEF RunFrom
  <2>7. /\ retired'.id = opened /\ retired'.at = probeClock /\ retired'.route = probe.route
        /\ proofs' = proofs
    BY <1>1, <1>9, <2>1, <2>2
  <2>8. DOMAIN proofs = 1..Len(proofs) /\ Len(proofs) \in Nat
    BY <1>2 DEF EvidenceTyped
  <2>9. j \in DOMAIN proofs /\ i \in 1..(j - 1) /\ i \in DOMAIN proofs
    BY <2>8
  <2>10. \A k \in DOMAIN proofs : k >= i => proofs[k].outcome = "unavailable" /\ proofs[k].route = probe.route
    BY <2>3, <2>5, <2>8 DEF RunFrom
  <2>11. proofs[i].id = opened /\ proofs[j].id = opened
    BY <2>9 DEF ProbeInv, RecordsAreRecent
  <2>12. probeClock - proofs[i].at <= ProbeMaxAge
    BY <2>3, <2>5 DEF RunFrom
  <2>13. WriteOffProven'
    BY <2>6, <2>7, <2>9, <2>10, <2>11, <2>12 DEF WriteOffProven
  <2>14. EvidenceTyped'
    <3>1. retired' \in [id : Nat, at : Nat, route : Nat]
      BY <1>9, <2>1, <2>2, <2>4, ProbeFields
    <3> QED BY <1>1, <1>2, <3>1, NothingProbed DEF EvidenceTyped
  <2> QED BY <1>3, <1>4, <1>5, <1>6, <1>7, <2>13, <2>14 DEF ProbeInv, ProbeRecords
<1> QED BY <1>8, <1>9 DEF SeasonBoundary

LEMMA BelowTop ==
    \A n \in Nat : \A i \in 1..n : \A k \in i..(n + 1) : k # n + 1 => k \in i..n /\ k \in 1..n
OBVIOUS

\* An outcome recorded on the run of the probe lengthens it, another one starts a run.
LEMMA RunGrows ==
    ASSUME ProbeInv, NEW outcome \in {"unknown", "available", "unavailable"}, NEW route \in Nat,
           ask.slot \in Nat, held.id = opened, opened # 0,
           probe' = ProbeAfter(outcome, route),
           proofs' \in Seq(ProofType), Len(proofs') = Len(proofs) + 1,
           \A k \in 1..Len(proofs) : proofs'[k] = proofs[k],
           LET r == proofs'[Len(proofs) + 1]
           IN  r.outcome = outcome /\ r.route = route /\ r.slot = ask.slot /\ r.at = probeClock,
           opened' = opened
    PROVE  /\ ProbeStandsOnRun'
           /\ probe'.id = opened /\ probe'.outcome = outcome /\ probe'.route = route
           /\ probe'.first \in Nat /\ probe'.at \in Nat /\ probe'.slot \in Nat
           /\ probe'.firstSlot \in Nat
           /\ probe'.count \in Nat /\ probe'.count <= Len(proofs) + 1
<1> DEFINE old == Pruned
           dup == DuplicateOrReordered(old, outcome, route)
           con == ContinuesSequence(old, outcome, route)
           n == Len(proofs)
<1>1. /\ n \in Nat /\ probeClock \in Nat /\ opened \in Nat
  BY ProbeFields
<1>2. old \in ProbeType /\ (old = probe \/ old = NoProbe)
  BY NothingProbed DEF Pruned, ProbeInv, ProbeRecords, EvidenceTyped
<1>3. /\ old.first \in Nat /\ old.at \in Nat /\ old.slot \in Nat /\ old.firstSlot \in Nat
      /\ old.count \in Nat
  BY <1>2, ProbeAssumption DEF ProbeType
<1>4. /\ probe'.outcome = outcome /\ probe'.id = opened /\ probe'.route = route
      /\ probe'.count = IF outcome = "unknown" THEN 0 ELSE IF dup THEN old.count
                        ELSE IF con THEN old.count + 1 ELSE 1
      /\ probe'.at = IF dup THEN old.at ELSE probeClock
      /\ probe'.first = IF con \/ dup THEN old.first ELSE IF dup THEN old.at ELSE probeClock
      /\ probe'.slot = Latest(old.slot, ask.slot)
      /\ probe'.firstSlot = IF con \/ dup THEN old.firstSlot ELSE ask.slot
  BY DEF ProbeAfter, Recorded
<1> HIDE DEF dup, con, old
<1>5. /\ probe'.first \in Nat /\ probe'.at \in Nat /\ probe'.slot \in Nat
      /\ probe'.firstSlot \in Nat /\ probe'.count \in Nat
      /\ probe'.slot >= ask.slot /\ probe'.slot >= old.slot
  BY <1>1, <1>3, <1>4 DEF Latest
<1>6. CASE outcome = "unknown"
  <2>1. probe'.count = 0
    BY <1>4, <1>6
  <2>2. ProbeStandsOnRun'
    BY <1>4, <1>6, <2>1 DEF ProbeStandsOnRun
  <2> QED BY <1>1, <1>4, <1>5, <2>1, <2>2
<1>7. ASSUME outcome # "unknown", NEW i \in 1..(n + 1), RunFrom(i)', probe'.count > 0
      PROVE  /\ ProbeStandsOnRun' /\ probe'.count <= n + 1
  <2>1. probe'.count <= n + 1
    <3>1. probe'.count <= (n + 1) - i + 1
      BY <1>7 DEF RunFrom
    <3> QED BY <1>1, <1>5, <3>1
  <2>2. Len(proofs') = n + 1
    OBVIOUS
  <2>3. \E k \in 1..Len(proofs') : RunFrom(k)'
    BY <1>7, <2>2
  <2>4. probe'.outcome \notin {"none", "unknown"} /\ probe'.count # 0
    BY <1>4, <1>5, <1>7
  <2>5. probe'.id # 0
    BY <1>4
  <2> QED BY <2>1, <2>3, <2>4, <2>5 DEF ProbeStandsOnRun
<1>8. CASE outcome # "unknown" /\ (dup \/ con)
  <2>1. SameOutcome(old, outcome, route)
    BY <1>8 DEF dup, con, DuplicateOrReordered, ContinuesSequence
  <2>2. old = probe /\ probe.id = opened /\ probe.outcome = outcome /\ probe.route = route
    BY <1>2, <2>1 DEF SameOutcome, NoProbe
  <2>3. probe.count > 0
    <3>1. probe.count # 0
      BY <1>8, <2>2 DEF ProbeInv, ProbeStandsOnRun
    <3> QED BY <1>3, <2>2, <3>1
  <2>4. PICK i \in 1..n : RunFrom(i)
    BY <2>2, <2>3 DEF ProbeInv, ProbeStandsOnRun
  <2>5. /\ probe.count <= n - i + 1
        /\ \A k \in i..n : proofs[k].outcome = probe.outcome /\ proofs[k].route = probe.route
        /\ proofs[i].at = probe.first /\ proofs[i].slot = probe.firstSlot
        /\ probe.first <= probe.at /\ probe.firstSlot <= probe.slot
        /\ probe.count >= 2 =>
              \E j \in (i + 1)..n : proofs[i].slot < proofs[j].slot /\ proofs[i].at < proofs[j].at
    BY <2>4 DEF RunFrom
  <2>6. /\ probe'.first = probe.first /\ probe'.firstSlot = probe.firstSlot
        /\ probe.firstSlot <= probe'.slot
    <3>1. probe'.first = probe.first /\ probe'.firstSlot = probe.firstSlot
      BY <1>4, <1>8, <2>2
    <3> QED BY <1>3, <1>5, <2>2, <2>5, <3>1
  <2>11. /\ probe.count <= n - i + 1 /\ probe.first <= probe.at /\ probe.firstSlot <= probe.slot
         /\ probe.count \in Nat /\ probe.first \in Nat /\ probe.at \in Nat
         /\ probe.slot \in Nat /\ probe.firstSlot \in Nat
    BY <1>3, <2>2, <2>5
  <2>7. i \in 1..(n + 1) /\ proofs'[i] = proofs[i]
    BY <1>1
  <2>8. \A k \in i..(n + 1) : proofs'[k].outcome = probe'.outcome /\ proofs'[k].route = probe'.route
    <3> TAKE k \in i..(n + 1)
    <3>1. CASE k = n + 1
      BY <1>4, <3>1
    <3>2. CASE k # n + 1
      <4>1. k \in i..n /\ k \in 1..n
        BY <1>1, <3>2, BelowTop, Zenon
      <4>2. proofs[k].outcome = probe.outcome /\ proofs[k].route = probe.route
        BY <2>5, <4>1
      <4>3. proofs'[k] = proofs[k]
        BY <4>1
      <4> QED BY <1>4, <2>2, <4>2, <4>3
    <3> QED BY <3>1, <3>2
  <2>9. CASE dup
    <3>1. probe'.count = probe.count /\ probe'.at = probe.at
      BY <1>4, <1>8, <2>2, <2>9
    <3>2. probe'.count <= (n + 1) - i + 1 /\ probe'.first <= probe'.at
      BY <1>1, <1>3, <2>2, <2>5, <2>6, <3>1
    <3>3. probe'.count >= 2 =>
              \E j \in (i + 1)..(n + 1) :
                  proofs'[i].slot < proofs'[j].slot /\ proofs'[i].at < proofs'[j].at
      <4> SUFFICES ASSUME probe'.count >= 2
                   PROVE  \E j \in (i + 1)..(n + 1) :
                              proofs'[i].slot < proofs'[j].slot /\ proofs'[i].at < proofs'[j].at
        OBVIOUS
      <4>1. PICK j \in (i + 1)..n : proofs[i].slot < proofs[j].slot /\ proofs[i].at < proofs[j].at
        BY <2>5, <3>1
      <4>2. j \in (i + 1)..(n + 1) /\ j \in 1..n
        BY <1>1
      <4>3. proofs'[j] = proofs[j]
        BY <4>2
      <4> QED BY <2>7, <4>1, <4>2, <4>3
    <3>4. RunFrom(i)'
      <4>1. i \in 1..Len(proofs') /\ probe'.count <= Len(proofs') - i + 1
        BY <2>7, <3>2
      <4>2. proofs'[i].at = probe'.first /\ proofs'[i].slot = probe'.firstSlot
        BY <2>5, <2>6, <2>7
      <4>3. probe'.first <= probe'.at /\ probe'.firstSlot <= probe'.slot
        BY <2>6, <3>2
      <4>4. /\ \A k \in i..Len(proofs') :
                  proofs'[k].outcome = probe'.outcome /\ proofs'[k].route = probe'.route
            /\ probe'.count >= 2 =>
                  \E j \in (i + 1)..Len(proofs') :
                      proofs'[i].slot < proofs'[j].slot /\ proofs'[i].at < proofs'[j].at
        BY <2>8, <3>3
      <4> QED BY <4>1, <4>2, <4>3, <4>4, Zenon DEF RunFrom
    <3>5. probe'.count > 0
      BY <2>3, <3>1
    <3> QED BY <1>4, <1>5, <1>7, <1>8, <2>7, <3>4, <3>5
  <2>10. CASE con /\ ~dup
    <3>1. probe'.count = probe.count + 1 /\ probe'.at = probeClock
      BY <1>4, <1>8, <2>2, <2>10
    <3>2. probeClock > probe.at /\ ask.slot > probe.slot
      BY <2>2, <2>10 DEF con, ContinuesSequence
    <3>3. probe'.count <= (n + 1) - i + 1 /\ probe'.first <= probe'.at
      <4>1. probe'.count <= (n + 1) - i + 1
        BY <1>1, <2>11, <3>1
      <4>2. probe'.first <= probe'.at
        BY <1>1, <2>6, <2>11, <3>1, <3>2
      <4> QED BY <4>1, <4>2
    <3>4. \E j \in (i + 1)..(n + 1) :
              proofs'[i].slot < proofs'[j].slot /\ proofs'[i].at < proofs'[j].at
      <4>1. n + 1 \in (i + 1)..(n + 1)
        BY <1>1
      <4>2. proofs'[n + 1].slot = ask.slot /\ proofs'[n + 1].at = probeClock
        OBVIOUS
      <4>3. probe.firstSlot < ask.slot /\ probe.first < probeClock
        BY <1>1, <2>11, <3>2
      <4> QED BY <2>5, <2>7, <4>1, <4>2, <4>3
    <3>5. RunFrom(i)'
      <4>1. i \in 1..Len(proofs') /\ probe'.count <= Len(proofs') - i + 1
        BY <2>7, <3>3
      <4>2. proofs'[i].at = probe'.first /\ proofs'[i].slot = probe'.firstSlot
        BY <2>5, <2>6, <2>7
      <4>3. probe'.first <= probe'.at /\ probe'.firstSlot <= probe'.slot
        BY <2>6, <3>3
      <4>4. /\ \A k \in i..Len(proofs') :
                  proofs'[k].outcome = probe'.outcome /\ proofs'[k].route = probe'.route
            /\ probe'.count >= 2 =>
                  \E j \in (i + 1)..Len(proofs') :
                      proofs'[i].slot < proofs'[j].slot /\ proofs'[i].at < proofs'[j].at
        BY <2>8, <3>4
      <4> QED BY <4>1, <4>2, <4>3, <4>4, Zenon DEF RunFrom
    <3>6. probe'.count > 0
      BY <1>3, <2>2, <2>3, <3>1
    <3> QED BY <1>4, <1>5, <1>7, <1>8, <2>7, <3>5, <3>6
  <2> QED BY <1>8, <2>9, <2>10
<1>9. CASE outcome # "unknown" /\ ~dup /\ ~con
  <2>1. /\ probe'.count = 1 /\ probe'.at = probeClock /\ probe'.first = probeClock
        /\ probe'.firstSlot = ask.slot
    BY <1>4, <1>9
  <2>2. \A k \in (n + 1)..(n + 1) : k = n + 1
    BY <1>1
  <2>3. n + 1 \in 1..(n + 1) /\ (n + 1) - (n + 1) + 1 = 1
    BY <1>1
  <2>4. \E i \in 1..(n + 1) : RunFrom(i)'
    <3>1. /\ Len(proofs') = n + 1
          /\ proofs'[n + 1].outcome = outcome /\ proofs'[n + 1].route = route
          /\ proofs'[n + 1].slot = ask.slot /\ proofs'[n + 1].at = probeClock
      OBVIOUS
    <3>2. PICK last \in Nat : last = n + 1
      BY <1>1
    <3>3. last \in 1..Len(proofs') /\ probe'.count <= Len(proofs') - last + 1
      BY <2>1, <3>1, <3>2
    <3>4. \A k \in last..Len(proofs') :
              proofs'[k].outcome = probe'.outcome /\ proofs'[k].route = probe'.route
      BY <1>4, <2>2, <3>1, <3>2
    <3>5. proofs'[last].at = probe'.first /\ proofs'[last].slot = probe'.firstSlot
      BY <2>1, <3>1, <3>2
    <3>6. probe'.first <= probe'.at /\ probe'.firstSlot <= probe'.slot
      BY <1>1, <1>5, <2>1
    <3>7. ~(probe'.count >= 2)
      BY <2>1
    <3>8. RunFrom(last)'
      BY <3>3, <3>4, <3>5, <3>6, <3>7, Zenon DEF RunFrom
    <3> QED BY <2>3, <3>2, <3>8
  <2>5. probe'.count > 0
    BY <2>1
  <2>6. PICK i \in 1..(n + 1) : RunFrom(i)'
    BY <2>4
  <2>7. ProbeStandsOnRun' /\ probe'.count <= n + 1
    BY <1>7, <1>9, <2>5, <2>6
  <2> QED BY <1>4, <1>5, <2>7
<1> QED BY <1>6, <1>8, <1>9

\* An answer is discarded, or its outcome is recorded for the position held.
LEMMA ProbesAnswer == ProbeInv /\ (\E a, s \in BOOLEAN : ApplyAnswer(a, s)) => ProbeInv'
<1> SUFFICES ASSUME ProbeInv, NEW a \in BOOLEAN, NEW s \in BOOLEAN, ApplyAnswer(a, s) PROVE ProbeInv'
  OBVIOUS
<1>1. /\ UNCHANGED <<chain, probeClock, opened, inDemo, endpoint, asked, resets, retired>>
      /\ ask.pc = "answered" /\ ask' = NoAsk
  BY DEF ApplyAnswer
<1>2. ChainTyped /\ HeldTyped /\ StatusTyped /\ AskTyped /\ EngineTyped /\ EvidenceTyped
  BY DEF ProbeInv, ProbeRecords
<1>3. ChainTyped'
  BY <1>1, <1>2 DEF ChainTyped
<1>4. HeldTyped'
  <2>1. NoPosition \in [id : 0..MaxPositions, active : BOOLEAN]
    BY ProbeAssumption DEF NoPosition
  <2>2. [held EXCEPT !.active = a] \in [id : 0..MaxPositions, active : BOOLEAN]
    BY <1>2 DEF HeldTyped
  <2>3. held' = NoPosition \/ held' = [held EXCEPT !.active = a] \/ held' = held
    BY DEF ApplyAnswer
  <2> QED BY <1>1, <1>2, <2>1, <2>2, <2>3 DEF HeldTyped
<1>5. ask.id \in 0..MaxPositions /\ ask.at \in Nat /\ ask.slot \in Nat /\ ask.route \in Nat
  BY <1>2 DEF AskTyped, AskType
<1>6. StatusTyped'
  <2>1. [marketStatus EXCEPT !.reserveSlot = ask.slot] \in [route : {1, 2}, lastSlot : Nat, reserveSlot : Nat]
    BY <1>2, <1>5 DEF StatusTyped
  <2>2. marketStatus' = [marketStatus EXCEPT !.reserveSlot = ask.slot] \/ marketStatus' = marketStatus
    BY DEF ApplyAnswer
  <2> QED BY <1>2, <2>1, <2>2 DEF StatusTyped
<1>7. AskTyped' /\ EngineTyped'
  BY <1>1, <1>2, NothingAsked DEF AskTyped, EngineTyped
<1>8. held'.id = held.id \/ held'.id = 0
  BY <1>2 DEF ApplyAnswer, NoPosition, HeldTyped
<1>9. CASE UNCHANGED proofs /\ (probe' = NoProbe \/ probe' = Pruned)
  <2>1. probe' = probe \/ probe' = NoProbe
    BY <1>9 DEF Pruned
  <2>2. EvidenceTyped'
    BY <1>1, <1>2, <1>9, <2>1, NothingProbed DEF EvidenceTyped
  <2>3. ProbeRecords'
    BY <1>3, <1>4, <1>6, <1>7, <2>2 DEF ProbeRecords
  <2>4. asked' \in Nat /\ asked' >= asked /\ ask'.pc = "none"
    BY <1>1, ProbeFields DEF NoAsk
  <2> QED BY <1>1, <1>8, <1>9, <2>1, <2>3, <2>4, ProbeInvKept
<1> DEFINE outcome == IF ~Refreshes THEN "unknown"
                      ELSE IF ask.dead THEN "unavailable"
                      ELSE IF a THEN "available" ELSE "unknown"
           route == IF Refreshes THEN ask.route ELSE 0
           r == [outcome |-> outcome, id |-> held.id, askedFor |-> ask.id, route |-> route,
                 slot |-> ask.slot, at |-> probeClock, askedAt |-> ask.at]
<1>10. CASE /\ held'.id # 0 /\ ask.id = held.id
            /\ probe' = ProbeAfter(outcome, route) /\ proofs' = Append(proofs, r)
  <2>1. /\ outcome \in {"unknown", "available", "unavailable"} /\ route \in Nat
        /\ outcome # "unknown" => Refreshes
    BY <1>5
  <2> HIDE DEF outcome, route
  <2>2. held.id = opened /\ opened # 0 /\ opened' = opened
    BY <1>1, <1>8, <1>10 DEF ProbeInv, RecordsAreRecent
  <2>3. r \in ProofType
    BY <1>5, <2>1, <2>2, ProbeFields DEF ProofType
  <2>4. /\ r.outcome = outcome /\ r.id = held.id /\ r.askedFor = ask.id /\ r.route = route
        /\ r.slot = ask.slot /\ r.at = probeClock /\ r.askedAt = ask.at
    OBVIOUS
  <2> HIDE DEF r
  <2>5. /\ proofs' \in Seq(ProofType) /\ Len(proofs') = Len(proofs) + 1
        /\ \A k \in 1..Len(proofs) : proofs'[k] = proofs[k]
        /\ proofs'[Len(proofs) + 1] = r
    BY <1>2, <1>10, <2>3 DEF EvidenceTyped
  <2>6. /\ ProbeStandsOnRun'
        /\ probe'.id = opened /\ probe'.outcome = outcome /\ probe'.route = route
        /\ probe'.first \in Nat /\ probe'.at \in Nat /\ probe'.slot \in Nat
        /\ probe'.firstSlot \in Nat
        /\ probe'.count \in Nat /\ probe'.count <= Len(proofs) + 1
    BY <1>5, <1>10, <2>1, <2>2, <2>4, <2>5, RunGrows
  <2>7. DOMAIN proofs' = 1..(Len(proofs) + 1) /\ DOMAIN proofs = 1..Len(proofs) /\ Len(proofs) \in Nat
    BY <1>2, <2>5 DEF EvidenceTyped
  <2>8. \A k \in DOMAIN proofs' : proofs'[k] = r \/ (k \in DOMAIN proofs /\ proofs'[k] = proofs[k])
    BY <2>5, <2>7
  <2>9. asked \in Nat /\ Len(proofs) + 1 <= asked
    BY <1>1, <2>7, ProbeFields DEF ProbeInv, RecordsAreRecent
  <2>10. RecordsAreRecent'
    <3>1. \A k \in DOMAIN proofs' : proofs'[k].id = opened
      BY <2>2, <2>4, <2>8 DEF ProbeInv, RecordsAreRecent
    <3>2. held'.id \in {0, opened} /\ probe'.id <= opened
      BY <1>8, <2>2, <2>6, ProbeFields
    <3> QED BY <1>1, <2>2, <2>5, <2>9, <3>1, <3>2 DEF RecordsAreRecent, NoAsk
  <2>11. ProofsAreOwn'
    <3>1. outcome # "unknown" => r.askedFor = r.id /\ r.at - r.askedAt <= AnswerMaxAge
      BY <1>10, <2>1, <2>4 DEF Refreshes
    <3> QED BY <2>4, <2>8, <3>1 DEF ProofsAreOwn, ProbeInv
  <2>12. RetiredIsGone' /\ WriteOffProven'
    <3>1. retired'.id = 0
      BY <1>1, <2>2 DEF ProbeInv, RetiredIsGone
    <3> QED BY <3>1 DEF RetiredIsGone, WriteOffProven
  <2>13. EvidenceTyped'
    <3>1. probe'.count \in 0..MaxProbes
      BY <2>6, <2>9, ProbeFields, ProbeAssumption
    <3>2. probe' = [outcome |-> probe'.outcome, count |-> probe'.count, first |-> probe'.first,
                    at |-> probe'.at, slot |-> probe'.slot, firstSlot |-> probe'.firstSlot,
                    id |-> probe'.id, route |-> probe'.route]
      BY <1>10 DEF ProbeAfter, Recorded
    <3>3. probe'.outcome \in Outcomes /\ probe'.id \in 0..MaxPositions
      BY <2>1, <2>2, <2>6, ProbeFields DEF Outcomes
    <3>4. probe' \in ProbeType
      BY <2>1, <2>6, <3>1, <3>2, <3>3 DEF ProbeType
    <3> QED BY <1>1, <1>2, <2>5, <3>4 DEF EvidenceTyped
  <2>14. ProbeRecords'
    BY <1>3, <1>4, <1>6, <1>7, <2>13 DEF ProbeRecords
  <2> QED BY <2>6, <2>10, <2>11, <2>12, <2>14 DEF ProbeInv
<1> QED BY <1>9, <1>10 DEF ApplyAnswer

LEMMA ProbesStep == ProbeInv /\ [ProbeNext]_probeVars => ProbeInv'
<1> SUFFICES ASSUME ProbeInv, [ProbeNext]_probeVars PROVE ProbeInv'
  OBVIOUS
<1>1. CASE UNCHANGED probeVars
  <2>1. UNCHANGED <<chain, probeClock, marketStatus, held, opened, inDemo, endpoint, ask, probe,
                    asked, resets, proofs, retired>>
    BY <1>1 DEF probeVars
  <2>2. ProbeRecords'
    BY <2>1 DEF ProbeInv, ProbeRecords, ChainTyped, HeldTyped, StatusTyped, AskTyped, EngineTyped,
       EvidenceTyped
  <2>3. asked \in Nat
    BY ProbeFields
  <2> QED BY <2>1, <2>2, <2>3, ProbeInvKept
<1>2. CASE \E i \in 0..MaxPositions, a \in BOOLEAN : StreamRow([id |-> i, active |-> a])
  BY <1>2, ProbesRow
<1>3. CASE \E a, s \in BOOLEAN : ApplyAnswer(a, s)
  BY <1>3, ProbesAnswer
<1>4. CASE \E h \in BOOLEAN : SeasonBoundary(h)
  BY <1>4, ProbesBoundary
<1>5. CASE \E m, d \in BOOLEAN : ChainMoves(m, d)
  BY <1>5, ProbesChain
<1> QED BY <1>1, <1>2, <1>3, <1>4, <1>5, ProbesClock, ProbesDormant, ProbesAsk, ProbesAnswered,
     ProbesUnanswered, ProbesPruned, ProbesReset, ProbesDemo, ProbesEndpoint DEF ProbeNext

\* The invariant has what the run checks.
LEMMA ProbesAreProven == ProbeInv => WriteOffsAreProven
<1> SUFFICES ASSUME ProbeInv PROVE WriteOffsAreProven
  OBVIOUS
<1>1. ChainTyped /\ HeldTyped /\ AskTyped /\ EngineTyped /\ EvidenceTyped
  BY DEF ProbeInv, ProbeRecords
<1>2. ProbeTypeOK
  <2>1. chain.slot \in 1..MaxChainSlot /\ chain.route \in {1, 2} /\ chain.dead \in BOOLEAN
        /\ probeClock \in 1..MaxClock
    BY <1>1 DEF ChainTyped
  <2>2. held.id \in 0..MaxPositions /\ held.active \in BOOLEAN
    BY <1>1 DEF HeldTyped
  <2>3. ask.pc \in {"none", "sent", "answered"} /\ ask.id \in 0..MaxPositions
    BY <1>1 DEF AskTyped, AskType
  <2>4. probe.outcome \in Outcomes /\ probe.count \in 0..MaxProbes
    BY <1>1 DEF EvidenceTyped, ProbeType
  <2> QED BY <1>1, <2>1, <2>2, <2>3, <2>4 DEF ProbeTypeOK, EngineTyped
<1>3. CountIsEarned
  <2> SUFFICES ASSUME probe.count > 0, probe.id = held.id
               PROVE  /\ probe.count <= Len(proofs)
                      /\ \A k \in (Len(proofs) - probe.count + 1)..Len(proofs) :
                            /\ proofs[k].id = held.id
                            /\ proofs[k].outcome = probe.outcome /\ proofs[k].route = probe.route
    BY DEF CountIsEarned
  <2>1. probe.count \in Nat /\ probe.count # 0 /\ Len(proofs) \in Nat
        /\ DOMAIN proofs = 1..Len(proofs)
    BY <1>1, ProbeAssumption DEF EvidenceTyped, ProbeType
  <2>2. held.id = opened
    BY <2>1 DEF ProbeInv, ProbeStandsOnRun, RecordsAreRecent
  <2>3. PICK i \in 1..Len(proofs) : RunFrom(i)
    BY <2>2 DEF ProbeInv, ProbeStandsOnRun
  <2>4. /\ probe.count <= Len(proofs) - i + 1
        /\ \A k \in i..Len(proofs) :
              proofs[k].outcome = probe.outcome /\ proofs[k].route = probe.route
    BY <2>3 DEF RunFrom
  <2>5. probe.count <= Len(proofs)
    BY <2>1, <2>4
  <2>6. \A k \in (Len(proofs) - probe.count + 1)..Len(proofs) : k \in i..Len(proofs) /\ k \in DOMAIN proofs
    BY <2>1, <2>4
  <2>7. \A k \in DOMAIN proofs : proofs[k].id = opened
    BY DEF ProbeInv, RecordsAreRecent
  <2> QED BY <2>2, <2>4, <2>5, <2>6, <2>7
<1> QED BY <1>2, <1>3 DEF WriteOffsAreProven, ProbeInv

\* Whatever is sold, reopened, reset, migrated or replaced while a request of the watchdog is
\* unanswered, a season boundary writes a position off only on two refusals in order that were
\* asked for this very position, with no other outcome between or after them
\* (orchestrator.py 4958-5106, 5164-5236).
THEOREM WriteOffsAlwaysProven == ProbeSpec => []WriteOffsAreProven
<1>1. ProbeSpec => []ProbeInv
  BY ProbeInvInitially, ProbesStep, PTL DEF ProbeSpec
<1> QED BY <1>1, ProbesAreProven, PTL

-----------------------------------------------------------------------------
\* The turns of the checkpoints.

\* What the history says of the turns: it is kept per route, and a lane's turns in a row
\* fit the place in the round of four.
HistoryTyped ==
    /\ passed \in [Routes -> SUBSET Routes] /\ repeated \in BOOLEAN
    /\ streak \in {"policy", "discovery"} \X Nat
    /\ streak[1] = "policy" => streak[2] <= turn
    /\ streak[1] = "discovery" => streak[2] = 0 \/ (streak[2] = 1 /\ turn = 0)

\* While a call is under way, it picks among due routes.
QueueIsDue == ~Idling => queue \subseteq dueRoutes

\* A due route that this call does not have any more was not passed by one it still has.
SettledInCall == \A n \in dueRoutes \ queue : passed[n] \cap queue = {}

\* A due mate that passed a route has its last turn after it.
PassedIsLater ==
    \A n \in dueRoutes \ urgent : \A m \in passed[n] \cap dueRoutes :
        LaneOf(m) = LaneOf(n) /\ WasServed(m) /\ <<m, n>> \notin served

TurnsInv ==
    /\ TurnsTypeOK /\ HistoryTyped /\ QueueIsDue /\ SettledInCall /\ PassedIsLater /\ TurnsRotate

LEMMA TurnsInitially == TurnsInit => TurnsInv
<1> SUFFICES ASSUME TurnsInit PROVE TurnsInv
  OBVIOUS
<1> USE DEF TurnsInit
<1>1. TurnsTypeOK
  BY TurnsAssumption DEF TurnsTypeOK, WasServed
<1>2. HistoryTyped
  <2>1. passed \in [Routes -> SUBSET Routes] /\ repeated \in BOOLEAN
    OBVIOUS
  <2>2. streak[1] = "policy" /\ streak[2] = 0 /\ turn = 0
    OBVIOUS
  <2>3. streak \in {"policy", "discovery"} \X Nat
    OBVIOUS
  <2> QED BY <2>1, <2>2, <2>3 DEF HistoryTyped
<1>3. QueueIsDue /\ SettledInCall /\ PassedIsLater /\ TurnsRotate
  BY DEF QueueIsDue, SettledInCall, PassedIsLater, TurnsRotate
<1> QED BY <1>1, <1>2, <1>3 DEF TurnsInv

LEMMA TurnsDue == TurnsInv /\ (\E x \in Routes : RouteDue(x)) => TurnsInv'
<1> SUFFICES ASSUME TurnsInv, NEW x \in Routes, RouteDue(x) PROVE TurnsInv'
  OBVIOUS
<1>1. /\ UNCHANGED <<urgent, served, turn, queue, left, calls, repeated, streak>>
      /\ Idling /\ x \notin dueRoutes /\ dueRoutes' = dueRoutes \cup {x}
      /\ passed' = [n \in Routes |-> IF n = x THEN {} ELSE passed[n] \ {x}]
  BY DEF RouteDue
<1>2. TurnsTypeOK'
  BY <1>1 DEF TurnsInv, TurnsTypeOK, WasServed
<1>3. HistoryTyped'
  BY <1>1 DEF TurnsInv, HistoryTyped
<1>4. QueueIsDue' /\ TurnsRotate'
  BY <1>1 DEF TurnsInv, QueueIsDue, TurnsRotate, Idling
<1>5. \A n \in dueRoutes : n \in Routes /\ passed'[n] \subseteq passed[n] \ {x}
  BY <1>1 DEF TurnsInv, TurnsTypeOK
<1>6. passed'[x] = {}
  BY <1>1
<1>7. SettledInCall'
  BY <1>1, <1>5, <1>6 DEF TurnsInv, SettledInCall
<1>8. PassedIsLater'
  BY <1>1, <1>5, <1>6 DEF TurnsInv, PassedIsLater, WasServed
<1> QED BY <1>2, <1>3, <1>4, <1>7, <1>8 DEF TurnsInv

LEMMA TurnsOthers ==
  TurnsInv /\ (\E x \in Routes : RouteUrgent(x) \/ RouteLeaves(x)) => TurnsInv'
<1> SUFFICES ASSUME TurnsInv, NEW x \in Routes, RouteUrgent(x) \/ RouteLeaves(x) PROVE TurnsInv'
  OBVIOUS
<1>1. /\ UNCHANGED <<served, turn, queue, left, calls, passed, repeated, streak>> /\ Idling
      /\ dueRoutes' \subseteq dueRoutes /\ urgent' \subseteq dueRoutes'
      /\ dueRoutes' \ urgent' \subseteq dueRoutes \ urgent
  BY DEF RouteUrgent, RouteLeaves, TurnsInv, TurnsTypeOK
<1>2. TurnsTypeOK'
  BY <1>1 DEF TurnsInv, TurnsTypeOK, WasServed
<1>3. HistoryTyped'
  BY <1>1 DEF TurnsInv, HistoryTyped
<1>4. QueueIsDue' /\ TurnsRotate'
  BY <1>1 DEF TurnsInv, QueueIsDue, TurnsRotate, Idling
<1>5. SettledInCall'
  BY <1>1 DEF TurnsInv, SettledInCall
<1>6. PassedIsLater'
  BY <1>1 DEF TurnsInv, PassedIsLater, WasServed
<1> QED BY <1>2, <1>3, <1>4, <1>5, <1>6 DEF TurnsInv

LEMMA TurnsBegin == TurnsInv /\ CallBegins => TurnsInv'
<1> SUFFICES ASSUME TurnsInv, CallBegins PROVE TurnsInv'
  OBVIOUS
<1>1. /\ UNCHANGED <<dueRoutes, urgent, turn, passed, repeated, streak>>
      /\ queue' = dueRoutes /\ left' = Budget /\ served' = served \cap (dueRoutes \X dueRoutes)
  BY DEF CallBegins, StillServed
<1>2. TurnsTypeOK'
  BY <1>1, TurnsAssumption DEF TurnsInv, TurnsTypeOK, WasServed
<1>3. HistoryTyped'
  BY <1>1 DEF TurnsInv, HistoryTyped
<1>4. QueueIsDue' /\ TurnsRotate' /\ SettledInCall'
  BY <1>1 DEF TurnsInv, QueueIsDue, TurnsRotate, SettledInCall
<1>5. PassedIsLater'
  BY <1>1 DEF TurnsInv, PassedIsLater, WasServed, TurnsTypeOK
<1> QED BY <1>2, <1>3, <1>4, <1>5 DEF TurnsInv

\* The route picked passed nobody of its lane who still waits: such a one would have come first.
LEMMA TurnsPick == TurnsInv /\ PickNext => TurnsInv'
<1> SUFFICES ASSUME TurnsInv, PickNext PROVE TurnsInv'
  OBVIOUS
<1> DEFINE mates(m) == {n \in dueRoutes \ (urgent \cup {m}) : LaneOf(n) = LaneOf(m)}
<1>1. PICK x \in Lane(LaneTurn) :
        /\ \A n \in Lane(LaneTurn) : ~Before(n, x)
        /\ queue' = queue \ {x} /\ left' = left - 1
        /\ served' = {p \in served : x \notin {p[1], p[2]}}
                         \cup {<<n, x>> : n \in {n \in Routes : WasServed(n)} \cup {x}}
        /\ passed' = [n \in Routes |-> IF n = x THEN {}
                                       ELSE IF n \in mates(x) /\ x \notin urgent
                                       THEN passed[n] \cup {x} ELSE passed[n]]
        /\ repeated' = (repeated \/ (x \notin urgent /\ \E n \in mates(x) : x \in passed[n]))
        /\ streak' = IF Lane(Other(LaneTurn)) = {} THEN <<LaneTurn, 0>>
                     ELSE IF streak[1] = LaneTurn THEN <<LaneTurn, streak[2] + 1>>
                     ELSE <<LaneTurn, 1>>
  BY DEF PickNext
<1>2. ~Idling /\ turn' = (turn + 1) % 4 /\ UNCHANGED <<dueRoutes, urgent, calls>>
  BY DEF PickNext
<1>3. x \in queue /\ x \in dueRoutes /\ x \in Routes /\ LaneOf(x) = LaneTurn
  BY <1>2 DEF Lane, TurnsInv, QueueIsDue, TurnsTypeOK
<1>4. /\ urgent \subseteq dueRoutes /\ dueRoutes \subseteq Routes /\ queue \subseteq Routes
      /\ turn \in 0..3 /\ left \in 0..Budget /\ served \subseteq Routes \X Routes
      /\ \A m, n \in Routes : (m # n /\ WasServed(m) /\ WasServed(n)) =>
            (<<m, n>> \in served <=> <<n, m>> \notin served)
  BY DEF TurnsInv, TurnsTypeOK
<1>5. /\ <<x, x>> \in served'
      /\ \A n \in Routes : n # x => (<<n, x>> \in served' <=> WasServed(n)) /\ <<x, n>> \notin served'
      /\ \A m, n \in Routes \ {x} : <<m, n>> \in served' <=> <<m, n>> \in served
  BY <1>1, <1>3
<1>6. TurnsTypeOK'
  <2>1. served' \subseteq Routes \X Routes
    BY <1>1, <1>3, <1>4
  <2>2. turn' \in 0..3
    BY <1>2, <1>4
  <2>3. left' \in 0..Budget
    <3>1. left # 0
      BY <1>2 DEF Idling
    <3> QED BY <1>1, <1>4, <3>1, TurnsAssumption
  <2>4. ASSUME NEW m \in Routes, NEW n \in Routes, m # n, <<m, m>> \in served', <<n, n>> \in served'
        PROVE  <<m, n>> \in served' <=> <<n, m>> \notin served'
    <3>1. CASE m = x
      BY <1>3, <1>5, <2>4, <3>1 DEF WasServed
    <3>2. CASE n = x
      BY <1>3, <1>5, <2>4, <3>2 DEF WasServed
    <3>3. CASE m # x /\ n # x
      BY <1>4, <1>5, <2>4, <3>3 DEF WasServed
    <3> QED BY <3>1, <3>2, <3>3
  <2> QED BY <1>1, <1>2, <1>4, <2>1, <2>2, <2>3, <2>4 DEF TurnsTypeOK, WasServed
<1>7. passed \in [Routes -> SUBSET Routes]
  BY DEF TurnsInv, HistoryTyped
<1>8. /\ \A n \in Routes : n # x => passed'[n] \subseteq passed[n] \cup {x}
      /\ \A n \in Routes : n # x /\ n \notin mates(x) => passed'[n] = passed[n]
      /\ passed'[x] = {} /\ passed' \in [Routes -> SUBSET Routes]
  BY <1>1, <1>3, <1>7
<1>9. repeated' = FALSE
  <2> SUFFICES ASSUME x \notin urgent, NEW n \in mates(x), x \in passed[n] PROVE FALSE
    BY <1>1 DEF TurnsInv, TurnsRotate
  <2>1. n \in dueRoutes \ urgent /\ n # x /\ LaneOf(n) = LaneOf(x) /\ n \in Routes
    BY <1>4
  <2>2. n \in queue
    BY <1>3, <2>1 DEF TurnsInv, SettledInCall
  <2>3. n \in Lane(LaneTurn)
    BY <1>3, <2>1, <2>2 DEF Lane
  <2>4. WasServed(x) /\ <<x, n>> \notin served
    BY <1>3, <2>1 DEF TurnsInv, PassedIsLater
  <2>5. Before(n, x)
    BY <2>1, <2>4 DEF Before
  <2> QED BY <1>1, <2>3, <2>5
<1>10. HistoryTyped'
  <2>1. /\ streak[1] \in {"policy", "discovery"} /\ streak[2] \in Nat
        /\ streak[1] = "policy" => streak[2] <= turn
        /\ streak[1] = "discovery" => streak[2] = 0 \/ (streak[2] = 1 /\ turn = 0)
    BY DEF TurnsInv, HistoryTyped
  <2>2. LaneTurn \in {"policy", "discovery"}
    BY DEF LaneTurn, Other
  <2>3. Lane(Other(LaneTurn)) # {} => LaneTurn = IF turn = 3 THEN "discovery" ELSE "policy"
    BY DEF LaneTurn, Other
  <2>4. turn' = IF turn = 3 THEN 0 ELSE turn + 1
    BY <1>2, <1>4
  <2>5. \E l \in {"policy", "discovery"}, k \in Nat : 
          /\ streak' = <<l, k>> /\ (l = "policy" => k <= turn')
          /\ l = "discovery" => k = 0 \/ (k = 1 /\ turn' = 0)
    <3>1. CASE Lane(Other(LaneTurn)) = {}
      BY <1>1, <1>4, <2>2, <2>4, <3>1
    <3>2. CASE Lane(Other(LaneTurn)) # {} /\ streak[1] # LaneTurn
      BY <1>1, <1>4, <2>2, <2>3, <2>4, <3>2
    <3>3. CASE Lane(Other(LaneTurn)) # {} /\ streak[1] = LaneTurn
      BY <1>1, <1>4, <2>1, <2>2, <2>3, <2>4, <3>3
    <3> QED BY <3>1, <3>2, <3>3
  <2>6. PICK l \in {"policy", "discovery"}, k \in Nat :
          /\ streak' = <<l, k>> /\ (l = "policy" => k <= turn')
          /\ l = "discovery" => k = 0 \/ (k = 1 /\ turn' = 0)
    BY <2>5
  <2>7. streak'[1] = l /\ streak'[2] = k /\ streak' \in {"policy", "discovery"} \X Nat
    BY <2>6
  <2>8. /\ streak'[1] = "policy" => streak'[2] <= turn'
        /\ streak'[1] = "discovery" => streak'[2] = 0 \/ (streak'[2] = 1 /\ turn' = 0)
    BY <2>6, <2>7
  <2>9. passed' \in [Routes -> SUBSET Routes] /\ repeated' \in BOOLEAN
    BY <1>8, <1>9
  <2> QED BY <2>7, <2>8, <2>9 DEF HistoryTyped
<1>11. QueueIsDue'
  BY <1>1, <1>2 DEF TurnsInv, QueueIsDue
<1>12. SettledInCall'
  <2> SUFFICES ASSUME NEW n \in dueRoutes' \ queue', NEW m \in queue', m \in passed'[n] PROVE FALSE
    BY DEF SettledInCall
  <2>1. n \in dueRoutes /\ m \in queue /\ m # x /\ (n = x \/ n \notin queue) /\ n \in Routes
    BY <1>1, <1>2, <1>4
  <2>2. n # x /\ m \in passed[n]
    BY <1>8, <2>1
  <2> QED BY <2>1, <2>2 DEF TurnsInv, SettledInCall
<1>13. PassedIsLater'
  <2> SUFFICES ASSUME NEW n \in dueRoutes' \ urgent', NEW m \in passed'[n] \cap dueRoutes'
               PROVE  LaneOf(m) = LaneOf(n) /\ <<m, m>> \in served' /\ <<m, n>> \notin served'
    BY DEF PassedIsLater, WasServed
  <2>1. n \in dueRoutes \ urgent /\ n \in Routes /\ m \in dueRoutes /\ m \in Routes
    BY <1>2, <1>4
  <2>2. n # x /\ (m \in passed[n] \/ (m = x /\ n \in mates(x)))
    BY <1>8, <2>1
  <2>3. LaneOf(m) = LaneOf(n)
    <3>1. CASE m \in passed[n]
      BY <2>1, <3>1 DEF TurnsInv, PassedIsLater
    <3>2. CASE m = x /\ n \in mates(x)
      BY <3>2
    <3> QED BY <2>2, <3>1, <3>2
  <2>4. CASE m = x
    BY <1>5, <2>1, <2>2, <2>3, <2>4
  <2>5. CASE m # x
    <3>1. WasServed(m) /\ <<m, n>> \notin served
      BY <2>1, <2>2, <2>5 DEF TurnsInv, PassedIsLater
    <3> QED BY <1>5, <2>1, <2>2, <2>3, <2>5, <3>1 DEF WasServed
  <2> QED BY <2>4, <2>5
<1> QED BY <1>6, <1>9, <1>10, <1>11, <1>12, <1>13 DEF TurnsInv, TurnsRotate

LEMMA TurnsStep == TurnsInv /\ [TurnsNext]_turnVars => TurnsInv'
<1> SUFFICES ASSUME TurnsInv, [TurnsNext]_turnVars PROVE TurnsInv'
  OBVIOUS
<1>1. CASE UNCHANGED turnVars
  BY <1>1 DEF turnVars, TurnsInv, TurnsTypeOK, WasServed, HistoryTyped, QueueIsDue, Idling,
     SettledInCall, PassedIsLater, TurnsRotate
<1>2. CASE \E x \in Routes : RouteDue(x)
  BY <1>2, TurnsDue
<1>3. CASE \E x \in Routes : RouteUrgent(x) \/ RouteLeaves(x)
  BY <1>3, TurnsOthers
<1> QED BY <1>1, <1>2, <1>3, TurnsBegin, TurnsPick DEF TurnsNext

LEMMA TurnsShare == TurnsInv => TurnsAreFair
BY DEF TurnsInv, TurnsAreFair, HistoryTyped, LanesShare, TurnsTypeOK

\* Over any number of calls with any budget, while routes come due, turn urgent and leave, no
\* route that waits sees a mate taken twice, and neither lane takes more than its share while
\* the other waits (learning.py 2129-2306).
THEOREM TurnsAlwaysFair == TurnsSpec => []TurnsAreFair
<1>1. TurnsSpec => []TurnsInv
  BY TurnsInitially, TurnsStep, PTL DEF TurnsSpec
<1> QED BY <1>1, TurnsShare, PTL

-----------------------------------------------------------------------------
\* The provider quotas.

Waiting == {"queued", "read", "counting", "counted", "penalize"}   \* in the queue of the lock
Holding == {"read", "counting", "counted"}                         \* has the lock
Tasks == Calls \cup {CONFIG}

CallType == [pc : Waiting \cup {"idle", "sent"}, prov : Providers, critical : BOOLEAN, gen : Nat,
             plan : Nat, seen : Nat, ends : SUBSET Endpoints]
BucketType == [tokens : 0..Burst, updated : Nat, until : Nat]

CallsTyped == call \in [Calls -> CallType]
NumbersTyped == /\ clock \in 0..MaxTicks /\ requests \in 0..MaxRequests
                /\ generation \in 0..MaxChanges /\ planOf \in 0..generation /\ penalty \in Nat
BucketsTyped == bucket \in [Providers -> BucketType] /\ \A p \in Providers : bucket[p].updated <= clock
CountsTyped == /\ usage \in [Providers -> Nat] /\ zombies \in [Providers -> Nat]
               /\ granted \in [Providers -> [routine : Nat, critical : Nat]]
BackoffTyped == until \in [Endpoints -> Nat] /\ cooledBy \in [Endpoints -> Nat]
LockTyped == lock \in Seq(Tasks) /\ \A i, j \in 1..Len(lock) : lock[i] = lock[j] => i = j

Ahead(x, y) == \E i, j \in 1..Len(lock) : i < j /\ lock[i] = x /\ lock[j] = y

\* A task is in the queue while it waits, and one that decides or counts is at its head.
LockShared ==
    \A c \in Calls : /\ Queued(c) <=> call[c].pc \in Waiting
                     /\ call[c].pc \in Holding => Holds(c)

\* The plan lags behind while the configuration waits for the lock, and those before it in the
\* queue are of an older configuration.
PlansFollow ==
    /\ \A c \in Calls : call[c].gen <= generation
    /\ Queued(CONFIG) <=> planOf # generation
    /\ \A c \in Calls : Ahead(c, CONFIG) => call[c].gen # generation

Total(p) == granted[p].routine + granted[p].critical

\* Between the read and the answer nobody else is admitted, so the usage that was read is no
\* less than what was granted, and the holder's own call fits its limit.
HolderFits(p, v) ==
    /\ v.pc = "read" => Total(p) <= v.seen
    /\ v.pc \in {"counting", "counted"} => Total(p) + 1 <= LimitFor(v.critical)
    /\ v.pc = "counted" => Total(p) + 1 <= usage[p]

CountsAhead == GrantsWithinLimit /\ \A c \in Calls : HolderFits(call[c].prov, call[c])

PenaltyKept == bucket["plain"].until = penalty

QuotaRecords == /\ CallsTyped /\ NumbersTyped /\ BucketsTyped /\ CountsTyped /\ BackoffTyped
                /\ LockTyped
QuotaInv ==
    /\ QuotaRecords /\ LockShared /\ PlansFollow /\ AdmittedUnderOwnPlan
    /\ CountsAhead /\ CooldownsAreOwn /\ PenaltyKept

-----------------------------------------------------------------------------
LEMMA LockJoins ==
    ASSUME LockTyped, NEW x \in Tasks, ~Queued(x), lock' = Append(lock, x)
    PROVE  /\ LockTyped'
           /\ \A y \in Tasks : /\ Queued(y)' <=> Queued(y) \/ y = x
                               /\ Holds(y) => Holds(y)'
                               /\ \A z \in Tasks : Ahead(y, z)' => Ahead(y, z) \/ (z = x /\ Queued(y))
<1>1. /\ lock \in Seq(Tasks) /\ Len(lock) \in Nat /\ lock' \in Seq(Tasks) /\ Len(lock') = Len(lock) + 1
      /\ \A i \in 1..Len(lock) : lock'[i] = lock[i]
      /\ lock'[Len(lock) + 1] = x
  BY DEF LockTyped
<1>2. \A i \in 1..Len(lock') : i \in 1..Len(lock) \/ i = Len(lock) + 1
  BY <1>1
<1>3. \A i \in 1..Len(lock) : lock[i] # x /\ i \in 1..Len(lock')
  BY <1>1 DEF Queued
<1>4. LockTyped'
  BY <1>1, <1>2, <1>3 DEF LockTyped
<1>5. ASSUME NEW y \in Tasks
      PROVE  /\ Queued(y)' <=> Queued(y) \/ y = x
             /\ Holds(y) => Holds(y)'
  <2>1. Len(lock) + 1 \in 1..Len(lock')
    BY <1>1
  <2>2. Queued(y)' <=> Queued(y) \/ y = x
    BY <1>1, <1>2, <1>3, <2>1 DEF Queued
  <2>3. Holds(y) => Holds(y)'
    BY <1>1 DEF Holds
  <2> QED BY <2>2, <2>3
<1>6. ASSUME NEW y \in Tasks, NEW z \in Tasks, Ahead(y, z)'
      PROVE  Ahead(y, z) \/ (z = x /\ Queued(y))
  <2>1. PICK i, j \in 1..Len(lock') : i < j /\ lock'[i] = y /\ lock'[j] = z
    BY <1>6 DEF Ahead
  <2>2. i \in 1..Len(lock) /\ lock[i] = y
    BY <1>1, <1>2, <2>1
  <2>3. CASE j \in 1..Len(lock)
    BY <1>1, <2>1, <2>2, <2>3 DEF Ahead
  <2>4. CASE j = Len(lock) + 1
    BY <1>1, <2>1, <2>2, <2>4 DEF Queued
  <2> QED BY <1>2, <2>3, <2>4
<1> QED BY <1>4, <1>5, <1>6

LEMMA LockLeaves ==
    ASSUME LockTyped, NEW x \in Tasks, lock' = Without(x)
    PROVE  /\ LockTyped'
           /\ \A y \in Tasks : /\ Queued(y)' <=> Queued(y) /\ y # x
                               /\ Holds(y) /\ y # x => Holds(y)'
                               /\ \A z \in Tasks : Ahead(y, z)' => Ahead(y, z)
<1> DEFINE places == {i \in 1..Len(lock) : lock[i] = x}
<1>1. CASE places = {}
  <2>1. lock' = lock /\ ~Queued(x)
    BY <1>1 DEF Without, Queued
  <2> QED BY <2>1 DEF LockTyped, Queued, Holds, Ahead
<1>2. CASE places # {}
  <2>1. PICK k \in 1..Len(lock) :
           /\ lock[k] = x
           /\ lock' = [i \in 1..(Len(lock) - 1) |-> IF i < k THEN lock[i] ELSE lock[i + 1]]
    BY <1>2 DEF Without
  <2>2. lock \in Seq(Tasks) /\ Len(lock) \in Nat /\ Len(lock) - 1 \in Nat
    BY <2>1 DEF LockTyped
  <2> DEFINE new(i) == IF i < k THEN i ELSE i + 1
  <2>3. \A i \in 1..(Len(lock) - 1) : new(i) \in 1..Len(lock) /\ new(i) # k /\ lock'[i] = lock[new(i)]
    BY <2>1, <2>2
  <2>4. \A i, j \in 1..(Len(lock) - 1) : i < j => new(i) < new(j)
    BY <2>2
  <2>5. \A j \in 1..Len(lock) : j # k => \E i \in 1..(Len(lock) - 1) : new(i) = j
    <3> TAKE j \in 1..Len(lock)
    <3> HAVE j # k
    <3>1. CASE j < k
      <4>1. j \in 1..(Len(lock) - 1) /\ new(j) = j
        BY <2>2, <3>1
      <4> QED BY <4>1
    <3>2. CASE j > k
      <4>1. j - 1 \in 1..(Len(lock) - 1) /\ new(j - 1) = j
        BY <2>2, <3>2
      <4> QED BY <4>1
    <3> QED BY <2>2, <3>1, <3>2
  <2>6. \A i \in 1..(Len(lock) - 1) : lock'[i] \in Tasks
    BY <2>2, <2>3
  <2>7. lock' \in Seq(Tasks) /\ Len(lock') = Len(lock) - 1
    BY <2>1, <2>2, <2>6
  <2>8. \A i \in 1..Len(lock) : lock[i] = x => i = k
    BY <2>1 DEF LockTyped
  <2> HIDE DEF new
  <2>9. LockTyped'
    <3> SUFFICES ASSUME NEW i \in 1..(Len(lock) - 1), NEW j \in 1..(Len(lock) - 1), lock'[i] = lock'[j]
                 PROVE  i = j
      BY <2>7 DEF LockTyped
    <3>1. new(i) = new(j)
      BY <2>3 DEF LockTyped
    <3> QED BY <2>2, <2>3, <2>4, <3>1
  <2>10. ASSUME NEW y \in Tasks
         PROVE  Queued(y)' <=> Queued(y) /\ y # x
    BY <2>1, <2>3, <2>5, <2>7, <2>8 DEF Queued
  <2>11. ASSUME NEW y \in Tasks, Holds(y), y # x
         PROVE  Holds(y)'
    <3>1. lock # <<>> /\ lock[1] = y /\ k # 1
      BY <2>1, <2>2, <2>11 DEF Holds
    <3>2. 1 \in 1..(Len(lock) - 1) /\ new(1) = 1
      BY <2>1, <2>2, <3>1 DEF new
    <3>3. lock'[1] = y
      BY <2>3, <3>1, <3>2
    <3> QED BY <2>7, <3>2, <3>3 DEF Holds
  <2>12. ASSUME NEW y \in Tasks, NEW z \in Tasks, Ahead(y, z)'
         PROVE  Ahead(y, z)
    <3>1. PICK i, j \in 1..(Len(lock) - 1) : i < j /\ lock'[i] = y /\ lock'[j] = z
      BY <2>7, <2>12 DEF Ahead
    <3>2. new(i) \in 1..Len(lock) /\ new(j) \in 1..Len(lock) /\ new(i) < new(j)
      BY <2>3, <2>4, <3>1
    <3>3. lock[new(i)] = y /\ lock[new(j)] = z
      BY <2>3, <3>1
    <3> QED BY <3>2, <3>3 DEF Ahead
  <2> QED BY <2>9, <2>10, <2>11, <2>12
<1> QED BY <1>1, <1>2

LEMMA HolderLeads ==
    ASSUME LockTyped
    PROVE  \A x, y \in Tasks : /\ Holds(x) => Queued(x)
                               /\ Holds(x) /\ Holds(y) => x = y
                               /\ Holds(x) /\ Queued(y) /\ x # y => Ahead(x, y)
<1>1. lock \in Seq(Tasks) /\ Len(lock) \in Nat
  BY DEF LockTyped
<1>2. ASSUME NEW x \in Tasks, Holds(x)
      PROVE  1 \in 1..Len(lock) /\ lock[1] = x
  BY <1>1, <1>2 DEF Holds
<1>3. ASSUME NEW x \in Tasks, NEW y \in Tasks, Holds(x), Queued(y), x # y
      PROVE  Ahead(x, y)
  <2>1. 1 \in 1..Len(lock) /\ lock[1] = x
    BY <1>2, <1>3
  <2>2. PICK j \in 1..Len(lock) : lock[j] = y
    BY <1>3 DEF Queued
  <2>3. 1 < j
    BY <1>1, <1>3, <2>1, <2>2
  <2> QED BY <2>1, <2>2, <2>3 DEF Ahead
<1>4. ASSUME NEW x \in Tasks, Holds(x)
      PROVE  Queued(x)
  BY <1>2, <1>4 DEF Queued
<1>5. ASSUME NEW x \in Tasks, NEW y \in Tasks, Holds(x), Holds(y)
      PROVE  x = y
  BY <1>5 DEF Holds
<1> QED BY <1>3, <1>4, <1>5

-----------------------------------------------------------------------------
LEMMA QuotaFields ==
    ASSUME QuotaInv
    PROVE  /\ clock \in Nat /\ generation \in Nat /\ planOf \in Nat /\ planOf <= generation
           /\ penalty \in Nat
           /\ \A c \in Calls : call[c] \in CallType
           /\ \A p \in Providers : usage[p] \in Nat /\ zombies[p] \in Nat
           /\ \A p \in Providers : granted[p].routine \in Nat /\ granted[p].critical \in Nat
           /\ \A p \in Providers : bucket[p] \in BucketType /\ bucket[p].updated <= clock
<1>1. CallsTyped /\ NumbersTyped /\ BucketsTyped /\ CountsTyped
  BY DEF QuotaInv, QuotaRecords
<1>2. clock \in Nat /\ generation \in Nat /\ planOf \in Nat /\ planOf <= generation /\ penalty \in Nat
  BY <1>1, QuotaAssumption DEF NumbersTyped
<1>3. \A c \in Calls : call[c] \in CallType
  BY <1>1 DEF CallsTyped
<1>4. \A p \in Providers : usage[p] \in Nat /\ zombies[p] \in Nat
  BY <1>1 DEF CountsTyped
<1>5. \A p \in Providers : granted[p].routine \in Nat /\ granted[p].critical \in Nat
  BY <1>1 DEF CountsTyped
<1>6. \A p \in Providers : bucket[p] \in BucketType /\ bucket[p].updated <= clock
  BY <1>1 DEF BucketsTyped
<1> QED BY <1>2, <1>3, <1>4, <1>5, <1>6

\* The effect of a step of one call on the lock and on what is behind the configuration.
CallFits(v) ==
    /\ v \in CallType /\ v.gen <= generation
    /\ v.pc = "sent" /\ v.prov = "solana" => v.plan = v.gen

LEMMA CallStays ==
    ASSUME QuotaInv, NEW c \in Calls, NEW v \in CallType, CallFits(v), call' = [call EXCEPT ![c] = v],
           UNCHANGED <<lock, generation, planOf>>,
           v.pc \in Waiting <=> call[c].pc \in Waiting, v.gen = call[c].gen \/ v.pc \notin Waiting,
           v.pc \in Holding => Holds(c)
    PROVE  CallsTyped' /\ LockTyped' /\ LockShared' /\ PlansFollow' /\ AdmittedUnderOwnPlan'
<1>1. /\ call'[c] = v /\ \A d \in Calls : d # c => call'[d] = call[d]
      /\ call' \in [Calls -> CallType] /\ call \in [Calls -> CallType]
  BY DEF QuotaInv, QuotaRecords, CallsTyped, CallFits
<1>2. LockTyped'
  BY DEF QuotaInv, QuotaRecords, LockTyped
<1>3. LockShared'
  <2> SUFFICES ASSUME NEW d \in Calls
               PROVE  /\ Queued(d) <=> call'[d].pc \in Waiting
                      /\ call'[d].pc \in Holding => Holds(d)
    BY DEF LockShared, Queued, Holds
  <2>1. CASE d = c
    BY <1>1, <2>1 DEF QuotaInv, LockShared
  <2>2. CASE d # c
    BY <1>1, <2>2 DEF QuotaInv, LockShared
  <2> QED BY <2>1, <2>2
<1>4. PlansFollow'
  <2> SUFFICES ASSUME NEW d \in Calls
               PROVE  /\ call'[d].gen <= generation
                      /\ Ahead(d, CONFIG) => call'[d].gen # generation
    BY DEF QuotaInv, PlansFollow, Queued, Ahead
  <2>1. CASE d = c
    <3>1. Ahead(c, CONFIG) => v.pc \in Waiting
      BY DEF QuotaInv, LockShared, Ahead, Queued
    <3> QED BY <1>1, <2>1, <3>1 DEF QuotaInv, PlansFollow, CallFits
  <2>2. CASE d # c
    BY <1>1, <2>2 DEF QuotaInv, PlansFollow
  <2> QED BY <2>1, <2>2
<1>5. AdmittedUnderOwnPlan'
  BY <1>1 DEF QuotaInv, AdmittedUnderOwnPlan, CallFits
<1> QED BY <1>1, <1>2, <1>3, <1>4, <1>5 DEF CallsTyped

LEMMA CallJoins ==
    ASSUME QuotaInv, NEW c \in Calls, NEW v \in CallType, CallFits(v), call' = [call EXCEPT ![c] = v],
           UNCHANGED <<generation, planOf>>, lock' = Append(lock, c),
           call[c].pc \notin Waiting, v.pc \in Waiting \ Holding
    PROVE  CallsTyped' /\ LockTyped' /\ LockShared' /\ PlansFollow' /\ AdmittedUnderOwnPlan'
<1>1. /\ call'[c] = v /\ \A d \in Calls : d # c => call'[d] = call[d]
      /\ call' \in [Calls -> CallType] /\ call \in [Calls -> CallType]
  BY DEF QuotaInv, QuotaRecords, CallsTyped, CallFits
<1>2. LockTyped /\ ~Queued(c) /\ c \in Tasks /\ CONFIG \in Tasks /\ Calls \subseteq Tasks /\ c # CONFIG
  BY QuotaAssumption DEF QuotaInv, QuotaRecords, LockShared, Tasks
<1>3. /\ LockTyped'
      /\ \A y \in Tasks : /\ Queued(y)' <=> Queued(y) \/ y = c
                          /\ Holds(y) => Holds(y)'
                          /\ \A z \in Tasks : Ahead(y, z)' => Ahead(y, z) \/ (z = c /\ Queued(y))
  BY <1>2, LockJoins
<1>4. LockShared'
  <2> SUFFICES ASSUME NEW d \in Calls
               PROVE  /\ Queued(d)' <=> call'[d].pc \in Waiting
                      /\ call'[d].pc \in Holding => Holds(d)'
    BY DEF LockShared
  <2>1. CASE d = c
    BY <1>1, <1>2, <1>3, <2>1
  <2>2. CASE d # c
    BY <1>1, <1>2, <1>3, <2>2 DEF QuotaInv, LockShared
  <2> QED BY <2>1, <2>2
<1>5. PlansFollow'
  <2>1. Queued(CONFIG)' <=> planOf' # generation'
    BY <1>2, <1>3 DEF QuotaInv, PlansFollow
  <2>2. ~Ahead(c, CONFIG)
    BY <1>2 DEF Ahead, Queued
  <2>3. \A d \in Calls : Ahead(d, CONFIG)' => d # c /\ Ahead(d, CONFIG)
    BY <1>2, <1>3, <2>2
  <2>4. \A d \in Calls : call'[d].gen <= generation' /\ (Ahead(d, CONFIG)' => call'[d].gen # generation')
    BY <1>1, <2>3 DEF QuotaInv, PlansFollow, CallFits
  <2> QED BY <2>1, <2>4 DEF PlansFollow
<1>6. AdmittedUnderOwnPlan'
  BY <1>1 DEF QuotaInv, AdmittedUnderOwnPlan, CallFits
<1> QED BY <1>1, <1>3, <1>4, <1>5, <1>6 DEF CallsTyped

LEMMA CallLeaves ==
    ASSUME QuotaInv, NEW c \in Calls, NEW v \in CallType, CallFits(v), call' = [call EXCEPT ![c] = v],
           UNCHANGED <<generation, planOf>>, lock' = Without(c), v.pc \notin Waiting
    PROVE  CallsTyped' /\ LockTyped' /\ LockShared' /\ PlansFollow' /\ AdmittedUnderOwnPlan'
<1>1. /\ call'[c] = v /\ \A d \in Calls : d # c => call'[d] = call[d]
      /\ call' \in [Calls -> CallType] /\ call \in [Calls -> CallType]
  BY DEF QuotaInv, QuotaRecords, CallsTyped, CallFits
<1>2. LockTyped /\ c \in Tasks /\ CONFIG \in Tasks /\ Calls \subseteq Tasks /\ c # CONFIG
  BY QuotaAssumption DEF QuotaInv, QuotaRecords, Tasks
<1>3. /\ LockTyped'
      /\ \A y \in Tasks : /\ Queued(y)' <=> Queued(y) /\ y # c
                          /\ Holds(y) /\ y # c => Holds(y)'
                          /\ \A z \in Tasks : Ahead(y, z)' => Ahead(y, z)
  BY <1>2, LockLeaves
<1>4. LockShared'
  <2> SUFFICES ASSUME NEW d \in Calls
               PROVE  /\ Queued(d)' <=> call'[d].pc \in Waiting
                      /\ call'[d].pc \in Holding => Holds(d)'
    BY DEF LockShared
  <2>1. CASE d = c
    BY <1>1, <1>2, <1>3, <2>1 DEF Holding, Waiting
  <2>2. CASE d # c
    BY <1>1, <1>2, <1>3, <2>2 DEF QuotaInv, LockShared
  <2> QED BY <2>1, <2>2
<1>5. PlansFollow'
  <2>1. Queued(CONFIG)' <=> planOf' # generation'
    BY <1>2, <1>3 DEF QuotaInv, PlansFollow
  <2>2. \A d \in Calls : Ahead(d, CONFIG)' => Ahead(d, CONFIG) /\ Queued(d)'
    <3>1. \A d \in Calls : Ahead(d, CONFIG)' => Ahead(d, CONFIG)
      BY <1>2, <1>3
    <3>2. \A d \in Calls : Ahead(d, CONFIG)' => Queued(d)'
      BY DEF Ahead, Queued
    <3> QED BY <3>1, <3>2
  <2>3. \A d \in Calls : Ahead(d, CONFIG)' => d # c /\ Ahead(d, CONFIG)
    BY <1>2, <1>3, <2>2
  <2>4. \A d \in Calls : call'[d].gen <= generation' /\ (Ahead(d, CONFIG)' => call'[d].gen # generation')
    BY <1>1, <2>3 DEF QuotaInv, PlansFollow, CallFits
  <2> QED BY <2>1, <2>4 DEF PlansFollow
<1>6. AdmittedUnderOwnPlan'
  BY <1>1 DEF QuotaInv, AdmittedUnderOwnPlan, CallFits
<1> QED BY <1>1, <1>3, <1>4, <1>5, <1>6 DEF CallsTyped

\* Nothing is granted and no usage is lost: only the call that moved has to fit.
LEMMA CountsKept ==
    ASSUME QuotaInv, NEW c \in Calls, NEW v \in CallType, call' = [call EXCEPT ![c] = v],
           granted' = granted, usage' \in [Providers -> Nat],
           \A p \in Providers : usage'[p] >= usage[p], HolderFits(v.prov, v)'
    PROVE  CountsAhead'
<1>1. /\ call'[c] = v /\ \A d \in Calls : d # c => call'[d] = call[d]
      /\ \A d \in Calls : call'[d] \in CallType
  BY DEF QuotaInv, QuotaRecords, CallsTyped
<1>2. \A p \in Providers : Total(p) \in Nat /\ Total(p)' = Total(p) /\ usage[p] \in Nat /\ usage'[p] \in Nat
  BY QuotaFields DEF Total
<1>3. GrantsWithinLimit'
  BY <1>2 DEF QuotaInv, CountsAhead, GrantsWithinLimit, Total
<1>4. ASSUME NEW d \in Calls, d # c
      PROVE  HolderFits(call[d].prov, call[d])'
  <2>1. call'[d] = call[d] /\ call[d].prov \in Providers
    BY <1>1, <1>4, QuotaFields DEF CallType
  <2>2. HolderFits(call[d].prov, call[d])
    BY DEF QuotaInv, CountsAhead
  <2> QED BY <1>2, <2>1, <2>2 DEF HolderFits
<1> QED BY <1>1, <1>3, <1>4 DEF CountsAhead

\* What a step leaves alone.
LEMMA QuotaFrame ==
    ASSUME QuotaInv
    PROVE  /\ UNCHANGED <<clock, bucket>> => BucketsTyped'
           /\ UNCHANGED <<bucket, penalty>> => PenaltyKept'
           /\ UNCHANGED <<until, cooledBy>> => BackoffTyped'
           /\ UNCHANGED <<until, cooledBy, generation>> => CooldownsAreOwn'
           /\ UNCHANGED <<clock, requests, generation, planOf, penalty>> => NumbersTyped'
           /\ UNCHANGED <<usage, zombies, granted>> => CountsTyped'
BY DEF QuotaInv, QuotaRecords, BucketsTyped, PenaltyKept, BackoffTyped, CooldownsAreOwn, NumbersTyped,
   CountsTyped

LEMMA IdleFits == Idle \in CallType /\ Idle.pc = "idle" /\ (QuotaInv => CallFits(Idle))
<1>1. Idle \in CallType /\ Idle.pc = "idle" /\ Idle.gen = 0
  BY DEF Idle, CallType, Providers
<1>2. QuotaInv => 0 <= generation
  BY QuotaFields
<1> QED BY <1>1, <1>2 DEF CallFits

LEMMA QuotaBegins ==
    ASSUME QuotaInv, NEW c \in Calls, NEW p \in Providers, NEW crit \in BOOLEAN, BeginCall(c, p, crit)
    PROVE  QuotaInv'
<1>1. /\ call[c].pc = "idle" /\ requests < MaxRequests /\ requests' = requests + 1
      /\ lock' = Append(lock, c)
      /\ UNCHANGED <<clock, bucket, usage, zombies, generation, planOf, until, granted, cooledBy, penalty>>
  BY DEF BeginCall
<1>2. PICK ends \in SUBSET Endpoints :
         call' = [call EXCEPT ![c] = [pc |-> "queued", prov |-> p, critical |-> crit,
                                      gen |-> generation, plan |-> 0, seen |-> 0, ends |-> ends]]
  <2>1. {"primary"} \in SUBSET Endpoints /\ {e \in Endpoints : clock >= until[e]} \in SUBSET Endpoints
    BY DEF Endpoints
  <2> QED BY <2>1, Zenon DEF BeginCall
<1>3. PICK v \in CallType :
         v = [pc |-> "queued", prov |-> p, critical |-> crit, gen |-> generation, plan |-> 0,
              seen |-> 0, ends |-> ends]
  BY QuotaFields DEF CallType, Waiting
<1>4. call' = [call EXCEPT ![c] = v]
  BY <1>2, <1>3, Zenon
<1>5. v.pc = "queued" /\ v.gen = generation /\ CallFits(v)
  BY <1>3, QuotaFields DEF CallFits
<1>6. CallsTyped' /\ LockTyped' /\ LockShared' /\ PlansFollow' /\ AdmittedUnderOwnPlan'
  BY <1>1, <1>4, <1>5, CallJoins DEF Waiting, Holding
<1>7. CountsAhead'
  <2>1. usage' \in [Providers -> Nat] /\ \A q \in Providers : usage'[q] >= usage[q]
    BY <1>1, QuotaFields DEF QuotaInv, QuotaRecords, CountsTyped
  <2>2. HolderFits(v.prov, v)'
    BY <1>5 DEF HolderFits
  <2> QED BY <1>1, <1>4, <2>1, <2>2, CountsKept
<1>8. NumbersTyped'
  BY <1>1, QuotaAssumption DEF QuotaInv, QuotaRecords, NumbersTyped
<1> QED BY <1>1, <1>6, <1>7, <1>8, QuotaFrame DEF QuotaInv, QuotaRecords

LEMMA QuotaReads ==
    ASSUME QuotaInv, NEW c \in Calls, ReadUsage(c)
    PROVE  QuotaInv'
<1>1. /\ call[c].pc = "queued" /\ Holds(c)
      /\ UNCHANGED <<clock, requests, lock, bucket, usage, zombies, generation, planOf, until,
                     granted, cooledBy, penalty>>
  BY DEF ReadUsage
<1>2. call[c] \in CallType
  BY QuotaFields
<1>3. call[c].prov \in Providers /\ usage[call[c].prov] \in Nat
  BY <1>2, QuotaFields DEF CallType
<1>4. PICK v \in CallType : v = [call[c] EXCEPT !.pc = "read", !.seen = usage[call[c].prov]]
  BY <1>2, <1>3 DEF CallType, Waiting
<1>5. call' = [call EXCEPT ![c] = v]
  BY <1>2, <1>4 DEF ReadUsage, CallType
<1>6. v.pc = "read" /\ v.gen = call[c].gen /\ v.prov = call[c].prov /\ v.seen = usage[call[c].prov]
  BY <1>2, <1>4 DEF CallType
<1>7. CallFits(v)
  BY <1>6 DEF CallFits, QuotaInv, PlansFollow
<1>8. CallsTyped' /\ LockTyped' /\ LockShared' /\ PlansFollow' /\ AdmittedUnderOwnPlan'
  BY <1>1, <1>5, <1>6, <1>7, CallStays DEF Waiting, Holding
<1>9. CountsAhead'
  <2>1. usage' \in [Providers -> Nat] /\ \A q \in Providers : usage'[q] >= usage[q]
    BY <1>1, QuotaFields DEF QuotaInv, QuotaRecords, CountsTyped
  <2>2. Total(v.prov) <= v.seen
    BY <1>3, <1>6 DEF QuotaInv, CountsAhead, GrantsWithinLimit, Total
  <2>3. HolderFits(v.prov, v)'
    BY <1>1, <1>6, <2>2 DEF HolderFits, Total
  <2> QED BY <1>1, <1>5, <2>1, <2>3, CountsKept
<1> QED BY <1>1, <1>8, <1>9, QuotaFrame DEF QuotaInv, QuotaRecords

\* An admitted call fits its limit: what it read is no less than what was granted.
LEMMA QuotaDecides ==
    ASSUME QuotaInv, NEW c \in Calls, Decide(c)
    PROVE  QuotaInv'
<1> DEFINE p == call[c].prov
           b == bucket[p]
           within == call[c].seen < LimitFor(call[c].critical) /\ clock >= b.until
           refill == [b EXCEPT !.tokens = Refilled(b), !.updated = clock]
           admit == within /\ refill.tokens >= 1
<1>1. /\ call[c].pc = "read"
      /\ bucket' = [bucket EXCEPT ![p] = IF admit THEN [refill EXCEPT !.tokens = refill.tokens - 1]
                                         ELSE IF within THEN refill ELSE b]
      /\ IF admit THEN call' = [call EXCEPT ![c].pc = "counting"] /\ UNCHANGED lock
         ELSE call' = [call EXCEPT ![c] = Idle] /\ lock' = Without(c)
      /\ UNCHANGED <<clock, requests, usage, zombies, generation, planOf, until, granted,
                     cooledBy, penalty>>
  BY DEF Decide
<1>2. call[c] \in CallType /\ p \in Providers /\ b \in BucketType /\ b.updated <= clock /\ clock \in Nat
  BY QuotaFields DEF CallType
<1>3. /\ refill \in BucketType /\ refill.until = b.until /\ refill.updated = clock
      /\ refill.tokens \in 0..Burst
  <2>1. Refilled(b) \in 0..Burst
    BY <1>2, QuotaAssumption DEF Refilled, BucketType
  <2> QED BY <1>2, <2>1 DEF BucketType
<1> HIDE DEF refill
<1>4. BucketsTyped' /\ PenaltyKept'
  <2> DEFINE new == IF admit THEN [refill EXCEPT !.tokens = refill.tokens - 1] ELSE IF within THEN refill ELSE b
  <2>1. [refill EXCEPT !.tokens = refill.tokens - 1].until = b.until
    BY <1>3 DEF BucketType
  <2>2. refill.tokens >= 1 => [refill EXCEPT !.tokens = refill.tokens - 1] \in BucketType
    <3>1. refill.tokens >= 1 => refill.tokens - 1 \in 0..Burst
      BY <1>3, QuotaAssumption
    <3> QED BY <1>3, <3>1 DEF BucketType
  <2>3. [refill EXCEPT !.tokens = refill.tokens - 1].updated = clock
    BY <1>3 DEF BucketType
  <2>4. new \in BucketType /\ new.until = b.until /\ new.updated <= clock
    BY <1>2, <1>3, <2>1, <2>2, <2>3
  <2> HIDE DEF new, admit, within
  <2>5. bucket' = [bucket EXCEPT ![p] = new] /\ bucket \in [Providers -> BucketType]
    BY <1>1 DEF new, QuotaInv, QuotaRecords, BucketsTyped
  <2>6. /\ bucket' \in [Providers -> BucketType] /\ bucket'[p] = new
        /\ \A q \in Providers : q # p => bucket'[q] = bucket[q]
    BY <1>2, <2>4, <2>5
  <2>7. \A q \in Providers : bucket'[q].updated <= clock'
    BY <1>1, <2>4, <2>6, QuotaFields
  <2>8. bucket'["plain"].until = bucket["plain"].until
    BY <2>4, <2>6 DEF Providers
  <2> QED BY <1>1, <2>6, <2>7, <2>8 DEF BucketsTyped, PenaltyKept, QuotaInv
<1>5. usage' \in [Providers -> Nat] /\ \A q \in Providers : usage'[q] >= usage[q]
  BY <1>1, QuotaFields DEF QuotaInv, QuotaRecords, CountsTyped
<1>6. CASE admit
  <2>1. PICK v \in CallType : v = [call[c] EXCEPT !.pc = "counting"]
    BY <1>2 DEF CallType, Waiting
  <2>2. call' = [call EXCEPT ![c] = v] /\ lock' = lock
    BY <1>1, <1>2, <1>6, <2>1 DEF CallType
  <2>3. v.pc = "counting" /\ v.gen = call[c].gen /\ v.prov = p /\ v.critical = call[c].critical
    BY <1>2, <2>1 DEF CallType
  <2>4. CallFits(v)
    BY <2>3 DEF CallFits, QuotaInv, PlansFollow
  <2>5. Holds(c)
    BY <1>1 DEF QuotaInv, LockShared, Holding
  <2>6. CallsTyped' /\ LockTyped' /\ LockShared' /\ PlansFollow' /\ AdmittedUnderOwnPlan'
    BY <1>1, <2>2, <2>3, <2>4, <2>5, CallStays DEF Waiting, Holding
  <2>7. Total(p) + 1 <= LimitFor(call[c].critical)
    <3>1. Total(p) <= call[c].seen
      BY <1>1 DEF QuotaInv, CountsAhead, HolderFits
    <3>2. Total(p) \in Nat /\ call[c].seen \in Nat /\ LimitFor(call[c].critical) \in Nat
      BY <1>2, QuotaFields, QuotaAssumption DEF Total, CallType, LimitFor
    <3>3. call[c].seen < LimitFor(call[c].critical)
      BY <1>6
    <3> HIDE DEF p
    <3> QED BY <3>1, <3>2, <3>3
  <2>8. HolderFits(v.prov, v)'
    BY <1>1, <2>3, <2>7 DEF HolderFits, Total, LimitFor
  <2>9. CountsAhead'
    BY <1>1, <1>5, <2>2, <2>8, CountsKept
  <2> QED BY <1>1, <1>4, <2>6, <2>9, QuotaFrame DEF QuotaInv, QuotaRecords
<1>7. CASE ~admit
  <2>1. PICK v \in CallType : v = Idle
    BY IdleFits
  <2>2. call' = [call EXCEPT ![c] = v] /\ lock' = Without(c) /\ CallFits(v) /\ v.pc = "idle"
    BY <1>1, <1>7, <2>1, IdleFits
  <2>3. CallsTyped' /\ LockTyped' /\ LockShared' /\ PlansFollow' /\ AdmittedUnderOwnPlan'
    BY <1>1, <2>2, CallLeaves DEF Waiting
  <2>4. HolderFits(v.prov, v)'
    BY <2>2 DEF HolderFits
  <2>5. CountsAhead'
    BY <1>1, <1>5, <2>2, <2>4, CountsKept
  <2> QED BY <1>1, <1>4, <2>3, <2>5, QuotaFrame DEF QuotaInv, QuotaRecords
<1> QED BY <1>6, <1>7

LEMMA QuotaCounts ==
    ASSUME QuotaInv, NEW c \in Calls, CountUsage(c)
    PROVE  QuotaInv'
<1>1. /\ call[c].pc = "counting"
      /\ usage' = [usage EXCEPT ![call[c].prov] = @ + 1]
      /\ call' = [call EXCEPT ![c].pc = "counted"]
      /\ UNCHANGED <<clock, requests, lock, bucket, zombies, generation, planOf, until, granted,
                     cooledBy, penalty>>
  BY DEF CountUsage
<1>2. call[c] \in CallType /\ call[c].prov \in Providers /\ usage \in [Providers -> Nat]
  BY QuotaFields DEF CallType, QuotaInv, QuotaRecords, CountsTyped
<1>3. PICK v \in CallType : v = [call[c] EXCEPT !.pc = "counted"]
  BY <1>2 DEF CallType, Waiting
<1>4. call' = [call EXCEPT ![c] = v]
  BY <1>1, <1>2, <1>3 DEF CallType
<1>5. v.pc = "counted" /\ v.gen = call[c].gen /\ v.prov = call[c].prov /\ v.critical = call[c].critical
  BY <1>2, <1>3 DEF CallType
<1>6. CallFits(v) /\ Holds(c)
  BY <1>1, <1>5 DEF CallFits, QuotaInv, PlansFollow, LockShared, Holding
<1>7. CallsTyped' /\ LockTyped' /\ LockShared' /\ PlansFollow' /\ AdmittedUnderOwnPlan'
  BY <1>1, <1>4, <1>5, <1>6, CallStays DEF Waiting, Holding
<1>8. usage' \in [Providers -> Nat] /\ \A q \in Providers : usage'[q] >= usage[q]
  BY <1>1, <1>2
<1>9. usage'[v.prov] = usage[v.prov] + 1
  BY <1>1, <1>2, <1>5
<1>10. /\ Total(v.prov) + 1 <= LimitFor(v.critical) /\ Total(v.prov) <= usage[v.prov]
       /\ Total(v.prov) \in Nat /\ usage[v.prov] \in Nat
  BY <1>1, <1>2, <1>5, QuotaFields DEF QuotaInv, CountsAhead, HolderFits, GrantsWithinLimit, Total
<1>11. HolderFits(v.prov, v)'
  BY <1>1, <1>5, <1>9, <1>10 DEF HolderFits, Total, LimitFor
<1>12. CountsAhead'
  BY <1>1, <1>4, <1>8, <1>11, CountsKept
<1>13. CountsTyped'
  BY <1>1, <1>8 DEF QuotaInv, QuotaRecords, CountsTyped
<1> QED BY <1>1, <1>7, <1>12, <1>13, QuotaFrame DEF QuotaInv, QuotaRecords

LEMMA QuotaAbandoned ==
    ASSUME QuotaInv, NEW p \in Providers, CountAbandoned(p)
    PROVE  QuotaInv'
<1>1. /\ zombies[p] > 0
      /\ zombies' = [zombies EXCEPT ![p] = @ - 1]
      /\ usage' = [usage EXCEPT ![p] = @ + 1]
      /\ UNCHANGED <<clock, requests, lock, bucket, call, generation, planOf, until, granted,
                     cooledBy, penalty>>
  BY DEF CountAbandoned
<1>2. /\ usage \in [Providers -> Nat] /\ zombies \in [Providers -> Nat]
      /\ granted \in [Providers -> [routine : Nat, critical : Nat]]
  BY DEF QuotaInv, QuotaRecords, CountsTyped
<1>3. CountsTyped'
  <2>1. zombies[p] - 1 \in Nat /\ usage[p] + 1 \in Nat
    BY <1>1, <1>2
  <2> QED BY <1>1, <1>2, <2>1 DEF CountsTyped
<1>4. \A q \in Providers : usage'[q] \in Nat /\ usage'[q] >= usage[q] /\ usage[q] \in Nat
  BY <1>1, <1>2
<1>5. \A q \in Providers : Total(q) \in Nat /\ Total(q)' = Total(q)
  BY <1>1, <1>2 DEF Total
<1>6. GrantsWithinLimit'
  <2>1. \A q \in Providers : Total(q) <= usage[q]
    BY DEF QuotaInv, CountsAhead, GrantsWithinLimit, Total
  <2>2. \A q \in Providers : Total(q) <= usage'[q]
    BY <1>4, <1>5, <2>1
  <2> QED BY <1>1, <2>2 DEF QuotaInv, CountsAhead, GrantsWithinLimit, Total
<1>7. ASSUME NEW d \in Calls
      PROVE  HolderFits(call[d].prov, call[d])'
  <2>1. call'[d] = call[d] /\ call[d].prov \in Providers
    BY <1>1, QuotaFields DEF CallType
  <2>2. HolderFits(call[d].prov, call[d])
    BY DEF QuotaInv, CountsAhead
  <2> QED BY <1>4, <1>5, <2>1, <2>2 DEF HolderFits
<1>8. CountsAhead'
  BY <1>6, <1>7 DEF CountsAhead
<1>9. CallsTyped' /\ LockTyped' /\ LockShared' /\ PlansFollow' /\ AdmittedUnderOwnPlan'
  BY <1>1 DEF QuotaInv, QuotaRecords, CallsTyped, LockTyped, LockShared, PlansFollow, Queued, Holds, Ahead,
     AdmittedUnderOwnPlan
<1> QED BY <1>1, <1>3, <1>8, <1>9, QuotaFrame DEF QuotaInv, QuotaRecords

LEMMA QuotaCancels ==
    ASSUME QuotaInv, NEW c \in Calls, CancelCall(c)
    PROVE  QuotaInv'
<1>1. /\ lock' = Without(c)
      /\ zombies' = IF call[c].pc = "counting"
                    THEN [zombies EXCEPT ![call[c].prov] = @ + 1] ELSE zombies
      /\ call' = [call EXCEPT ![c] = Idle]
      /\ UNCHANGED <<clock, requests, bucket, usage, generation, planOf, until, granted, cooledBy,
                     penalty>>
  BY DEF CancelCall
<1>2. PICK v \in CallType : v = Idle
  BY IdleFits
<1>3. call' = [call EXCEPT ![c] = v] /\ CallFits(v) /\ v.pc = "idle"
  BY <1>1, <1>2, IdleFits
<1>4. CallsTyped' /\ LockTyped' /\ LockShared' /\ PlansFollow' /\ AdmittedUnderOwnPlan'
  BY <1>1, <1>3, CallLeaves DEF Waiting
<1>5. CountsAhead'
  <2>1. usage' \in [Providers -> Nat] /\ \A q \in Providers : usage'[q] >= usage[q]
    BY <1>1, QuotaFields DEF QuotaInv, QuotaRecords, CountsTyped
  <2>2. HolderFits(v.prov, v)'
    BY <1>3 DEF HolderFits
  <2> QED BY <1>1, <1>3, <2>1, <2>2, CountsKept
<1>6. CountsTyped'
  <2>1. CountsTyped /\ call[c].prov \in Providers
    BY QuotaFields DEF QuotaInv, QuotaRecords, CallType
  <2> QED BY <1>1, <2>1 DEF CountsTyped
<1> QED BY <1>1, <1>4, <1>5, <1>6, QuotaFrame DEF QuotaInv, QuotaRecords

\* A sent call that goes on or ends: nothing of the lock or of the counts moves.
LEMMA CallAnswers ==
    ASSUME QuotaInv, NEW c \in Calls, NEW v \in CallType, CallFits(v), call' = [call EXCEPT ![c] = v],
           call[c].pc = "sent", v.pc \in {"idle", "sent"},
           UNCHANGED <<clock, requests, lock, bucket, usage, zombies, generation, planOf, granted,
                       penalty>>,
           BackoffTyped', CooldownsAreOwn'
    PROVE  QuotaInv'
<1>1. CallsTyped' /\ LockTyped' /\ LockShared' /\ PlansFollow' /\ AdmittedUnderOwnPlan'
  BY CallStays DEF Waiting, Holding
<1>2. usage' \in [Providers -> Nat] /\ \A q \in Providers : usage'[q] >= usage[q]
  BY QuotaFields DEF QuotaInv, QuotaRecords, CountsTyped
<1>3. HolderFits(v.prov, v)'
  BY DEF HolderFits
<1>4. CountsAhead'
  BY <1>2, <1>3, CountsKept
<1> QED BY <1>1, <1>4, QuotaFrame DEF QuotaInv, QuotaRecords

LEMMA QuotaFails ==
    ASSUME QuotaInv, NEW c \in Calls, NEW d \in Delays, RpcFails(c, d)
    PROVE  QuotaInv'
<1> DEFINE e == FirstOf(call[c].ends)
           rest == call[c].ends \ {e}
<1>1. /\ call[c].pc = "sent" /\ call[c].prov = "solana"
      /\ IF Obsolete(c) THEN UNCHANGED <<until, cooledBy>> ELSE Cooled(c, e, d)
      /\ call' = [call EXCEPT ![c] = IF Obsolete(c) \/ rest = {} THEN Idle ELSE [@ EXCEPT !.ends = rest]]
      /\ UNCHANGED <<clock, requests, lock, bucket, usage, zombies, generation, planOf, granted,
                     penalty>>
  BY DEF RpcFails
<1>2. call[c] \in CallType /\ clock \in Nat /\ d \in Nat /\ e \in Endpoints
  BY QuotaFields, QuotaAssumption DEF FirstOf, Endpoints
<1>3. BackoffTyped' /\ CooldownsAreOwn'
  <2>1. CASE Obsolete(c)
    BY <1>1, <2>1, QuotaFrame
  <2>2. CASE ~Obsolete(c)
    <3>1. /\ until' = [until EXCEPT ![e] = clock + d] /\ cooledBy' = [cooledBy EXCEPT ![e] = generation]
          /\ generation' = generation /\ clock + d \in Nat /\ generation \in Nat
      BY <1>1, <1>2, <2>2, QuotaFields DEF Cooled, Obsolete
    <3>2. until \in [Endpoints -> Nat] /\ cooledBy \in [Endpoints -> Nat] /\ CooldownsAreOwn
      BY DEF QuotaInv, QuotaRecords, BackoffTyped
    <3> HIDE DEF e
    <3> QED BY <1>2, <3>1, <3>2 DEF BackoffTyped, CooldownsAreOwn
  <2> QED BY <2>1, <2>2
<1>4. PICK v \in CallType : v = IF Obsolete(c) \/ rest = {} THEN Idle ELSE [call[c] EXCEPT !.ends = rest]
  <2>1. Idle \in CallType
    BY IdleFits
  <2>2. [call[c] EXCEPT !.ends = rest] \in CallType
    BY <1>2 DEF CallType
  <2> QED BY <2>1, <2>2
<1>5. v = Idle \/ (v.pc = "sent" /\ v.gen = call[c].gen /\ v.plan = call[c].plan /\ v.prov = call[c].prov)
  <2> HIDE DEF rest
  <2>1. CASE v = [call[c] EXCEPT !.ends = rest]
    BY <1>1, <1>2, <2>1 DEF CallType
  <2> QED BY <1>4, <2>1
<1>6. CallFits(v) /\ v.pc \in {"idle", "sent"}
  <2>1. call[c].gen <= generation /\ call[c].plan = call[c].gen
    BY <1>1 DEF QuotaInv, PlansFollow, AdmittedUnderOwnPlan
  <2> QED BY <1>5, <2>1, IdleFits DEF CallFits
<1>7. call' = [call EXCEPT ![c] = v]
  <2> HIDE DEF rest
  <2>1. CASE Obsolete(c) \/ rest = {}
    BY <1>1, <1>4, <2>1 DEF QuotaInv, QuotaRecords, CallsTyped
  <2>2. CASE ~Obsolete(c) /\ rest # {}
    BY <1>1, <1>4, <2>2 DEF QuotaInv, QuotaRecords, CallsTyped
  <2> QED BY <2>1, <2>2
<1> QED BY <1>1, <1>3, <1>6, <1>7, CallAnswers

LEMMA QuotaAnswers ==
    ASSUME QuotaInv, NEW c \in Calls, RpcAnswers(c)
    PROVE  QuotaInv'
<1> DEFINE e == FirstOf(call[c].ends)
<1>1. /\ call[c].pc = "sent" /\ call[c].prov = "solana"
      /\ until' = IF Obsolete(c) THEN until ELSE [until EXCEPT ![e] = 0]
      /\ call' = [call EXCEPT ![c] = Idle]
      /\ UNCHANGED <<clock, requests, lock, bucket, usage, zombies, generation, planOf, granted,
                     cooledBy, penalty>>
  BY DEF RpcAnswers
<1>2. BackoffTyped' /\ CooldownsAreOwn'
  <2>1. until \in [Endpoints -> Nat] /\ cooledBy \in [Endpoints -> Nat] /\ CooldownsAreOwn
    BY DEF QuotaInv, QuotaRecords, BackoffTyped
  <2>2. until' \in [Endpoints -> Nat] /\ \A f \in Endpoints : until'[f] > 0 => until[f] > 0
    <3> HIDE DEF e
    <3>1. CASE until' = until
      BY <2>1, <3>1
    <3>2. CASE until' = [until EXCEPT ![e] = 0]
      <4>1. until' \in [Endpoints -> Nat]
        BY <2>1, <3>2
      <4>2. \A f \in Endpoints : until'[f] = 0 \/ until'[f] = until[f]
        BY <2>1, <3>2
      <4> QED BY <2>1, <4>1, <4>2
    <3> QED BY <1>1, <3>1, <3>2
  <2> QED BY <1>1, <2>1, <2>2 DEF BackoffTyped, CooldownsAreOwn
<1>3. PICK v \in CallType : v = Idle
  BY IdleFits
<1>4. call' = [call EXCEPT ![c] = v] /\ CallFits(v) /\ v.pc = "idle"
  BY <1>1, <1>3, IdleFits
<1> QED BY <1>1, <1>2, <1>4, CallAnswers

LEMMA QuotaPlain ==
    ASSUME QuotaInv, NEW c \in Calls, NEW limited \in BOOLEAN, PlainAnswers(c, limited)
    PROVE  QuotaInv'
<1>1. /\ call[c].pc = "sent" /\ call[c].prov = "plain"
      /\ call' = [call EXCEPT ![c] = IF limited THEN [@ EXCEPT !.pc = "penalize"] ELSE Idle]
      /\ lock' = IF limited THEN Append(lock, c) ELSE lock
      /\ UNCHANGED <<clock, requests, bucket, usage, zombies, generation, planOf, until, granted,
                     cooledBy, penalty>>
  BY DEF PlainAnswers
<1>2. call[c] \in CallType
  BY QuotaFields
<1>3. CASE limited
  <2>1. PICK v \in CallType : v = [call[c] EXCEPT !.pc = "penalize"]
    BY <1>2 DEF CallType, Waiting
  <2>2. call' = [call EXCEPT ![c] = v] /\ lock' = Append(lock, c)
    BY <1>1, <1>2, <1>3, <2>1 DEF CallType
  <2>3. v.pc = "penalize" /\ v.gen = call[c].gen
    BY <1>2, <2>1 DEF CallType
  <2>4. CallFits(v)
    BY <2>3 DEF CallFits, QuotaInv, PlansFollow
  <2>5. CallsTyped' /\ LockTyped' /\ LockShared' /\ PlansFollow' /\ AdmittedUnderOwnPlan'
    BY <1>1, <2>2, <2>3, <2>4, CallJoins DEF Waiting, Holding
  <2>6. usage' \in [Providers -> Nat] /\ \A q \in Providers : usage'[q] >= usage[q]
    BY <1>1, QuotaFields DEF QuotaInv, QuotaRecords, CountsTyped
  <2>7. HolderFits(v.prov, v)'
    BY <2>3 DEF HolderFits
  <2>8. CountsAhead'
    BY <1>1, <2>2, <2>6, <2>7, CountsKept
  <2> QED BY <1>1, <2>5, <2>8, QuotaFrame DEF QuotaInv, QuotaRecords
<1>4. CASE ~limited
  <2>1. PICK v \in CallType : v = Idle
    BY IdleFits
  <2>2. call' = [call EXCEPT ![c] = v] /\ lock' = lock /\ CallFits(v) /\ v.pc = "idle"
    BY <1>1, <1>4, <2>1, IdleFits
  <2>3. BackoffTyped' /\ CooldownsAreOwn'
    BY <1>1, QuotaFrame
  <2> QED BY <1>1, <2>2, <2>3, CallAnswers
<1> QED BY <1>3, <1>4

LEMMA QuotaPenalizes ==
    ASSUME QuotaInv, NEW c \in Calls, NEW d \in Delays, Penalize(c, d)
    PROVE  QuotaInv'
<1>1. /\ bucket' = [bucket EXCEPT !["plain"] = [tokens |-> 0, updated |-> clock, until |-> clock + d]]
      /\ penalty' = clock + d
      /\ lock' = Without(c)
      /\ call' = [call EXCEPT ![c] = Idle]
      /\ UNCHANGED <<clock, requests, usage, zombies, generation, planOf, until, granted, cooledBy>>
  BY DEF Penalize
<1>2. PICK v \in CallType : v = Idle
  BY IdleFits
<1>3. call' = [call EXCEPT ![c] = v] /\ CallFits(v) /\ v.pc = "idle"
  BY <1>1, <1>2, IdleFits
<1>4. CallsTyped' /\ LockTyped' /\ LockShared' /\ PlansFollow' /\ AdmittedUnderOwnPlan'
  BY <1>1, <1>3, CallLeaves DEF Waiting
<1>5. CountsAhead'
  <2>1. usage' \in [Providers -> Nat] /\ \A q \in Providers : usage'[q] >= usage[q]
    BY <1>1, QuotaFields DEF QuotaInv, QuotaRecords, CountsTyped
  <2>2. HolderFits(v.prov, v)'
    BY <1>3 DEF HolderFits
  <2> QED BY <1>1, <1>3, <2>1, <2>2, CountsKept
<1>6. clock \in Nat /\ clock + d \in Nat /\ 0 \in 0..Burst
  BY QuotaFields, QuotaAssumption
<1>7. BucketsTyped' /\ PenaltyKept'
  <2>1. PICK b \in BucketType : b = [tokens |-> 0, updated |-> clock, until |-> clock + d]
    BY <1>6 DEF BucketType
  <2>2. b.updated = clock /\ b.until = clock + d /\ bucket' = [bucket EXCEPT !["plain"] = b]
    BY <1>1, <2>1
  <2>3. /\ bucket \in [Providers -> BucketType] /\ "plain" \in Providers
        /\ \A q \in Providers : bucket[q].updated <= clock
    BY DEF QuotaInv, QuotaRecords, BucketsTyped, Providers
  <2>4. bucket' \in [Providers -> BucketType] /\ bucket'["plain"] = b
    BY <2>2, <2>3
  <2>5. \A q \in Providers : bucket'[q].updated <= clock'
    BY <1>1, <1>6, <2>2, <2>3
  <2> QED BY <1>1, <2>2, <2>4, <2>5 DEF BucketsTyped, PenaltyKept
<1>8. NumbersTyped'
  BY <1>1, <1>6 DEF QuotaInv, QuotaRecords, NumbersTyped
<1> QED BY <1>1, <1>4, <1>5, <1>7, <1>8, QuotaFrame DEF QuotaInv, QuotaRecords

\* The calls and what was counted for them stay: so does what they still fit.
LEMMA CallsKept ==
    ASSUME QuotaInv, UNCHANGED <<call, usage, zombies, granted>>
    PROVE  CallsTyped' /\ CountsTyped' /\ CountsAhead' /\ AdmittedUnderOwnPlan'
BY DEF QuotaInv, QuotaRecords, CallsTyped, CountsTyped, CountsAhead, GrantsWithinLimit, HolderFits, Total,
   LimitFor, AdmittedUnderOwnPlan

LEMMA QuotaTicks ==
    ASSUME QuotaInv, Tick
    PROVE  QuotaInv'
<1>1. /\ clock < MaxTicks /\ clock' = clock + 1
      /\ UNCHANGED <<requests, lock, bucket, usage, call, zombies, generation, planOf, until,
                     granted, cooledBy, penalty>>
  BY DEF Tick
<1>2. NumbersTyped'
  BY <1>1, QuotaAssumption DEF QuotaInv, QuotaRecords, NumbersTyped
<1>3. BucketsTyped'
  <2>1. clock \in Nat /\ \A p \in Providers : bucket[p] \in BucketType /\ bucket[p].updated <= clock
    BY QuotaFields
  <2>2. \A p \in Providers : bucket[p].updated <= clock + 1
    BY <2>1 DEF BucketType
  <2> QED BY <1>1, <2>2 DEF QuotaInv, QuotaRecords, BucketsTyped
<1>4. LockTyped' /\ LockShared' /\ PlansFollow'
  BY <1>1 DEF QuotaInv, QuotaRecords, LockTyped, LockShared, PlansFollow, Queued, Holds, Ahead
<1> QED BY <1>1, <1>2, <1>3, <1>4, CallsKept, QuotaFrame DEF QuotaInv, QuotaRecords

\* Every call in the queue is now of an older configuration.
LEMMA QuotaChanges ==
    ASSUME QuotaInv, ChangeProviders
    PROVE  QuotaInv'
<1>1. /\ generation < MaxChanges /\ ~Queued(CONFIG)
      /\ generation' = generation + 1
      /\ until' = [e \in Endpoints |-> 0]
      /\ cooledBy' = [e \in Endpoints |-> generation + 1]
      /\ lock' = Append(lock, CONFIG)
      /\ UNCHANGED <<clock, requests, bucket, usage, call, zombies, planOf, granted, penalty>>
  BY DEF ChangeProviders
<1>2. LockTyped /\ CONFIG \in Tasks /\ Calls \subseteq Tasks /\ CONFIG \notin Calls
  BY QuotaAssumption DEF QuotaInv, QuotaRecords, Tasks
<1>3. /\ LockTyped'
      /\ \A y \in Tasks : /\ Queued(y)' <=> Queued(y) \/ y = CONFIG
                          /\ Holds(y) => Holds(y)'
  BY <1>1, <1>2, LockJoins
<1>4. LockShared'
  BY <1>1, <1>2, <1>3 DEF QuotaInv, LockShared
<1>5. generation \in Nat /\ generation + 1 \in Nat /\ planOf \in Nat /\ planOf <= generation
  BY QuotaFields
<1>6. PlansFollow'
  <2>1. \A d \in Calls : call[d].gen \in Nat /\ call[d].gen <= generation
    BY QuotaFields DEF QuotaInv, PlansFollow, CallType
  <2>2. \A d \in Calls : call'[d].gen <= generation' /\ call'[d].gen # generation'
    BY <1>1, <1>5, <2>1
  <2>3. Queued(CONFIG)' /\ planOf' # generation'
    BY <1>1, <1>2, <1>3, <1>5
  <2> QED BY <2>2, <2>3 DEF PlansFollow
<1>7. BackoffTyped' /\ CooldownsAreOwn'
  BY <1>1, <1>5 DEF BackoffTyped, CooldownsAreOwn
<1>8. NumbersTyped'
  BY <1>1, <1>5, QuotaAssumption DEF QuotaInv, QuotaRecords, NumbersTyped
<1> QED BY <1>1, <1>3, <1>4, <1>6, <1>7, <1>8, CallsKept, QuotaFrame DEF QuotaInv, QuotaRecords

LEMMA QuotaReconfigures ==
    ASSUME QuotaInv, Reconfigure
    PROVE  QuotaInv'
<1>1. /\ Holds(CONFIG)
      /\ planOf' = generation
      /\ lock' = Without(CONFIG)
      /\ bucket' = [p \in Providers |-> [bucket[p] EXCEPT !.updated = clock]]
      /\ UNCHANGED <<clock, requests, usage, call, zombies, generation, until, granted, cooledBy,
                     penalty>>
  BY DEF Reconfigure
<1>2. LockTyped /\ CONFIG \in Tasks /\ Calls \subseteq Tasks /\ CONFIG \notin Calls
  BY QuotaAssumption DEF QuotaInv, QuotaRecords, Tasks
<1>3. /\ LockTyped'
      /\ \A y \in Tasks : /\ Queued(y)' <=> Queued(y) /\ y # CONFIG
                          /\ Holds(y) /\ y # CONFIG => Holds(y)'
                          /\ \A z \in Tasks : Ahead(y, z)' => Ahead(y, z)
  BY <1>1, <1>2, LockLeaves
<1>4. LockShared'
  BY <1>1, <1>2, <1>3 DEF QuotaInv, LockShared
<1>5. PlansFollow'
  BY <1>1, <1>2, <1>3 DEF QuotaInv, PlansFollow
<1>6. BucketsTyped' /\ PenaltyKept'
  <2>1. clock \in Nat /\ \A p \in Providers : bucket[p] \in BucketType
    BY QuotaFields
  <2>2. \A p \in Providers : /\ bucket'[p] \in BucketType /\ bucket'[p].updated = clock
                             /\ bucket'[p].until = bucket[p].until
    BY <1>1, <2>1 DEF BucketType
  <2>3. bucket' \in [Providers -> BucketType]
    BY <1>1, <2>1, <2>2
  <2>4. bucket'["plain"].until = bucket["plain"].until
    BY <2>2 DEF Providers
  <2> QED BY <1>1, <2>1, <2>2, <2>3, <2>4 DEF QuotaInv, BucketsTyped, PenaltyKept
<1>7. NumbersTyped'
  BY <1>1, QuotaFields DEF QuotaInv, QuotaRecords, NumbersTyped
<1> QED BY <1>1, <1>3, <1>4, <1>5, <1>6, <1>7, CallsKept, QuotaFrame DEF QuotaInv, QuotaRecords

LEMMA QuotaAdmits ==
    ASSUME QuotaInv, NEW c \in Calls, Admitted(c)
    PROVE  QuotaInv'
<1> DEFINE p == call[c].prov
<1>1. /\ call[c].pc = "counted"
      /\ lock' = Without(c)
      /\ granted' = IF call[c].critical THEN [granted EXCEPT ![p].critical = @ + 1]
                    ELSE [granted EXCEPT ![p].routine = @ + 1]
      /\ call' = [call EXCEPT ![c] =
                      IF Obsolete(c) THEN Idle ELSE [@ EXCEPT !.pc = "sent", !.plan = planOf]]
      /\ UNCHANGED <<clock, requests, bucket, usage, zombies, generation, planOf, until, cooledBy,
                     penalty>>
  BY DEF Admitted
<1>2. call[c] \in CallType /\ p \in Providers /\ generation \in Nat /\ planOf \in Nat /\ Holds(c)
  BY <1>1, QuotaFields DEF CallType, QuotaInv, LockShared, Holding
<1>3. ~Obsolete(c) /\ call[c].prov = "solana" => call[c].gen = generation /\ planOf = generation
  <2>1. LockTyped /\ c \in Tasks /\ CONFIG \in Tasks /\ c # CONFIG
    BY QuotaAssumption DEF QuotaInv, QuotaRecords, Tasks
  <2>2. Queued(CONFIG) => Ahead(c, CONFIG)
    BY <1>2, <2>1, HolderLeads
  <2> QED BY <2>2 DEF QuotaInv, PlansFollow, Obsolete
<1>4. PICK v \in CallType : v = IF Obsolete(c) THEN Idle ELSE [call[c] EXCEPT !.pc = "sent", !.plan = planOf]
  <2>1. Idle \in CallType
    BY IdleFits
  <2>2. [call[c] EXCEPT !.pc = "sent", !.plan = planOf] \in CallType
    BY <1>2 DEF CallType
  <2> QED BY <2>1, <2>2
<1>5. call' = [call EXCEPT ![c] = v]
  <2>1. CASE Obsolete(c)
    BY <1>1, <1>4, <2>1
  <2>2. CASE ~Obsolete(c)
    BY <1>1, <1>4, <2>2 DEF QuotaInv, QuotaRecords, CallsTyped
  <2> QED BY <2>1, <2>2
<1>6. v.pc \in {"idle", "sent"} /\ CallFits(v)
  <2>1. CASE Obsolete(c)
    BY <1>4, <2>1, IdleFits
  <2>2. CASE ~Obsolete(c)
    <3>1. /\ v.pc = "sent" /\ v.plan = planOf /\ v.gen = call[c].gen /\ v.prov = call[c].prov
      BY <1>2, <1>4, <2>2 DEF CallType
    <3> QED BY <1>3, <2>2, <3>1 DEF CallFits, QuotaInv, PlansFollow
  <2> QED BY <2>1, <2>2
<1>7. CallsTyped' /\ LockTyped' /\ LockShared' /\ PlansFollow' /\ AdmittedUnderOwnPlan'
  BY <1>1, <1>5, <1>6, CallLeaves DEF Waiting
<1>8. /\ Total(p) + 1 <= LimitFor(call[c].critical) /\ Total(p) + 1 <= usage[p]
      /\ granted[p].routine \in Nat /\ granted[p].critical \in Nat /\ usage[p] \in Nat
  BY <1>1, <1>2, QuotaFields DEF QuotaInv, CountsAhead, HolderFits
<1>9. PICK g \in [routine : Nat, critical : Nat] :
         /\ granted' = [granted EXCEPT ![p] = g]
         /\ IF call[c].critical THEN g.routine = granted[p].routine /\ g.critical = granted[p].critical + 1
            ELSE g.routine = granted[p].routine + 1 /\ g.critical = granted[p].critical
  <2>1. granted[p] \in [routine : Nat, critical : Nat] /\ granted \in [Providers -> [routine : Nat, critical : Nat]]
    BY <1>2 DEF QuotaInv, QuotaRecords, CountsTyped
  <2> HIDE DEF p
  <2>2. CASE call[c].critical
    <3>1. [granted[p] EXCEPT !.critical = @ + 1] \in [routine : Nat, critical : Nat]
      BY <2>1
    <3>2. granted' = [granted EXCEPT ![p].critical = @ + 1]
      BY <1>1, <2>1, <2>2
    <3>3. PICK g \in [routine : Nat, critical : Nat] : g = [granted[p] EXCEPT !.critical = @ + 1]
      BY <3>1
    <3>4. g.routine = granted[p].routine /\ g.critical = granted[p].critical + 1
      BY <2>1, <3>3
    <3>5. granted' = [granted EXCEPT ![p] = g]
      BY <2>1, <3>2, <3>3
    <3> QED BY <2>2, <3>4, <3>5
  <2>3. CASE ~call[c].critical
    <3>1. [granted[p] EXCEPT !.routine = @ + 1] \in [routine : Nat, critical : Nat]
      BY <2>1
    <3>2. granted' = [granted EXCEPT ![p].routine = @ + 1]
      BY <1>1, <2>1, <2>3
    <3>3. PICK g \in [routine : Nat, critical : Nat] : g = [granted[p] EXCEPT !.routine = @ + 1]
      BY <3>1
    <3>4. g.routine = granted[p].routine + 1 /\ g.critical = granted[p].critical
      BY <2>1, <3>3
    <3>5. granted' = [granted EXCEPT ![p] = g]
      BY <2>1, <3>2, <3>3
    <3> QED BY <2>3, <3>4, <3>5
  <2> QED BY <2>2, <2>3
<1>10. granted' \in [Providers -> [routine : Nat, critical : Nat]] /\ granted'[p] = g
       /\ \A q \in Providers : q # p => granted'[q] = granted[q]
  BY <1>2, <1>9 DEF QuotaInv, QuotaRecords, CountsTyped
<1>11. /\ g.routine + g.critical <= MonthlyLimit
       /\ g.routine <= MonthlyLimit - Reserve
       /\ usage[p] >= g.routine + g.critical
  <2>1. MonthlyLimit \in Nat /\ Reserve \in Nat /\ Reserve <= MonthlyLimit
    BY QuotaAssumption
  <2>2. granted[p].routine <= MonthlyLimit - Reserve
    BY <1>2 DEF QuotaInv, CountsAhead, GrantsWithinLimit
  <2>3. CASE call[c].critical
    <3>1. /\ granted[p].routine + granted[p].critical + 1 <= MonthlyLimit
          /\ granted[p].routine + granted[p].critical + 1 <= usage[p]
      BY <1>8, <2>3 DEF LimitFor, Total
    <3>2. g.routine = granted[p].routine /\ g.critical = granted[p].critical + 1
      BY <1>9, <2>3
    <3> HIDE DEF p
    <3> QED BY <1>8, <2>1, <2>2, <3>1, <3>2
  <2>4. CASE ~call[c].critical
    <3>1. /\ granted[p].routine + granted[p].critical + 1 <= MonthlyLimit - Reserve
          /\ granted[p].routine + granted[p].critical + 1 <= usage[p]
      BY <1>8, <2>4 DEF LimitFor, Total
    <3>2. g.routine = granted[p].routine + 1 /\ g.critical = granted[p].critical
      BY <1>9, <2>4
    <3> HIDE DEF p
    <3> QED BY <1>8, <2>1, <3>1, <3>2
  <2> QED BY <2>3, <2>4
<1>12. GrantsWithinLimit'
  <2> SUFFICES ASSUME NEW q \in Providers
               PROVE  /\ granted'[q].routine + granted'[q].critical <= MonthlyLimit
                      /\ granted'[q].routine <= MonthlyLimit - Reserve
                      /\ usage[q] >= granted'[q].routine + granted'[q].critical
    BY <1>1 DEF GrantsWithinLimit
  <2>1. CASE q = p
    BY <1>10, <1>11, <2>1
  <2>2. CASE q # p
    BY <1>10, <2>2 DEF QuotaInv, CountsAhead, GrantsWithinLimit
  <2> QED BY <2>1, <2>2
<1>13. ASSUME NEW d \in Calls
       PROVE  HolderFits(call[d].prov, call[d])'
  <2>1. call'[d].pc \notin Holding
    <3>1. CASE d = c
      BY <1>5, <1>6, <3>1 DEF QuotaInv, QuotaRecords, CallsTyped, Holding
    <3>2. CASE d # c
      <4>1. LockTyped /\ c \in Tasks /\ d \in Tasks
        BY DEF QuotaInv, QuotaRecords, Tasks
      <4>2. ~Holds(d)
        BY <1>2, <3>2, <4>1, HolderLeads
      <4>3. call'[d] = call[d]
        BY <1>5, <3>2 DEF QuotaInv, QuotaRecords, CallsTyped
      <4> QED BY <4>2, <4>3 DEF QuotaInv, LockShared
    <3> QED BY <3>1, <3>2
  <2> QED BY <2>1 DEF HolderFits, Holding
<1>14. CountsAhead' /\ CountsTyped'
  BY <1>1, <1>10, <1>12, <1>13 DEF CountsAhead, CountsTyped, QuotaInv, QuotaRecords
<1> QED BY <1>1, <1>7, <1>14, QuotaFrame DEF QuotaInv, QuotaRecords

-----------------------------------------------------------------------------
LEMMA QuotaStarts == QuotaInit => QuotaInv
<1> SUFFICES ASSUME QuotaInit
             PROVE  QuotaInv
  OBVIOUS
<1>1. \A c \in Calls : call[c] = Idle
  BY DEF QuotaInit
<1>2. Idle.pc = "idle" /\ Idle.gen = 0 /\ Idle \in CallType
  BY IdleFits DEF Idle
<1>3. CallsTyped
  BY <1>2 DEF QuotaInit, CallsTyped
<1>4. NumbersTyped
  BY QuotaAssumption DEF QuotaInit, NumbersTyped
<1>5. BucketsTyped /\ PenaltyKept
  <2>1. [tokens |-> Burst, updated |-> 0, until |-> 0] \in BucketType
    BY QuotaAssumption DEF BucketType
  <2> QED BY <2>1 DEF QuotaInit, BucketsTyped, PenaltyKept, Providers
<1>6. CountsTyped /\ BackoffTyped /\ CooldownsAreOwn
  BY DEF QuotaInit, CountsTyped, BackoffTyped, CooldownsAreOwn
<1>7. Len(lock) = 0 /\ lock \in Seq(Tasks)
  BY DEF QuotaInit
<1>8. \A x : ~Queued(x)
  BY <1>7 DEF Queued
<1>9. \A x, y : ~Ahead(x, y)
  BY <1>7 DEF Ahead
<1>10. LockTyped
  BY <1>7 DEF LockTyped
<1>11. LockShared /\ AdmittedUnderOwnPlan
  BY <1>1, <1>2, <1>8 DEF LockShared, AdmittedUnderOwnPlan, Waiting, Holding
<1>12. PlansFollow
  BY <1>1, <1>2, <1>8, <1>9 DEF PlansFollow, QuotaInit
<1>13. CountsAhead
  <2>1. GrantsWithinLimit
    BY QuotaAssumption DEF QuotaInit, GrantsWithinLimit
  <2> QED BY <1>1, <1>2, <2>1 DEF CountsAhead, HolderFits
<1> QED BY <1>3, <1>4, <1>5, <1>6, <1>10, <1>11, <1>12, <1>13 DEF QuotaInv, QuotaRecords

LEMMA QuotaStep == QuotaInv /\ [QuotaNext]_quotaVars => QuotaInv'
<1> SUFFICES ASSUME QuotaInv, [QuotaNext]_quotaVars
             PROVE  QuotaInv'
  OBVIOUS
<1>1. ASSUME NEW c \in Calls, CallStep(c)
      PROVE  QuotaInv'
  BY <1>1, QuotaBegins, QuotaReads, QuotaDecides, QuotaCounts, QuotaAdmits, QuotaCancels, QuotaFails,
     QuotaAnswers, QuotaPlain, QuotaPenalizes DEF CallStep
<1>2. CASE UNCHANGED quotaVars
  <2>1. CallsTyped' /\ CountsTyped' /\ CountsAhead' /\ AdmittedUnderOwnPlan'
    BY <1>2, CallsKept DEF quotaVars
  <2>2. LockTyped' /\ LockShared' /\ PlansFollow'
    BY <1>2 DEF quotaVars, QuotaInv, QuotaRecords, LockTyped, LockShared, PlansFollow, Queued, Holds, Ahead
  <2> QED BY <1>2, <2>1, <2>2, QuotaFrame DEF quotaVars, QuotaInv, QuotaRecords
<1> QED BY <1>1, <1>2, QuotaAbandoned, QuotaChanges, QuotaReconfigures, QuotaTicks DEF QuotaNext

LEMMA QuotaImplies == QuotaInv => QuotaTypeOK /\ GrantsWithinLimit /\ AdmittedUnderOwnPlan /\ CooldownsAreOwn
<1> SUFFICES ASSUME QuotaInv
             PROVE  QuotaTypeOK /\ GrantsWithinLimit
  BY DEF QuotaInv
<1>1. clock \in 0..MaxTicks /\ requests \in 0..MaxRequests /\ generation \in 0..MaxChanges /\ planOf \in 0..generation
  BY DEF QuotaInv, QuotaRecords, NumbersTyped
<1>2. \A i \in 1..Len(lock) : lock[i] \in Calls \cup {CONFIG}
  BY DEF QuotaInv, QuotaRecords, LockTyped, Tasks
<1>3. \A p \in Providers : bucket[p].tokens \in 0..Burst /\ usage[p] \in Nat /\ zombies[p] \in Nat
  BY QuotaFields DEF BucketType
<1> QED BY <1>1, <1>2, <1>3 DEF QuotaTypeOK, QuotaInv, CountsAhead

\* Only a decision lets a call count, and it looks at the back-off that the penalty left.
LEMMA PenaltyServed ==
    ASSUME QuotaInv, [QuotaNext]_quotaVars, NEW c \in Calls, call[c].prov = "plain",
           call[c].pc = "read", call'[c].pc = "counting"
    PROVE  clock >= penalty
<1>1. call \in [Calls -> CallType]
  BY DEF QuotaInv, QuotaRecords, CallsTyped
<1>2. Decide(c)
  <2>1. call' # call
    OBVIOUS
  <2>2. PICK d \in Calls : CallStep(d)
    BY <2>1 DEF QuotaNext, quotaVars, CountAbandoned, ChangeProviders, Reconfigure, Tick
  <2>3. \A x \in Calls : x # d => call'[x] = call[x]
    BY <1>1, <2>2 DEF CallStep, BeginCall, ReadUsage, Decide, CountUsage, Admitted, CancelCall,
       RpcFails, RpcAnswers, PlainAnswers, Penalize
  <2>4. c = d
    BY <2>3
  <2>5. ~CancelCall(c)
    BY <1>1 DEF CancelCall, Idle
  <2> QED BY <2>2, <2>4, <2>5 DEF CallStep, BeginCall, ReadUsage, CountUsage, Admitted, RpcFails,
          RpcAnswers, PlainAnswers, Penalize
<1>3. call'[c].pc # Idle.pc
  BY DEF Idle
<1>4. clock >= bucket["plain"].until
  BY <1>1, <1>2, <1>3 DEF Decide
<1> QED BY <1>4 DEF QuotaInv, PenaltyKept

-----------------------------------------------------------------------------
\* The governor keeps its promise in every behaviour: the month and its reserve, the plan of the
\* own configuration, the back-off of the own configuration and the penalty served in full, for
\* any number of tasks and whatever is cancelled or reconfigured in between.
THEOREM QuotaAlwaysHonoured == QuotaSpec => QuotaHonoured
<1>1. QuotaInit => QuotaInv
  BY QuotaStarts
<1>2. QuotaInv /\ [QuotaNext]_quotaVars => QuotaInv'
  BY QuotaStep
<1>3. QuotaInv /\ [QuotaNext]_quotaVars
        => [\A c \in Calls : (call[c].prov = "plain" /\ call[c].pc = "read" /\ call'[c].pc = "counting")
                => clock >= penalty]_quotaVars
  BY PenaltyServed
<1>4. QuotaInv => QuotaTypeOK /\ GrantsWithinLimit /\ AdmittedUnderOwnPlan /\ CooldownsAreOwn
  BY QuotaImplies
<1> QED BY <1>1, <1>2, <1>3, <1>4, PTL DEF QuotaSpec, QuotaHonoured, PenaltyHonoured

-----------------------------------------------------------------------------
\* Quotes.  The inductive invariant is CurveTypeOK /\ SpotBounds: cost and proceeds are compared
\* with the spot price vs / vt, multiplied out.

\* ceil_div rounds towards the curve: it covers its numerator.
LEMMA CeilDivCovers ==
    ASSUME NEW a \in Nat, NEW b \in Nat \ {0}
    PROVE  /\ ceil_div(a, b) \in Int
           /\ ceil_div(a, b) * b >= a
           /\ ceil_div(a, b) >= 0
<1>1. (-a) \in Int /\ b \in Int /\ b > 0
  OBVIOUS
<1>2. ((-a) \div b) \in Int
  BY <1>1
<1>3. ((-a) \div b) * b <= -a
  BY <1>1
<1>4. (-((-a) \div b)) * b = -(((-a) \div b) * b)
  BY <1>1, <1>2
<1>5. ((-a) \div b) <= 0
  BY <1>1
<1> QED
  BY <1>1, <1>2, <1>3, <1>4, <1>5 DEF ceil_div

\* Multiplication by a natural number is monotone.
LEMMA TimesMonotone ==
    ASSUME NEW x \in Int, NEW y \in Int, NEW k \in Nat, x <= y
    PROVE  x * k <= y * k
OBVIOUS

\* A positive factor can be cancelled.
LEMMA TimesCancel ==
    ASSUME NEW x \in Int, NEW y \in Int, NEW k \in Nat \ {0}, x * k <= y * k
    PROVE  x <= y
OBVIOUS

\* On the curve x * y = k, rounded to the curve's favour, adding c to one side takes
\* at most the spot share of c from the other side.  quote_buy uses it with the SOL
\* side as x, quote_sell with the token side.
LEMMA CurveNeverBeatsSpot ==
    ASSUME NEW x \in Nat \ {0}, NEW y \in Nat \ {0}, NEW c \in Nat \ {0},
           NEW out \in Nat, out <= y - ceil_div(y * x, x + c)
    PROVE  out * x <= c * y
<1> DEFINE q == ceil_div(y * x, x + c)
<1>1. y * x \in Nat /\ x + c \in Nat \ {0}
  OBVIOUS
<1>2. q \in Int /\ q * (x + c) >= y * x
  BY <1>1, CeilDivCovers
<1> HIDE DEF q
<1>3. out <= y - q
  BY DEF q
<1>4. out * (x + c) <= (y - q) * (x + c)
  BY <1>1, <1>2, <1>3, TimesMonotone
<1>5. (y - q) * (x + c) = y * (x + c) - q * (x + c)
  BY <1>1, <1>2
<1>6. y * (x + c) = y * x + y * c
  OBVIOUS
<1>7. out * (x + c) = out * x + out * c
  OBVIOUS
<1>8. out * c \in Nat /\ out * x \in Nat /\ q * (x + c) \in Int /\ y * c \in Nat /\ y * x \in Nat
  BY <1>1, <1>2
<1>9. out * x <= y * c
  BY <1>2, <1>4, <1>5, <1>6, <1>7, <1>8
<1> QED
  BY <1>9

\* A fee is a natural number.
LEMMA FeeNat ==
    ASSUME NEW amount \in Nat, NEW bps \in Nat
    PROVE  Fee(amount, bps) \in Nat
<1>1. amount * bps \in Nat /\ BPS \in Nat \ {0}
  BY CurveAssumption
<1>2. ceil_div(amount * bps, BPS) \in Int /\ ceil_div(amount * bps, BPS) >= 0
  BY <1>1, CeilDivCovers
<1> QED
  BY <1>2 DEF Fee

-----------------------------------------------------------------------------
CurveInv == CurveTypeOK /\ SpotBounds

\* The reserves and fees in force are well formed.
LEMMA InForce ==
    ASSUME CurveTypeOK
    PROVE  /\ market.vt \in Nat \ {0} /\ market.vs \in Nat \ {0} /\ market.rt \in Nat
           /\ market.rq \in Nat /\ market.known \in BOOLEAN
           /\ schedule.lp \in Nat /\ schedule.protocol \in Nat /\ schedule.creator \in Nat
           /\ FeeBps(schedule) \in Nat
<1>1. market \in Market /\ schedule \in Schedule /\ BPS \in Nat
  BY CurveAssumption DEF CurveTypeOK
<1>2. /\ market.vt \in Nat \ {0} /\ market.vs \in Nat \ {0} /\ market.rt \in Nat
      /\ market.rq \in Nat /\ market.known \in BOOLEAN
  BY <1>1 DEF Market
<1>3. schedule.lp \in Nat /\ schedule.protocol \in Nat /\ schedule.creator \in Nat
  BY <1>1 DEF Schedule
<1> QED
  BY <1>2, <1>3 DEF FeeBps

LEMMA InitEstablishes == Init => CurveInv
<1> SUFFICES ASSUME Init PROVE CurveInv
  OBVIOUS
<1>1. CurveTypeOK
  BY DEF Init, CurveTypeOK
<1>2. market.vt \in Nat /\ market.vs \in Nat
  BY <1>1, InForce
<1>3. SpotBounds
  BY <1>2 DEF Init, SpotBounds
<1> QED
  BY <1>1, <1>3 DEF CurveInv

LEMMA ObservePreserves ==
    ASSUME CurveInv, Observe
    PROVE  CurveInv'
<1>1. CurveTypeOK'
  BY DEF Observe, CurveTypeOK
<1>2. market' \in Market
  BY <1>1, CurveAssumption DEF CurveTypeOK
<1>3. market'.vt \in Nat /\ market'.vs \in Nat
  BY <1>2 DEF Market
<1>4. SpotBounds'
  BY <1>3 DEF Observe, SpotBounds
<1> QED
  BY <1>1, <1>4 DEF CurveInv

LEMMA BuyPreserves ==
    ASSUME CurveInv, NEW budget \in Budgets, Buy(budget)
    PROVE  CurveInv'
<1> DEFINE vt == market.vt
           vs == market.vs
<1>1. CurveTypeOK /\ SpotBounds
  BY DEF CurveInv
<1>2. vt \in Nat \ {0} /\ vs \in Nat \ {0} /\ market.rt \in Nat /\ FeeBps(schedule) \in Nat
  BY <1>1, InForce
<1>3. budget \in Nat /\ NetworkFee \in Nat
  BY CurveAssumption
<1>4. PICK c \in 1..budget :
          /\ TokenOut(c) > 0
          /\ bought' = bought + TokenOut(c)
          /\ paid' = paid + c + Fee(c, FeeBps(schedule)) + NetworkFee
  BY DEF Buy
<1> DEFINE out == TokenOut(c)
           fee == Fee(c, FeeBps(schedule))
<1>5. c \in Nat \ {0}
  BY <1>3
<1>6. fee \in Nat
  BY <1>2, <1>5, FeeNat
<1>7. vt * vs \in Nat /\ vs + c \in Nat \ {0}
  BY <1>2, <1>5
<1>8. ceil_div(vt * vs, vs + c) \in Int
  BY <1>7, CeilDivCovers
<1>9. out \in Nat /\ out <= vt - ceil_div(vt * vs, vs + c)
  BY <1>2, <1>4, <1>8 DEF TokenOut
<1>10. out * vs <= c * vt
  BY <1>2, <1>5, <1>9, CurveNeverBeatsSpot
<1>11. UNCHANGED <<market, schedule, sold, received>> /\ trades' = trades + 1
  BY DEF Buy
<1> HIDE DEF out, fee, vt, vs
<1>12. bought' = bought + out /\ paid' = paid + c + fee + NetworkFee
  BY <1>4 DEF out, fee
<1>13. CurveTypeOK'
  BY <1>1, <1>3, <1>5, <1>6, <1>9, <1>11, <1>12 DEF CurveTypeOK
<1>14. bought \in Nat /\ paid \in Nat /\ paid * vt >= bought * vs
  BY <1>1 DEF CurveTypeOK, SpotBounds, vt, vs
<1>15. (paid + c + fee + NetworkFee) * vt = paid * vt + c * vt + (fee + NetworkFee) * vt
  BY <1>2, <1>3, <1>5, <1>6, <1>14
<1>16. (bought + out) * vs = bought * vs + out * vs
  BY <1>2, <1>9, <1>14
<1>17. (fee + NetworkFee) * vt \in Nat /\ paid * vt \in Nat /\ c * vt \in Nat
       /\ bought * vs \in Nat /\ out * vs \in Nat
  BY <1>2, <1>3, <1>5, <1>6, <1>9, <1>14
<1>18. (paid + c + fee + NetworkFee) * vt >= (bought + out) * vs
  BY <1>10, <1>14, <1>15, <1>16, <1>17
<1>19. SpotBounds'
  BY <1>1, <1>11, <1>12, <1>18 DEF SpotBounds, vt, vs
<1> QED
  BY <1>13, <1>19 DEF CurveInv

LEMMA SellPreserves ==
    ASSUME CurveInv, NEW u \in 1..(bought - sold), Sell(u)
    PROVE  CurveInv'
<1> DEFINE vt == market.vt
           vs == market.vs
           gross == Gross(u)
           fees == SellFees(gross)
           wallet == gross - fees - NetworkFee
<1>1. CurveTypeOK /\ SpotBounds
  BY DEF CurveInv
<1>2. vt \in Nat \ {0} /\ vs \in Nat \ {0} /\ schedule.lp \in Nat
      /\ schedule.protocol \in Nat /\ schedule.creator \in Nat
  BY <1>1, InForce
<1>3. NetworkFee \in Nat /\ bought \in Nat /\ sold \in Nat /\ received \in Nat
  BY <1>1, CurveAssumption DEF CurveTypeOK
<1>4. u \in Nat \ {0} /\ u <= bought - sold
  BY <1>3
<1>5. /\ gross > 0 /\ wallet > 0
      /\ received' = received + gross - fees - NetworkFee
      /\ sold' = sold + u /\ trades' = trades + 1
      /\ UNCHANGED <<market, schedule, bought, paid>>
  BY DEF Sell
<1>6. vt * vs \in Nat /\ vt + u \in Nat \ {0}
  BY <1>2, <1>4
<1>7. ceil_div(vt * vs, vt + u) \in Int
  BY <1>6, CeilDivCovers
<1>8. gross \in Int
  BY <1>2, <1>7 DEF Gross
<1>9. gross \in Nat
  BY <1>5, <1>8
<1>10. vs * vt = vt * vs
  BY <1>2
<1>11. gross <= vs - ceil_div(vs * vt, vt + u)
  BY <1>2, <1>7, <1>10 DEF Gross
<1>12. gross * vt <= u * vs
  BY <1>2, <1>4, <1>9, <1>11, CurveNeverBeatsSpot
<1>13. fees \in Nat
  <2> HIDE DEF gross
  <2>1. /\ Fee(gross, schedule.lp) \in Nat
        /\ Fee(gross, schedule.protocol) \in Nat
        /\ Fee(gross, schedule.creator) \in Nat
    BY <1>2, <1>9, FeeNat
  <2> QED
    BY <2>1 DEF SellFees
<1> HIDE DEF gross, fees, vt, vs
<1>14. wallet \in Nat /\ wallet <= gross /\ received' = received + wallet
  <2>1. wallet \in Int /\ wallet > 0
    BY <1>3, <1>5, <1>9, <1>13
  <2>2. gross - fees - NetworkFee <= gross
    BY <1>3, <1>9, <1>13
  <2>3. received' = received + (gross - fees - NetworkFee)
    BY <1>3, <1>5, <1>9, <1>13
  <2> QED
    BY <2>1, <2>2, <2>3
<1> HIDE DEF wallet
<1>15. CurveTypeOK'
  BY <1>1, <1>3, <1>4, <1>5, <1>14 DEF CurveTypeOK
<1>16. received * vt <= sold * vs
  BY <1>1 DEF SpotBounds, vt, vs
<1>17. wallet * vt <= gross * vt
  BY <1>2, <1>9, <1>14, TimesMonotone
<1>18. (received + wallet) * vt = received * vt + wallet * vt
  BY <1>2, <1>3, <1>14
<1>19. (sold + u) * vs = sold * vs + u * vs
  BY <1>2, <1>3, <1>4
<1>20. wallet * vt \in Nat /\ gross * vt \in Nat /\ u * vs \in Nat /\ received * vt \in Nat
       /\ sold * vs \in Nat
  BY <1>2, <1>3, <1>4, <1>9, <1>14
<1>21. (received + wallet) * vt <= (sold + u) * vs
  BY <1>12, <1>16, <1>17, <1>18, <1>19, <1>20
<1>22. SpotBounds'
  BY <1>1, <1>5, <1>14, <1>21 DEF SpotBounds, vt, vs
<1> QED
  BY <1>15, <1>22 DEF CurveInv

LEMMA StepPreserves == CurveInv /\ [Next]_vars => CurveInv'
<1> SUFFICES ASSUME CurveInv, [Next]_vars PROVE CurveInv'
  OBVIOUS
<1>1. CASE Observe
  BY <1>1, ObservePreserves
<1>2. CASE \E budget \in Budgets : Buy(budget)
  BY <1>2, BuyPreserves
<1>3. CASE \E u \in 1..(bought - sold) : Sell(u)
  BY <1>3, SellPreserves
<1>4. CASE UNCHANGED vars
  BY <1>4 DEF vars, CurveInv, CurveTypeOK, SpotBounds
<1> QED
  BY <1>1, <1>2, <1>3, <1>4 DEF Next

\* Cost and proceeds bound each other through the spot price.
LEMMA BoundsGiveNoFreeMoney == CurveInv => NoFreeMoney
<1> SUFFICES ASSUME CurveInv PROVE NoFreeMoney
  OBVIOUS
<1>1. market.vt \in Nat \ {0} /\ market.vs \in Nat \ {0}
  BY InForce DEF CurveInv
<1>2. bought \in Nat /\ sold \in Nat /\ paid \in Nat /\ received \in Nat /\ sold <= bought
  BY DEF CurveInv, CurveTypeOK
<1>3. sold * market.vs <= bought * market.vs
  BY <1>1, <1>2, TimesMonotone
<1>4. paid * market.vt >= bought * market.vs /\ received * market.vt <= sold * market.vs
  BY DEF CurveInv, SpotBounds
<1>5. received * market.vt <= paid * market.vt
  BY <1>1, <1>2, <1>3, <1>4
<1>6. received <= paid
  BY <1>1, <1>2, <1>5, TimesCancel
<1> QED
  BY <1>6 DEF NoFreeMoney

\* What was bought cost at least the spot price and what was sold brought at most
\* the spot price, for every series of quote_buy and quote_sell.
THEOREM SpotBoundsHold == Spec => []SpotBounds
<1>1. CurveInv => SpotBounds
  BY DEF CurveInv
<1> QED
  BY <1>1, InitEstablishes, StepPreserves, PTL DEF Spec

\* No series of paper buys and partial sells at unmoved reserves makes money.
THEOREM UnmovedQuoteNeverPays == Spec => []NoFreeMoney
BY InitEstablishes, StepPreserves, BoundsGiveNoFreeMoney, PTL DEF Spec

\* The part of the proceeds that reaches the wallet is below the part that leaves
\* the vault, because the retained LP fee is one of the fees deducted.
LEMMA SellCovered ==
    ASSUME CurveTypeOK, NEW u \in 1..(bought - sold), Sell(u), market.known
    PROVE  received' - received <= market.rq
<1> DEFINE gross == Gross(u)
           lp == Fee(gross, schedule.lp)
           rest == Fee(gross, schedule.protocol) + Fee(gross, schedule.creator)
<1>1. market.vt \in Nat \ {0} /\ market.vs \in Nat \ {0} /\ market.rq \in Nat
      /\ schedule.lp \in Nat /\ schedule.protocol \in Nat /\ schedule.creator \in Nat
  BY InForce
<1>2. NetworkFee \in Nat /\ bought \in Nat /\ sold \in Nat /\ received \in Nat
  BY CurveAssumption DEF CurveTypeOK
<1>3. u \in Nat \ {0}
  BY <1>2
<1>4. /\ gross > 0 /\ gross - lp <= market.rq
      /\ received' = received + gross - SellFees(gross) - NetworkFee
  BY DEF Sell
<1>5. market.vt * market.vs \in Nat /\ market.vt + u \in Nat \ {0}
  BY <1>1, <1>3
<1>6. ceil_div(market.vt * market.vs, market.vt + u) \in Int
  BY <1>5, CeilDivCovers
<1>7. gross \in Int
  BY <1>1, <1>6 DEF Gross
<1>8. gross \in Nat
  BY <1>4, <1>7
<1> HIDE DEF gross
<1>9. Fee(gross, schedule.lp) \in Nat /\ Fee(gross, schedule.protocol) \in Nat
      /\ Fee(gross, schedule.creator) \in Nat
  BY <1>1, <1>8, FeeNat
<1>10. lp \in Nat /\ rest \in Nat /\ SellFees(gross) = lp + rest
  BY <1>9 DEF SellFees
<1> HIDE DEF lp, rest
<1> QED
  BY <1>1, <1>2, <1>4, <1>8, <1>10

\* quote_sell never fills a sell whose wallet proceeds the real quote vault could
\* not cover.
THEOREM VaultAlwaysCovers == Spec => VaultCovers
<1> DEFINE Covered == market' = market /\ market.known => received' - received <= market.rq
<1>1. CurveInv /\ [Next]_vars => [Covered]_vars
  <2> SUFFICES ASSUME CurveInv, [Next]_vars, market' = market, market.known
               PROVE  received' - received <= market.rq
    OBVIOUS
  <2>1. CurveTypeOK /\ market.rq \in Nat /\ received \in Nat
    BY InForce DEF CurveInv, CurveTypeOK
  <2>2. CASE Observe
    BY <2>1, <2>2 DEF Observe
  <2>3. CASE \E budget \in Budgets : Buy(budget)
    <3>1. received' = received
      BY <2>3 DEF Buy
    <3> QED
      BY <2>1, <3>1
  <2>4. CASE \E u \in 1..(bought - sold) : Sell(u)
    BY <2>1, <2>4, SellCovered
  <2>5. CASE UNCHANGED vars
    BY <2>1, <2>5 DEF vars
  <2> QED
    BY <2>2, <2>3, <2>4, <2>5 DEF Next
<1> QED
  BY <1>1, InitEstablishes, StepPreserves, PTL DEF Spec, VaultCovers
\* Integer division bounds its numerator from both sides.
LEMMA DivBounds ==
    ASSUME NEW a \in Nat, NEW m \in Nat \ {0}
    PROVE  /\ a \div m \in Nat
           /\ (a \div m) * m <= a
           /\ a < (a \div m) * m + m
OBVIOUS

\* No affordable curve input lies above the loop's first candidate, and that candidate
\* is within the budget.
LEMMA StartCoversAffordable ==
    ASSUME CurveTypeOK, NEW budget \in Nat \ {0}
    PROVE  /\ StartInput(budget) \in Nat
           /\ StartInput(budget) <= budget
           /\ \A c \in 1..budget : Affordable(c, budget) => c <= StartInput(budget)
<1> DEFINE fee == FeeBps(schedule)
           start == StartInput(budget)
           whole == BPS + fee
<1>1. fee \in Nat /\ BPS \in Nat \ {0}
  BY InForce, CurveAssumption
<1>2. budget * BPS \in Nat /\ budget * fee \in Nat /\ whole \in Nat \ {0}
  BY <1>1
<1>3. start = (budget * BPS) \div whole
  BY DEF StartInput
<1> HIDE DEF start, whole
<1>4. start \in Nat /\ start * whole <= budget * BPS /\ budget * BPS < start * whole + whole
  BY <1>2, <1>3, DivBounds
<1> HIDE DEF fee
<1>5. budget * whole = budget * BPS + budget * fee
  BY <1>1 DEF whole
<1>6. start * whole \in Int /\ budget * whole \in Int
  BY <1>2, <1>4
<1>7. start * whole <= budget * whole
  BY <1>2, <1>4, <1>5, <1>6
<1>8. start <= budget
  BY <1>2, <1>4, <1>7, TimesCancel
<1>9. ASSUME NEW c \in 1..budget, Affordable(c, budget)
      PROVE  c <= start
  <2> DEFINE cost == ceil_div(c * fee, BPS)
  <2>1. c \in Nat /\ c * fee \in Nat /\ c * BPS \in Nat
    BY <1>1
  <2>2. cost \in Int /\ cost * BPS >= c * fee
    BY <1>1, <2>1, CeilDivCovers
  <2>3. c + cost <= budget
    BY <1>9 DEF Affordable, Fee, fee
  <2> HIDE DEF cost
  <2>4. (c + cost) * BPS <= budget * BPS
    BY <1>1, <2>1, <2>2, <2>3, TimesMonotone
  <2>5. (c + cost) * BPS = c * BPS + cost * BPS /\ cost * BPS \in Int
    BY <1>1, <2>1, <2>2
  <2>6. c * whole = c * BPS + c * fee
    BY <1>1, <2>1 DEF whole
  <2>7. c * whole <= budget * BPS
    BY <1>2, <2>1, <2>2, <2>4, <2>5, <2>6
  <2>8. CASE start < c
    <3>1. start + 1 <= c /\ start + 1 \in Int
      BY <1>4, <2>1, <2>8
    <3>2. (start + 1) * whole <= c * whole
      BY <1>2, <2>1, <3>1, TimesMonotone
    <3>3. (start + 1) * whole = start * whole + whole
      BY <1>2, <1>4
    <3>4. c * whole \in Int
      BY <1>2, <2>1
    <3> QED
      BY <1>2, <1>4, <1>6, <2>7, <3>2, <3>3, <3>4
  <2> QED
    BY <1>4, <2>1, <2>8
<1> QED
  BY <1>4, <1>8, <1>9 DEF start

\* quote_buy's loop, which starts at an input computed without rounding and counts down,
\* ends at the largest affordable input for every budget and every fee schedule.
THEOREM LoopAlwaysFindsLargest == Spec => []MaximalInput
<1>1. CurveTypeOK => MaximalInput
  <2> SUFFICES ASSUME CurveTypeOK, NEW budget \in Budgets, NEW c \in 1..budget
               PROVE  IsCurveInput(c, budget) <=>
                          /\ Affordable(c, budget)
                          /\ \A d \in (c + 1)..budget : ~Affordable(d, budget)
    BY DEF MaximalInput
  <2>1. budget \in Nat \ {0} /\ c \in Nat \ {0} /\ c <= budget
    BY CurveAssumption
  <2>2. /\ StartInput(budget) \in Nat /\ StartInput(budget) <= budget
        /\ \A d \in 1..budget : Affordable(d, budget) => d <= StartInput(budget)
    BY <2>1, StartCoversAffordable
  <2>3. ASSUME IsCurveInput(c, budget), NEW d \in (c + 1)..budget, Affordable(d, budget)
        PROVE  FALSE
    <3>1. d \in 1..budget /\ d \in Nat
      BY <2>1
    <3>2. d \in (c + 1)..StartInput(budget)
      BY <2>1, <2>2, <2>3, <3>1
    <3> QED
      BY <2>3, <3>2 DEF IsCurveInput
  <2>4. ASSUME Affordable(c, budget), \A d \in (c + 1)..budget : ~Affordable(d, budget)
        PROVE  IsCurveInput(c, budget)
    <3>1. c \in 1..StartInput(budget)
      BY <2>1, <2>2, <2>4
    <3>2. \A d \in (c + 1)..StartInput(budget) : d \in (c + 1)..budget
      BY <2>1, <2>2
    <3> QED
      BY <2>4, <3>1, <3>2 DEF IsCurveInput
  <2> QED
    BY <2>3, <2>4 DEF IsCurveInput
<1>2. CurveInv => MaximalInput
  BY <1>1 DEF CurveInv
<1> QED
  BY <1>2, InitEstablishes, StepPreserves, PTL DEF Spec

=============================================================================
