----------------------------- MODULE RouteProbes -----------------------------
(***************************************************************************)
(* The held-position watchdog and the evidence on which a season boundary  *)
(* writes a position off (orchestrator.py 4847-5292, terminal_evidence.py, *)
(* database.py 4983-5047).                                                 *)
(*                                                                         *)
(* One mint.  The watchdog asks an RPC endpoint for the accounts of the    *)
(* held route without the event lock; when the answer comes the position   *)
(* may have been sold and reopened, the route migrated, the endpoint       *)
(* replaced or the portfolio reset.  Two fresh validated refusals of the   *)
(* same route, in order, are needed before a boundary retires the position *)
(* at zero instead of leaving it unresolved.                               *)
(***************************************************************************)
EXTENDS Integers, Sequences

CONSTANTS
    MaxPositions,   \* bound: positions opened in the mint
    MaxProbes,      \* bound: watchdog requests
    MaxChainSlot,   \* bound: slots of the chain
    MaxClock,       \* bound: time
    MaxResets,      \* bound: resets, demo switches and endpoint changes
    ProbeMaxAge,    \* TERMINAL_PROBE_MAX_AGE_SECONDS
    AnswerMaxAge    \* age at which an RPC answer is rejected (reserve_refresh.py 287)

ASSUME ProbeAssumption ==
    /\ MaxPositions \in Nat /\ MaxProbes \in Nat /\ MaxResets \in Nat
    /\ MaxChainSlot \in Nat \ {0} /\ MaxClock \in Nat \ {0}
    /\ ProbeMaxAge \in Nat \ {0} /\ AnswerMaxAge \in Nat
    /\ AnswerMaxAge < ProbeMaxAge

VARIABLES
    chain,      \* the chain: [slot, route, dead]; dead: a sell cannot execute
    probeClock,
    marketStatus,     \* features.tokens[mint]: [route, lastSlot, reserveSlot]
    held,       \* broker position: [id, active]; id 0: none
    opened,     \* identifiers handed out
    inDemo, endpoint,
    ask,        \* the watchdog's request and its answer
    probe,      \* _position_route_probes[mint]
    asked, resets,
    proofs,     \* history: outcomes recorded since the last position opened
    retired     \* history: the last write-off committed

probeVars == <<chain, probeClock, marketStatus, held, opened, inDemo, endpoint, ask,
               probe, asked, resets, proofs, retired>>

NoPosition == [id |-> 0, active |-> FALSE]
NoAsk == [pc |-> "none", id |-> 0, route |-> 0, min |-> 0, at |-> 0, endpoint |-> 0,
          slot |-> 0, dead |-> FALSE, current |-> FALSE]
NoProbe == [outcome |-> "none", count |-> 0, first |-> 0, at |-> 0, slot |-> 0,
            firstSlot |-> 0, id |-> 0, route |-> 0]
NotRetired == [id |-> 0, at |-> 0, route |-> 0]

ProbeInit ==
    /\ chain = [slot |-> 1, route |-> 1, dead |-> FALSE]
    /\ probeClock = 1 /\ marketStatus = [route |-> 1, lastSlot |-> 1, reserveSlot |-> 1]
    /\ held = NoPosition /\ opened = 0
    /\ inDemo = FALSE /\ endpoint = 0
    /\ ask = NoAsk /\ probe = NoProbe /\ asked = 0 /\ resets = 0
    /\ proofs = <<>> /\ retired = NotRetired

Latest(a, b) == IF a > b THEN a ELSE b

----------------------------------------------------------------------------
\* The environment: time and the chain.
ClockTicks ==
    /\ probeClock < MaxClock
    /\ probeClock' = probeClock + 1
    /\ UNCHANGED <<chain, marketStatus, held, opened, inDemo, endpoint, ask,
                   probe, asked, resets, proofs, retired>>

ChainMoves(migrates, dead) ==
    /\ chain.slot < MaxChainSlot
    /\ chain' = [slot |-> chain.slot + 1,
                 route |-> IF migrates THEN 2 ELSE chain.route, dead |-> dead]
    /\ UNCHANGED <<probeClock, marketStatus, held, opened, inDemo, endpoint, ask,
                   probe, asked, resets, proofs, retired>>

\* A stream row: it moves the route's cursor and marks the position; the row may also
\* carry the buy that opens a position or the sell that closes it.
StreamRow(pos) ==
    /\ ~inDemo /\ ~chain.dead
    /\ marketStatus.lastSlot < chain.slot \/ marketStatus.route # chain.route
    /\ marketStatus' = [marketStatus EXCEPT !.route = chain.route, !.lastSlot = chain.slot]
    /\ IF held.id = 0
       THEN \/ pos = NoPosition /\ UNCHANGED <<opened, proofs, retired>>
            \/ /\ opened < MaxPositions
               /\ pos = [id |-> opened + 1, active |-> TRUE] /\ opened' = opened + 1
               /\ proofs' = <<>> /\ retired' = NotRetired
       ELSE pos \in {NoPosition} \cup [id : {held.id}, active : BOOLEAN]
            /\ UNCHANGED <<opened, proofs, retired>>
    /\ held' = pos
    /\ UNCHANGED <<chain, probeClock, inDemo, endpoint, ask, probe, asked, resets>>

\* _mark with stale market data: the position turns dormant.
GoesDormant ==
    /\ held.active
    /\ held' = [held EXCEPT !.active = FALSE]
    /\ UNCHANGED <<chain, probeClock, marketStatus, opened, inDemo, endpoint, ask,
                   probe, asked, resets, proofs, retired>>

----------------------------------------------------------------------------
\* _position_watchdog_targets and the start of the tick, read without the lock.
AskRoute ==
    /\ ask.pc = "none" /\ held.id # 0 /\ ~inDemo /\ asked < MaxProbes
    /\ ask' = [NoAsk EXCEPT !.pc = "sent", !.id = held.id, !.route = marketStatus.route,
                            !.min = Latest(marketStatus.lastSlot, marketStatus.reserveSlot),
                            !.at = probeClock, !.endpoint = endpoint]
    /\ asked' = asked + 1
    /\ UNCHANGED <<chain, probeClock, marketStatus, held, opened, inDemo, endpoint,
                   probe, resets, proofs, retired>>

\* The endpoint answers with the accounts at a slot not before the one asked for.
EndpointAnswers ==
    /\ ask.pc = "sent" /\ ask.min <= chain.slot
    /\ ask' = [ask EXCEPT !.pc = "answered", !.slot = chain.slot, !.dead = chain.dead,
                          !.current = ask.route = chain.route]
    /\ UNCHANGED <<chain, probeClock, marketStatus, held, opened, inDemo, endpoint,
                   probe, asked, resets, proofs, retired>>

\* No answer (quota, timeout, transport): result is None and the batch is skipped.
EndpointFails ==
    /\ ask.pc = "sent"
    /\ ask' = NoAsk
    /\ UNCHANGED <<chain, probeClock, marketStatus, held, opened, inDemo, endpoint,
                   probe, asked, resets, proofs, retired>>

\* demo_mode or another provider generation under the lock: the answer is discarded.
DiscardAnswer ==
    /\ ask.pc = "answered"
    /\ inDemo \/ ask.endpoint # endpoint
    /\ ask' = NoAsk
    /\ UNCHANGED <<chain, probeClock, marketStatus, held, opened, inDemo, endpoint,
                   probe, asked, resets, proofs, retired>>

\* The target still names the held position and its route.
SameTarget == /\ held.id # 0 /\ ask.id = held.id
              /\ ask.route = marketStatus.route

\* Mutant: the age of the answer is not checked.
RefreshesAtAnyAge == /\ SameTarget
                     /\ ask.slot >= marketStatus.lastSlot /\ ask.slot > marketStatus.reserveSlot
                     /\ ask.current

\* validated_learning_state(allow_empty=True) accepts the answer and
\* apply_validated_watchdog_snapshot writes it: a newer slot, an answer in time, and
\* accounts of a route that had not migrated.
Refreshes == /\ SameTarget
             /\ ask.slot >= marketStatus.lastSlot /\ ask.slot > marketStatus.reserveSlot
             /\ probeClock - ask.at <= AnswerMaxAge
             /\ ask.current

\* _prune_position_route_probes: before a probe is recorded and at every heartbeat,
\* ahead of the season ticks.
Pruned == IF probe.id = held.id /\ held.id # 0 THEN probe ELSE NoProbe

\* same_outcome (4974-4981)
SameOutcome(old, outcome, route) ==
    old.outcome = outcome /\ old.id = held.id /\ old.route = route

\* continues_fresh_sequence (4992-5001)
ContinuesSequence(old, outcome, route) ==
    /\ SameOutcome(old, outcome, route)
    /\ probeClock > old.at /\ ask.slot > old.slot
    /\ probeClock - old.at <= ProbeMaxAge /\ probeClock - old.first <= ProbeMaxAge

\* duplicate_or_reordered (4986-4991)
DuplicateOrReordered(old, outcome, route) ==
    SameOutcome(old, outcome, route) /\ (probeClock <= old.at \/ ask.slot <= old.slot)

\* _record_position_route_probe on the probe that survived the pruning
Recorded(old, outcome, route) ==
    LET duplicate == DuplicateOrReordered(old, outcome, route)
        continues == ContinuesSequence(old, outcome, route)
        at == IF duplicate THEN old.at ELSE probeClock
    IN  [outcome |-> outcome,
         count |-> IF outcome = "unknown" THEN 0
                   ELSE IF duplicate THEN old.count
                   ELSE IF continues THEN old.count + 1 ELSE 1,
         first |-> IF continues \/ duplicate THEN old.first ELSE at,
         at |-> at,
         slot |-> Latest(old.slot, ask.slot),
         firstSlot |-> IF continues \/ duplicate THEN old.firstSlot ELSE ask.slot,
         id |-> held.id, route |-> route]

\* Mutant: an answer that proves nothing leaves the earlier refusals standing.
KeepsRefusals(outcome, route) ==
    IF outcome = "unknown" /\ Pruned.outcome = "unavailable" THEN Pruned
    ELSE Recorded(Pruned, outcome, route)

\* The probe after an answer about the held position.
ProbeAfter(outcome, route) == Recorded(Pruned, outcome, route)

\* _position_watchdog_tick and _apply_position_watchdog_result under the event lock:
\* refresh the reserves, mark (and possibly sell) the position, then record the probe.
ApplyAnswer(active, sold) ==
    /\ ask.pc = "answered" /\ ~inDemo /\ ask.endpoint = endpoint
    /\ ask' = NoAsk
    /\ IF Refreshes
       THEN /\ marketStatus' = [marketStatus EXCEPT !.reserveSlot = ask.slot]
            /\ active => ~ask.dead
            /\ sold => active
            /\ held' = IF sold THEN NoPosition ELSE [held EXCEPT !.active = active]
       ELSE active = held.active /\ ~sold /\ UNCHANGED <<marketStatus, held>>
    /\ LET outcome == IF ~Refreshes THEN "unknown"
                      ELSE IF ask.dead THEN "unavailable"
                      ELSE IF active THEN "available" ELSE "unknown"
           route == IF Refreshes THEN ask.route ELSE 0
       IN  IF held'.id = 0
           THEN probe' = NoProbe /\ UNCHANGED proofs
           ELSE IF ask.id # held.id
           THEN /\ probe' = Pruned
                /\ UNCHANGED proofs
           ELSE /\ probe' = ProbeAfter(outcome, route)
                /\ proofs' = Append(proofs,
                       [outcome |-> outcome, id |-> held.id, askedFor |-> ask.id,
                        route |-> route, slot |-> ask.slot, at |-> probeClock,
                        askedAt |-> ask.at])
    /\ UNCHANGED <<chain, probeClock, opened, inDemo, endpoint, asked, resets,
                   retired>>

----------------------------------------------------------------------------
\* Mutant: one confirmation and no order between the two is enough.
OneConfirmation(p) ==
    p.outcome = "unavailable" /\ p.count >= 1 /\ probeClock - p.first <= ProbeMaxAge

\* valid_terminal_probe and the conditions of _terminal_position_dispositions
ConfirmedUnavailable(p) ==
    /\ p.outcome = "unavailable" /\ p.count >= 2
    /\ 0 < p.firstSlot /\ p.firstSlot < p.slot
    /\ p.first < p.at /\ p.at <= probeClock
    /\ probeClock - p.first <= ProbeMaxAge

\* A heartbeat whose profile or automatic season tick commits the boundary: the position
\* is written off on confirmed evidence, otherwise archived as unresolved.
SeasonBoundary(healthy) ==
    /\ ~inDemo /\ held.id # 0
    /\ retired' = IF /\ healthy /\ ~held.active
                     /\ ConfirmedUnavailable(Pruned)
                  THEN [id |-> held.id, at |-> probeClock, route |-> Pruned.route]
                  ELSE NotRetired
    /\ held' = NoPosition /\ probe' = NoProbe
    /\ UNCHANGED <<chain, probeClock, marketStatus, opened, inDemo, endpoint, ask,
                   asked, resets, proofs>>

\* A heartbeat without a boundary only prunes.
Heartbeat ==
    /\ probe # Pruned
    /\ probe' = Pruned
    /\ UNCHANGED <<chain, probeClock, marketStatus, held, opened, inDemo, endpoint,
                   ask, asked, resets, proofs, retired>>

\* The manual reset clears the portfolio and keeps the probes.
ManualReset ==
    /\ held.id # 0 /\ resets < MaxResets
    /\ held' = NoPosition /\ resets' = resets + 1
    /\ UNCHANGED <<chain, probeClock, marketStatus, opened, inDemo, endpoint, ask,
                   probe, asked, proofs, retired>>

\* set_demo_mode in either direction: portfolio, features and probes are cleared.
SwitchDemo ==
    /\ resets < MaxResets
    /\ inDemo' = ~inDemo /\ resets' = resets + 1
    /\ held' = NoPosition /\ probe' = NoProbe
    /\ marketStatus' = [route |-> chain.route, lastSlot |-> 0, reserveSlot |-> 0]
    /\ UNCHANGED <<chain, probeClock, opened, endpoint, ask, asked, proofs,
                   retired>>

\* configure_providers: another endpoint, another generation.
NewEndpoint ==
    /\ resets < MaxResets
    /\ endpoint' = endpoint + 1 /\ resets' = resets + 1
    /\ UNCHANGED <<chain, probeClock, marketStatus, held, opened, inDemo, ask, probe,
                   asked, proofs, retired>>

ProbeNext ==
    \/ ClockTicks \/ GoesDormant
    \/ \E m, d \in BOOLEAN : ChainMoves(m, d)
    \/ \E i \in 0..MaxPositions, a \in BOOLEAN : StreamRow([id |-> i, active |-> a])
    \/ AskRoute \/ EndpointAnswers \/ EndpointFails \/ DiscardAnswer
    \/ \E a, s \in BOOLEAN : ApplyAnswer(a, s)
    \/ \E h \in BOOLEAN : SeasonBoundary(h)
    \/ Heartbeat \/ ManualReset \/ SwitchDemo \/ NewEndpoint

ProbeSpec == ProbeInit /\ [][ProbeNext]_probeVars

----------------------------------------------------------------------------
Outcomes == {"none", "unknown", "available", "unavailable"}

\* Types of the watchdog's state.
ProbeTypeOK ==
    /\ chain.slot \in 1..MaxChainSlot /\ chain.route \in {1, 2} /\ chain.dead \in BOOLEAN
    /\ probeClock \in 1..MaxClock /\ held.id \in 0..MaxPositions /\ held.active \in BOOLEAN
    /\ ask.pc \in {"none", "sent", "answered"} /\ ask.id \in 0..MaxPositions
    /\ probe.outcome \in Outcomes /\ probe.count \in 0..MaxProbes
    /\ asked \in 0..MaxProbes /\ resets \in 0..MaxResets

\* A position is written off only on two recorded refusals of its own route, the second
\* at a later slot and time than the first, both younger than the window, with no other
\* outcome recorded for it between them or after them (orchestrator.py 5037-5106).
WriteOffProven ==
    retired.id # 0 =>
      \E j \in DOMAIN proofs : \E i \in 1..(j - 1) :
        /\ \A k \in DOMAIN proofs :
             (k >= i /\ proofs[k].id = retired.id) =>
                 /\ proofs[k].outcome = "unavailable"
                 /\ proofs[k].route = retired.route
        /\ proofs[i].id = retired.id /\ proofs[j].id = retired.id
        /\ proofs[i].slot < proofs[j].slot /\ proofs[i].at < proofs[j].at
        /\ retired.at - proofs[i].at <= ProbeMaxAge

\* The count of a probe never exceeds the unbroken run of equal outcomes recorded for
\* the held position: no proof is inherited from an earlier position in the same mint or
\* counted twice (orchestrator.py 4958-5035).
CountIsEarned ==
    (probe.count > 0 /\ probe.id = held.id) =>
      /\ probe.count <= Len(proofs)
      /\ \A k \in (Len(proofs) - probe.count + 1)..Len(proofs) :
            /\ proofs[k].id = held.id
            /\ proofs[k].outcome = probe.outcome /\ proofs[k].route = probe.route

\* Only an answer asked for this very position, and not older than the validation
\* allows, can say that its route is available or not (orchestrator.py 5164-5173, 5236).
ProofsAreOwn ==
    \A k \in DOMAIN proofs :
        proofs[k].outcome # "unknown" =>
            /\ proofs[k].askedFor = proofs[k].id
            /\ proofs[k].at - proofs[k].askedAt <= AnswerMaxAge

\* A position is given up only on proofs of its own: the answers were asked for it, the count
\* is an unbroken run of them, and the write-off rests on two of them in order
\* (orchestrator.py 4958-5106, 5164-5236).
WriteOffsAreProven ==
    /\ ProbeTypeOK
    /\ WriteOffProven
    /\ CountIsEarned
    /\ ProofsAreOwn
==============================================================================
