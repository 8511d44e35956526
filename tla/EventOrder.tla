----------------------------- MODULE EventOrder -----------------------------
(***************************************************************************)
(* How one token's reserves stay causal (orchestrator.py 1226-1300, 2587-  *)
(* 2618, 3216-3472, 4159-4258, 5110-5150; intelligence/features.py).       *)
(*                                                                         *)
(* The stream delivers a token's rows late, repeatedly and out of order,   *)
(* from a bonding curve and, after the migration, from AMM pools.  The     *)
(* worker may take a newer row first.  RPC account snapshots and route     *)
(* verifications were requested earlier and are applied under the event    *)
(* lock when they come back; the snapshot is decoded in a thread while new *)
(* rows keep getting sequence numbers.                                     *)
(*                                                                         *)
(* The timestamp a row gets when it is received is its sequence number: no *)
(* two rows are received at once, and a host clock that steps back is not  *)
(* considered.  Duplicates are not filtered here; the event journal and    *)
(* the memory of recent identifiers only remove rows.                      *)
(***************************************************************************)
EXTENDS Integers, FiniteSets

CONSTANTS
    MaxSlot,        \* bound: slots of the chain
    MaxDeliveries,  \* bound: rows received
    MaxSnapshots,   \* bound: RPC snapshots requested
    MaxPrunes,      \* bound: removals of the inactive token
    Pools           \* AMM pools of the token, numbered

ASSUME OrderAssumption ==
    /\ MaxSlot \in Nat \ {0} /\ MaxDeliveries \in Nat
    /\ Pools \subseteq Nat \ {0}

CURVE == 0                      \* the venue of a row: the curve, or a pool's number
Venues == {CURVE} \cup Pools

VARIABLES
    chainSlot, migrated,        \* the chain: its slot and whether pools exist
    emitted,                    \* rows the chain has emitted: [slot, venue]
    queued,                     \* rows received and not yet handled: [slot, venue, seq]
    sequence,                   \* _event_sequence
    cursor,                     \* _event_order_by_mint: [slot, seq]
    token,                      \* features.tokens[mint]
    snap,                       \* RPC snapshot in flight
    check,                      \* pool whose route is being verified, or 0
    prunes, snapshots,
    fence,                      \* history: last applied snapshot [slot, seq]
    proven                      \* history: pool proven for the current route

orderVars == <<chainSlot, migrated, emitted, queued, sequence, cursor, token, snap,
               check, prunes, snapshots, fence, proven>>

NoToken == [known |-> FALSE, lastSlot |-> 0, reserveSlot |-> 0, at |-> 0,
            pool |-> CURVE, verified |-> FALSE, shown |-> 0]
NoSnap == [pc |-> "none", pool |-> CURVE, slot |-> 0, min |-> 0]
NoCursor == [slot |-> 0, seq |-> 0]

OrderInit ==
    /\ chainSlot = 1 /\ migrated = FALSE
    /\ emitted = {} /\ queued = {} /\ sequence = 0
    /\ cursor = NoCursor /\ token = NoToken
    /\ snap = NoSnap /\ check = 0 /\ prunes = 0 /\ snapshots = 0
    /\ fence = NoCursor /\ proven = 0

Larger(a, b) == IF a > b THEN a ELSE b
LockFree == snap.pc # "applied"

----------------------------------------------------------------------------
\* The chain: trades on the curve until it migrates, on pools afterwards.
ChainTrades(v) ==
    /\ v = CURVE <=> ~migrated
    /\ [slot |-> chainSlot, venue |-> v] \notin emitted
    /\ emitted' = emitted \cup {[slot |-> chainSlot, venue |-> v]}
    /\ UNCHANGED <<chainSlot, migrated, queued, sequence, cursor, token, snap, check,
                   prunes, snapshots, fence, proven>>

ChainAdvances(migrates) ==
    /\ chainSlot < MaxSlot \/ (migrates /\ ~migrated)
    /\ chainSlot' = IF chainSlot < MaxSlot THEN chainSlot + 1 ELSE chainSlot
    /\ migrated' = (migrated \/ migrates)
    /\ UNCHANGED <<emitted, queued, sequence, cursor, token, snap, check, prunes,
                   snapshots, fence, proven>>

\* enqueue_event: any emitted row, in any order and any number of times.
Receive(r) ==
    /\ sequence < MaxDeliveries
    /\ sequence' = sequence + 1
    /\ queued' = queued \cup {[slot |-> r.slot, venue |-> r.venue, seq |-> sequence + 1]}
    /\ UNCHANGED <<chainSlot, migrated, emitted, cursor, token, snap, check, prunes,
                   snapshots, fence, proven>>

----------------------------------------------------------------------------
\* _accept_event_order: a row of an older slot is reordered; in the same slot the
\* sequence must grow and the row may not predate what the token shows.
AcceptedInOrder(e) ==
    LET stateSlot == Larger(token.lastSlot, token.reserveSlot)
        last == IF stateSlot > cursor.slot THEN [slot |-> stateSlot, seq |-> 0] ELSE cursor
        same == last.slot = 0 \/ e.slot = last.slot
    IN ~ (\/ last.slot > 0 /\ e.slot < last.slot
          \/ same /\ (e.seq <= last.seq \/ (token.known /\ e.seq < token.at)))

\* The cursor after an accepted row.
CursorAfter(e) ==
    LET lastSlot == Larger(cursor.slot, Larger(token.lastSlot, token.reserveSlot))
    IN [slot |-> Larger(e.slot, lastSlot), seq |-> e.seq]

\* _event_regresses_verified_route
RegressesRoute(e) == token.verified /\ token.pool # CURVE /\ e.venue = CURVE

\* FeatureEngine.apply: the row's reserves are shown; an AMM row of another pool moves
\* the token there, unverified.
Applied(e) ==
    [known |-> TRUE,
     lastSlot |-> Larger(token.lastSlot, e.slot),
     reserveSlot |-> Larger(token.reserveSlot, e.slot),
     at |-> Larger(token.at, e.seq),
     pool |-> IF e.venue = CURVE THEN token.pool ELSE e.venue,
     verified |-> token.verified /\ e.venue \in {CURVE, token.pool},
     shown |-> e.slot]

\* _handle_persisted_event under the event lock.
HandleRow(e) ==
    /\ LockFree
    /\ queued' = queued \ {e}
    /\ IF RegressesRoute(e) \/ ~AcceptedInOrder(e)
       THEN UNCHANGED <<cursor, token>>
       ELSE cursor' = CursorAfter(e) /\ token' = Applied(e)
    /\ UNCHANGED <<chainSlot, migrated, emitted, sequence, snap, check, prunes,
                   snapshots, fence, proven>>

----------------------------------------------------------------------------
\* The watchdog captures the route and asks for accounts no older than the token.
RequestSnapshot ==
    /\ snap.pc = "none" /\ snapshots < MaxSnapshots /\ token.known
    /\ snapshots' = snapshots + 1
    /\ snap' = [pc |-> "asked", pool |-> token.pool, slot |-> 0,
                min |-> Larger(token.lastSlot, token.reserveSlot)]
    /\ UNCHANGED <<chainSlot, migrated, emitted, queued, sequence, cursor, token, check,
                   prunes, fence, proven>>

\* The provider answers with the accounts of a slot that may already be old.
AnswerSnapshot(s) ==
    /\ snap.pc = "asked" /\ s >= snap.min
    /\ snap' = [snap EXCEPT !.pc = "answered", !.slot = s]
    /\ UNCHANGED <<chainSlot, migrated, emitted, queued, sequence, cursor, token, check,
                   prunes, snapshots, fence, proven>>

\* Mutant: an answer older than the rows handled meanwhile is applied as well.
ApplyAnySnapshot ==
    /\ snap.pc = "answered"
    /\ IF token.known /\ token.pool = snap.pool
       THEN /\ token' = [token EXCEPT !.reserveSlot = snap.slot, !.shown = snap.slot,
                             !.at = Larger(@, sequence),
                             !.verified = @ \/ token.pool # CURVE]
            /\ snap' = [snap EXCEPT !.pc = "applied"]
            /\ proven' = IF token.pool # CURVE THEN token.pool ELSE proven
       ELSE snap' = NoSnap /\ UNCHANGED <<token, proven>>
    /\ UNCHANGED <<chainSlot, migrated, emitted, queued, sequence, cursor, check, prunes,
                   snapshots, fence>>

\* apply_validated_watchdog_snapshot, in a thread under the event lock.
ApplySnapshot ==
    /\ snap.pc = "answered"
    /\ IF /\ token.known /\ token.pool = snap.pool
          /\ snap.slot >= token.lastSlot /\ snap.slot > token.reserveSlot
       THEN /\ token' = [token EXCEPT !.reserveSlot = snap.slot, !.shown = snap.slot,
                             !.at = Larger(@, sequence),
                             !.verified = @ \/ token.pool # CURVE]
            /\ snap' = [snap EXCEPT !.pc = "applied"]
            /\ proven' = IF token.pool # CURVE THEN token.pool ELSE proven
       ELSE snap' = NoSnap /\ UNCHANGED <<token, proven>>
    /\ UNCHANGED <<chainSlot, migrated, emitted, queued, sequence, cursor, check, prunes,
                   snapshots, fence>>

\* Mutant: a boundary in the slot of the cursor does not raise its sequence.
FenceNewSlotsOnly ==
    /\ snap.pc = "applied"
    /\ cursor' = IF snap.slot > cursor.slot THEN [slot |-> snap.slot, seq |-> 0] ELSE cursor
    /\ fence' = [slot |-> snap.slot, seq |-> sequence]
    /\ snap' = NoSnap
    /\ UNCHANGED <<chainSlot, migrated, emitted, queued, sequence, token, check, prunes,
                   snapshots, proven>>

\* _advance_event_order_boundary: every row received by now is behind the snapshot.
FenceSnapshot ==
    /\ snap.pc = "applied"
    /\ cursor' = IF snap.slot > cursor.slot THEN [slot |-> snap.slot, seq |-> sequence]
                 ELSE IF snap.slot = cursor.slot
                 THEN [cursor EXCEPT !.seq = Larger(@, sequence)] ELSE cursor
    /\ fence' = [slot |-> snap.slot, seq |-> sequence]
    /\ snap' = NoSnap
    /\ UNCHANGED <<chainSlot, migrated, emitted, queued, sequence, token, check, prunes,
                   snapshots, proven>>

----------------------------------------------------------------------------
\* A pool's account is requested to verify the token's route.
RequestRoute ==
    /\ check = 0 /\ token.known /\ token.pool # CURVE /\ ~token.verified
    /\ check' = token.pool
    /\ UNCHANGED <<chainSlot, migrated, emitted, queued, sequence, cursor, token, snap,
                   prunes, snapshots, fence, proven>>

\* Mutant: the answer confirms the route the token has now, not the one asked about.
ConfirmCurrent(ok) ==
    /\ check # 0 /\ LockFree
    /\ IF ok /\ token.known /\ token.pool # CURVE
       THEN token' = [token EXCEPT !.verified = TRUE] /\ proven' = check
       ELSE UNCHANGED <<token, proven>>
    /\ check' = 0
    /\ UNCHANGED <<chainSlot, migrated, emitted, queued, sequence, cursor, snap, prunes,
                   snapshots, fence>>

\* confirm_pumpswap_route when the answer comes back.
ConfirmRoute(ok) ==
    /\ check # 0 /\ LockFree
    /\ IF ok /\ token.known /\ token.pool = check
       THEN token' = [token EXCEPT !.verified = TRUE] /\ proven' = check
       ELSE UNCHANGED <<token, proven>>
    /\ check' = 0
    /\ UNCHANGED <<chainSlot, migrated, emitted, queued, sequence, cursor, snap, prunes,
                   snapshots, fence>>

\* _prepare_enrichment forgets an inactive token together with its cursor.
PruneToken ==
    /\ LockFree /\ token.known /\ prunes < MaxPrunes
    /\ prunes' = prunes + 1
    /\ token' = NoToken /\ cursor' = NoCursor
    /\ fence' = NoCursor /\ proven' = 0
    /\ UNCHANGED <<chainSlot, migrated, emitted, queued, sequence, snap, check, snapshots>>

OrderNext ==
    \/ \E v \in Venues : ChainTrades(v)
    \/ \E migrates \in BOOLEAN : ChainAdvances(migrates)
    \/ \E r \in emitted : Receive(r)
    \/ \E e \in queued : HandleRow(e)
    \/ RequestSnapshot \/ ApplySnapshot \/ FenceSnapshot
    \/ \E s \in 1..chainSlot : AnswerSnapshot(s)
    \/ RequestRoute \/ \E ok \in BOOLEAN : ConfirmRoute(ok)
    \/ PruneToken

OrderSpec == OrderInit /\ [][OrderNext]_orderVars

----------------------------------------------------------------------------
OrderTypeOK ==
    /\ chainSlot \in 1..MaxSlot /\ migrated \in BOOLEAN
    /\ emitted \subseteq [slot : 1..MaxSlot, venue : Venues]
    /\ queued \subseteq [slot : 1..MaxSlot, venue : Venues, seq : 1..MaxDeliveries]
    /\ token.shown \in 0..MaxSlot /\ token.pool \in Venues /\ cursor.slot \in 0..MaxSlot
    /\ snap.pc \in {"none", "asked", "answered", "applied"} /\ check \in Venues

\* What a token shows never comes from an older slot than what it showed before, whatever
\* mix of late rows, repeated rows and RPC answers is applied (orchestrator.py 1226-1278,
\* features.py 595-612).
ShownNeverRegresses ==
    [][(token.known /\ token'.known) => token'.shown >= token.shown]_orderVars

\* Once a snapshot is applied, no row of its slot or an older one that had been received by
\* then changes the token (orchestrator.py 5139-5148), rows received while the snapshot was
\* being decoded included.
SnapshotFencesQueue ==
    [][\A e \in queued : (e \notin queued' /\ token' # token /\ snap' = snap)
            => (e.slot > fence.slot \/ e.seq > fence.seq)]_orderVars

\* A verified route is the pool that an account answer proved for this token (features.py
\* 510-536), not another pool that a row introduced while the answer was on its way.
VerifiedIsProven == token.verified => token.pool = proven

\* What the engine shows of a token follows the chain: never an older slot after a newer one,
\* never a row the snapshot already contains, never a route proved for another pool
\* (orchestrator.py 1226-1310, 4198-4290, 5139-5148).
TokenFollowsChain ==
    /\ []OrderTypeOK
    /\ []VerifiedIsProven
    /\ ShownNeverRegresses
    /\ SnapshotFencesQueue
=============================================================================
