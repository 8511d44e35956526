----------------------------- MODULE PaperBroker -----------------------------
(***************************************************************************)
(* paper/broker.py over database.py: orders, fills, positions and the      *)
(* double-entry ledger of one paper season.                                *)
(*                                                                         *)
(* Broker calls are serialised by the orchestrator's _event_lock, so two   *)
(* calls never interleave.  What can go wrong is inside one call: it makes *)
(* several SQLite transactions, the process may die between two of them    *)
(* (CrashRestart), and any of them may raise and unwind the call           *)
(* (FaultySeasons), leaving memory and disk where that write found them.   *)
(* A call is therefore a plan, the steps it still has to make; each step   *)
(* makes at most one transaction that matters.                             *)
(*                                                                         *)
(* Timestamps are small numbers chosen by the caller: `now' is event time, *)
(* and a delayed event carries an older one than the clock tick before it. *)
(***************************************************************************)
EXTENDS Integers, FiniteSets, Sequences, Functions

CONSTANTS Mints,
          OrderIds,      \* bound: orders per season
          MaxTime,       \* bound: timestamps are 1..MaxTime, 0 is "never"
          MaxSeasons,    \* bound: seasons ever opened
          EntryLatency, ExitLatency, StuckAfter,
          MaxOpen,       \* limits.max_open_positions
          Bankrolls,     \* starting_minor a user may choose
          Costs,         \* required account units of a planned order, one per size and price
          Repriced,      \* a USDC book: an order is priced again when it fills
          BuyTotals,     \* account units a buy quote may come to, fees included
          NetworkFee,    \* its network part
          SellGross, ExitFees,
          FaultySeasons  \* bound: the seasons in which a SQLite write may raise

\* The accounts that are not the inventory of a mint.
BookAccounts == {"cash", "capital", "network_expense", "exit_expense",
                 "realized_gain", "realized_loss"}

ASSUME BrokerAssumption ==
    /\ OrderIds \subseteq Nat /\ IsFiniteSet(OrderIds) /\ IsFiniteSet(Mints)
    /\ MaxTime \in Nat \ {0} /\ MaxSeasons \in Nat
    /\ Mints \cap BookAccounts = {} /\ "none" \notin Mints
    /\ EntryLatency \in Nat /\ ExitLatency \in Nat /\ StuckAfter \in Nat
    /\ MaxOpen \in Nat /\ NetworkFee \in Nat /\ ExitFees \in Nat
    /\ Bankrolls \subseteq Nat \ {0} /\ Costs \subseteq Nat
    /\ Repriced \in BOOLEAN
    /\ \A t \in BuyTotals : t \in Nat /\ t >= NetworkFee
    /\ \A g \in SellGross : g \in Nat /\ g >= ExitFees
    /\ FaultySeasons \subseteq Nat

VARIABLES
    \* SQLite
    season,           \* season_id; 0: portfolio_initialized is false
    opened,           \* seasons opened so far
    locked,           \* profile_locked_at is set: the season has been started
    trading_enabled,
    starting,         \* starting_lamports
    realized_pnl,
    orders,           \* paper_orders
    positions_db,     \* positions
    fills,
    ledger,           \* balance of every account
    unresolved,       \* positions archived with their season, unsold
    \* memory
    running, quarantined,   \* orchestrator: running, _paper_execution_issues # []
    positions, pending, traded_mints,
    call              \* the call in progress

durable == <<season, opened, locked, trading_enabled, starting, realized_pnl,
             orders, positions_db, fills, ledger, unresolved>>
memory == <<running, quarantined, positions, pending, traded_mints>>
vars == <<durable, memory, call>>

Times == 1..MaxTime
Routes == {"active", "exit_blocked", "dormant"}  \* PositionMarketStatus
Accounts == BookAccounts \cup Mints              \* a mint: its account inventory:<mint>

Put(f, x, v) == [y \in DOMAIN f \cup {x} |-> IF y = x THEN v ELSE f[y]]
Drop(f, x) == [y \in DOMAIN f \ {x} |-> f[y]]
Nothing == [x \in {} |-> 0]

cash_lamports == ledger["cash"]
PendingOn(side) == {o \in DOMAIN pending : pending[o].side = side}
has_pending_for(m, sides) == \E o \in DOMAIN pending : pending[o].mint = m /\ pending[o].side \in sides
Reserved == SumFunctionOnSet([o \in DOMAIN pending |-> pending[o].reserved], PendingOn("buy"))

\* The uuid of the next order, lowest first.
FreshOrders ==
    LET used == DOMAIN orders \cup DOMAIN pending
    IN  {o \in OrderIds \ used : \A p \in OrderIds \ used : o <= p}

NewOrder(m, side, now, latency, reserved) ==
    [mint |-> m, side |-> side, created |-> now, after |-> now + latency,
     reserved |-> reserved, status |-> "pending", filled |-> 0]

EmptyBooks == [a \in Accounts |-> 0]
Funded(start) == [EmptyBooks EXCEPT !["cash"] = start, !["capital"] = -start]

\* What chronology_issues finds wrong with the durable fills.
chronology_issues ==
    {f \in fills :
        \/ f.order \notin DOMAIN orders
        \/ LET o == orders[f.order]
           IN  \/ o.mint # f.mint \/ o.side # f.side
               \/ o.status # "filled" \/ o.filled # f.at
               \/ f.at < o.created \/ f.at < o.after \/ f.reserve > f.at
        \/ /\ f.side = "sell"
           /\ ~\E e \in fills : e.side = "buy" /\ e.mint = f.mint /\ e.at = f.opened /\ e.at <= f.at}

----------------------------------------------------------------------------
(* Calls.                                                                  *)

Idle == [plan |-> <<>>, mint |-> "none", now |-> 1, clock |-> 1,
         reserve |-> 1, route |-> "active", rest |-> {}, order |-> 0, resuming |-> FALSE]

AtRest == call.plan = <<>>
At(step) == call.plan # <<>> /\ Head(call.plan) = step

Continue ==
    /\ call' = IF Tail(call.plan) = <<>> THEN Idle ELSE [call EXCEPT !.plan = Tail(@)]
    /\ UNCHANGED <<running, trading_enabled>>
Repeat == UNCHANGED <<call, running, trading_enabled>>

\* An exception leaves the call.  resume_trading catches it, stops the engine
\* and tries to save that.
Unwind ==
    /\ call' = Idle
    /\ running' = (running /\ ~call.resuming)
    /\ trading_enabled' \in {trading_enabled, trading_enabled /\ ~call.resuming}

\* Any SQLite write of a faulty season may raise.
WriteMayFail == season \in FaultySeasons
Raise == WriteMayFail /\ Unwind

portfolioVars == <<season, opened, locked, starting, unresolved, quarantined>>
bookVars == <<realized_pnl, fills, ledger, traded_mints>>

Init ==
    /\ season = 0 /\ opened = 0 /\ locked = FALSE /\ trading_enabled = FALSE
    /\ starting = 0 /\ realized_pnl = 0
    /\ orders = Nothing /\ positions_db = Nothing /\ fills = {}
    /\ ledger = EmptyBooks /\ unresolved = {}
    /\ running = FALSE /\ quarantined = FALSE
    /\ positions = Nothing /\ pending = Nothing /\ traded_mints = {}
    /\ call = Idle

----------------------------------------------------------------------------
(* Steps shared by the calls.                                              *)

\* A quote-side mark of position p at time t: a stale route only flags it, a
\* quote that cannot be computed only blocks it, and neither moves the mark.
Marks(p, t, route) ==
    IF route = "dormant" THEN {[p EXCEPT !.stale = TRUE, !.executable = FALSE]}
    ELSE {[p EXCEPT !.executable = FALSE],
          [p EXCEPT !.stale = FALSE, !.executable = (route = "active"), !.marked = t]}

\* Mutant: an older observation overwrites a newer mark.
MarkAllowedRegressing(m, t) == m \in DOMAIN positions /\ t >= positions[m].opened

MarkAllowed(m, t) ==
    m \in DOMAIN positions /\ t >= positions[m].opened /\ t >= positions[m].marked

mark_position ==
    /\ At("mark")
    /\ IF MarkAllowed(call.mint, call.reserve)
       THEN \E p \in Marks(positions[call.mint], call.reserve, call.route) :
              /\ positions' = Put(positions, call.mint, p)
              /\ \/ positions_db' = Put(positions_db, call.mint, p) /\ Continue
                 \/ UNCHANGED positions_db /\ Raise
       ELSE UNCHANGED <<positions, positions_db>> /\ Continue
    /\ UNCHANGED <<orders, pending, portfolioVars, bookVars>>

\* Mutant: an exit already in flight is not looked for.
ExitDueAgain(m, now) == m \in DOMAIN positions /\ now >= positions[m].opened

\* Save the exit assessment; on an exit with an executable mark, a sell order.
ExitDue(m, now) ==
    m \in DOMAIN positions /\ ~has_pending_for(m, {"sell"}) /\ now >= positions[m].opened

schedule_exit_if_needed ==
    /\ At("exit")
    /\ \/ /\ ~ExitDue(call.mint, call.now)
          /\ Continue
          /\ UNCHANGED <<positions_db, pending, orders>>
       \/ /\ ExitDue(call.mint, call.now)
          /\ \/ Raise /\ UNCHANGED <<positions_db, pending, orders>>
             \/ /\ positions_db' = Put(positions_db, call.mint, positions[call.mint])
                /\ \/ Continue /\ UNCHANGED <<pending, orders>>
                   \/ /\ positions[call.mint].executable
                      /\ \E o \in FreshOrders :
                           LET new == NewOrder(call.mint, "sell", call.now, ExitLatency, 0)
                           IN  /\ pending' = Put(pending, o, new)
                               /\ \/ orders' = Put(orders, o, new) /\ Continue
                                  \/ UNCHANGED orders /\ Raise
    /\ UNCHANGED <<positions, portfolioVars, bookVars>>

\* Mutant: the order leaves memory before its row is saved.
ResolveMemoryFirst(o, status, now) ==
    /\ pending' = Drop(pending, o)
    /\ \/ /\ orders' = Put(orders, o, [pending[o] EXCEPT !.status = status, !.filled = now])
          /\ Repeat
       \/ Raise /\ UNCHANGED orders

\* _fail_order and the cancellations: the row first, then the memory.
Resolve(o, status, now) ==
    \/ /\ orders' = Put(orders, o, [pending[o] EXCEPT !.status = status, !.filled = now])
       /\ pending' = Drop(pending, o)
       /\ Repeat
    \/ Raise /\ UNCHANGED <<orders, pending>>

expire_stuck_orders ==
    /\ At("expire")
    /\ LET stuck == {o \in DOMAIN pending : call.clock - pending[o].after > StuckAfter}
       IN  IF stuck = {} THEN Continue /\ UNCHANGED <<orders, pending>>
           ELSE \E o \in stuck : Resolve(o, "failed", call.clock)
    /\ UNCHANGED <<positions, positions_db, portfolioVars, bookVars>>

\* Mutant: stopping the engine leaves its entries waiting.
CancelSidesKeepingBuys == [cancel_pending_orders |-> {"sell"},
                           cancel_pending_buys |-> {"buy"}, cancel_pending_sells |-> {"sell"}]

\* cancel_pending_orders, cancel_pending_buys, cancel_pending_sells.
CancelSides == [cancel_pending_orders |-> {"buy", "sell"},
                cancel_pending_buys |-> {"buy"}, cancel_pending_sells |-> {"sell"}]
cancel_pending ==
    \E step \in DOMAIN CancelSides :
       /\ At(step)
       /\ LET doomed == {o \in DOMAIN pending : pending[o].side \in CancelSides[step]}
          IN  IF doomed = {} THEN Continue /\ UNCHANGED <<orders, pending>>
              ELSE \E o \in doomed : Resolve(o, "cancelled", call.clock)
       /\ UNCHANGED <<positions, positions_db, portfolioVars, bookVars>>

----------------------------------------------------------------------------
(* Filling due orders.                                                     *)

\* Mutant: the latency and the position's opening are not awaited.
DueEarly(o) ==
    /\ pending[o].mint = call.mint
    /\ call.now >= pending[o].created
    /\ call.reserve <= call.now
    /\ pending[o].side = "sell" => call.route = "active"
    /\ pending[o].side = "buy" => call.route # "dormant"

Due(o) ==
    /\ pending[o].mint = call.mint
    /\ call.now >= pending[o].created /\ call.now >= pending[o].after
    /\ call.reserve <= call.now
    /\ pending[o].side = "sell" =>
         /\ call.route = "active"
         /\ call.mint \in DOMAIN positions => call.now >= positions[call.mint].opened
    /\ pending[o].side = "buy" => call.route # "dormant"

\* A mark older than position_mark_stale_seconds counts as dormant too: `aged'.
CapacityPositions(aged) == {m \in DOMAIN positions \ aged : ~positions[m].stale}

\* Mutant: limits and cash are not rechecked at the fill.
FillFundedUnchecked(required, total, aged) == total <= required

\* What _pending_buy_fill_blocker and _fill leave standing: the portfolio slot
\* and the cash, at the price of this moment.
FillFunded(required, total, aged) ==
    /\ Cardinality(CapacityPositions(aged)) < MaxOpen
    /\ required <= cash_lamports
    /\ total <= required /\ total <= cash_lamports

\* Mutant: the network fee is booked as inventory and as expense.
BuyEntriesFeeTwice(m, total) ==
    [ledger EXCEPT ![m] = @ + total, !["network_expense"] = @ + NetworkFee, !["cash"] = @ - total]

\* _account_buy's ledger entries.
BuyEntries(m, total) ==
    [ledger EXCEPT ![m] = @ + (total - NetworkFee),
                   !["network_expense"] = @ + NetworkFee,
                   !["cash"] = @ - total]

\* Mutant: book value computed the wrong way round.
OpenedPositionSwapped(total) ==
    [cost |-> total, book |-> NetworkFee - total, opened |-> call.now,
     marked |-> 0, stale |-> TRUE, executable |-> FALSE]

OpenedPosition(total) ==
    [cost |-> total, book |-> total - NetworkFee, opened |-> call.now,
     marked |-> 0, stale |-> TRUE, executable |-> FALSE]

\* commit_buy_fill in one transaction, then memory.  The order leaves
\* `pending' only after the entry mark.
CommitBuy(o, total) ==
    LET m == call.mint
        p == OpenedPosition(total)
    IN  /\ orders' = Put(orders, o, [pending[o] EXCEPT !.status = "filled", !.filled = call.now])
        /\ fills' = fills \cup {[order |-> o, mint |-> m, side |-> "buy", at |-> call.now,
                                 reserve |-> call.reserve, opened |-> call.now]}
        /\ ledger' = BuyEntries(m, total)
        /\ positions_db' = Put(positions_db, m, p)
        /\ positions' = Put(positions, m, p)
        /\ traded_mints' = traded_mints \cup {m}
        /\ call' = [call EXCEPT !.plan = <<"entry_mark">> \o @, !.order = o]
        /\ UNCHANGED <<running, trading_enabled, realized_pnl>>

\* _require_pending_order, without which a commit raises.
StillPending(o) == o \in DOMAIN orders /\ orders[o].status = "pending"

\* required at the fill: _account_minor_from_sol of the same lamports, which a
\* SOL book returns unchanged.
RequiredAtFill(o) == IF Repriced THEN Costs ELSE {pending[o].reserved}

fill_buy ==
    /\ At("fill")
    /\ \E o \in PendingOn("buy") :
         /\ Due(o)
         /\ \/ /\ Resolve(o, "failed", call.now)   \* a blocker, or no quote
               /\ UNCHANGED <<positions, positions_db, bookVars>>
            \/ \E required \in RequiredAtFill(o), total \in BuyTotals, aged \in SUBSET DOMAIN positions :
                 /\ FillFunded(required, total, aged)
                 /\ \/ /\ StillPending(o) /\ call.mint \notin DOMAIN positions_db
                       /\ CommitBuy(o, total)
                       /\ UNCHANGED pending
                    \/ /\ StillPending(o) /\ call.mint \notin DOMAIN positions_db => WriteMayFail
                       /\ Unwind
                       /\ UNCHANGED <<orders, pending, positions, positions_db, bookVars>>
    /\ UNCHANGED portfolioVars

entry_mark ==
    /\ At("entry_mark")
    /\ \E p \in Marks(positions[call.mint], call.now, call.route) :
         /\ positions' = Put(positions, call.mint, p)
         /\ \/ /\ positions_db' = Put(positions_db, call.mint, p)
               /\ pending' = Drop(pending, call.order)
               /\ Continue
            \/ UNCHANGED <<positions_db, pending>> /\ Raise
    /\ UNCHANGED <<orders, portfolioVars, bookVars>>

\* _account_sell's ledger entries.
SellEntries(m, gross) ==
    LET book == positions[m].book
        gain == IF gross >= book THEN gross - book ELSE 0
        loss == IF gross >= book THEN 0 ELSE book - gross
    IN  [ledger EXCEPT !["cash"] = @ + (gross - ExitFees),
                       !["exit_expense"] = @ + ExitFees,
                       ![m] = @ - book,
                       !["realized_gain"] = @ - gain,
                       !["realized_loss"] = @ + loss]

\* commit_sell_fill in one transaction, then memory.
CommitSell(o, gross) ==
    LET m == call.mint
    IN  /\ orders' = Put(orders, o, [pending[o] EXCEPT !.status = "filled", !.filled = call.now])
        /\ fills' = fills \cup {[order |-> o, mint |-> m, side |-> "sell", at |-> call.now,
                                 reserve |-> call.reserve, opened |-> positions[m].opened]}
        /\ ledger' = SellEntries(m, gross)
        /\ realized_pnl' = realized_pnl + (gross - ExitFees) - positions[m].cost
        /\ positions_db' = Drop(positions_db, m)
        /\ positions' = Drop(positions, m)
        /\ pending' = Drop(pending, o)
        /\ UNCHANGED traded_mints
        /\ Repeat

fill_sell ==
    /\ At("fill")
    /\ \E o \in PendingOn("sell") :
         /\ Due(o)
         /\ \/ /\ Resolve(o, "failed", call.now)   \* no position, or no quote
               /\ UNCHANGED <<positions, positions_db, bookVars>>
            \/ /\ call.mint \in DOMAIN positions
               /\ \E gross \in SellGross :
                    \/ /\ StillPending(o) /\ call.mint \in DOMAIN positions_db
                       /\ CommitSell(o, gross)
                    \/ /\ StillPending(o) /\ call.mint \in DOMAIN positions_db => WriteMayFail
                       /\ Unwind
                       /\ UNCHANGED <<orders, pending, positions, positions_db, bookVars>>
    /\ UNCHANGED portfolioVars

\* No sell is left that this market state can fill; a buy may be, when one of
\* UNFILLABLE_BUY_FLAGS is set.
fill_done ==
    /\ At("fill")
    /\ \A o \in PendingOn("sell") : ~Due(o)
    /\ Continue
    /\ UNCHANGED <<orders, pending, positions, positions_db, portfolioVars, bookVars>>

----------------------------------------------------------------------------
(* The calls.                                                              *)

brokerVars == <<orders, positions_db, positions, pending, portfolioVars, bookVars>>

\* Mutants: pending reservations are not deducted; the re-entry guard is missing.
EntryAllowedUnreserved(m, required, aged) ==
    /\ m \notin traded_mints
    /\ m \notin DOMAIN positions
    /\ ~has_pending_for(m, {"buy", "sell"})
    /\ Cardinality(CapacityPositions(aged)) + Cardinality(PendingOn("buy")) < MaxOpen
    /\ required <= cash_lamports

EntryAllowedReentry(m, required, aged) ==
    /\ m \notin DOMAIN positions
    /\ ~has_pending_for(m, {"buy", "sell"})
    /\ Cardinality(CapacityPositions(aged)) + Cardinality(PendingOn("buy")) < MaxOpen
    /\ required <= cash_lamports - Reserved

\* _entry_assessment.  A drawdown, exposure or provenance refusal changes
\* nothing: the submission is then not taken.
EntryAllowed(m, required, aged) ==
    /\ m \notin traded_mints
    /\ m \notin DOMAIN positions
    /\ ~has_pending_for(m, {"buy", "sell"})
    /\ Cardinality(CapacityPositions(aged)) + Cardinality(PendingOn("buy")) < MaxOpen
    /\ required <= cash_lamports - Reserved

submit_decision_with_reason ==
    /\ AtRest /\ running /\ season # 0
    /\ \E m \in Mints, now \in Times, required \in Costs, aged \in SUBSET DOMAIN positions,
          o \in FreshOrders :
         LET new == NewOrder(m, "buy", now, EntryLatency, required)
         IN  /\ EntryAllowed(m, required, aged)
             /\ pending' = Put(pending, o, new)
             /\ \/ orders' = Put(orders, o, new) /\ UNCHANGED <<call, running, trading_enabled>>
                \/ UNCHANGED orders /\ Raise
    /\ UNCHANGED <<positions_db, positions, portfolioVars, bookVars>>

Tracked == DOMAIN positions \cup {pending[o].mint : o \in DOMAIN pending}

\* A trade of a held or pending mint; the reserve is never newer than `now'.
\* A stopped engine takes it too while a profile transition manages exits.
on_market_state ==
    /\ AtRest /\ (running \/ locked)
    /\ \E m \in Tracked, now \in Times, route \in Routes : \E reserve \in 1..now :
         call' = [Idle EXCEPT !.plan = <<"mark", "exit", "fill", "expire">>, !.mint = m,
                              !.now = now, !.clock = now, !.reserve = reserve, !.route = route]
    /\ UNCHANGED <<running, trading_enabled, brokerVars>>

\* The same while the engine is stopped: only the mark.
observe_market_state ==
    /\ AtRest /\ ~running
    /\ \E m \in DOMAIN positions, now \in Times, route \in Routes : \E reserve \in 1..now :
         call' = [Idle EXCEPT !.plan = <<"mark">>, !.mint = m,
                              !.now = now, !.clock = now, !.reserve = reserve, !.route = route]
    /\ UNCHANGED <<running, trading_enabled, brokerVars>>

\* One clock tick: every tracked mint, then the stuck orders.
heartbeat_tick ==
    /\ AtRest
    /\ \E now \in Times, plan \in {<<"each", "expire">>, <<"expire">>} :
         /\ plan = <<"expire">> => ~running
         /\ plan # <<"expire">> => running \/ locked
         /\ call' = [Idle EXCEPT !.plan = plan, !.now = now, !.clock = now, !.rest = Tracked]
    /\ UNCHANGED <<running, trading_enabled, brokerVars>>

\* reassess_and_process_due_orders for the next mint of a tick at
\* market_now, reassess_position for the next of a resume; a mint without
\* market state is skipped.
next_mint ==
    /\ At("each")
    /\ \/ call.rest = {} /\ Continue
       \/ \E m \in call.rest, route \in Routes, reserve \in Times, known \in BOOLEAN :
            /\ call.resuming => route # "dormant"
            /\ call' = [call EXCEPT
                 !.plan = IF ~known THEN @
                          ELSE IF call.resuming THEN <<"mark", "exit">> \o @
                          ELSE <<"mark", "exit", "fill">> \o @,
                 !.rest = @ \ {m}, !.mint = m, !.route = route, !.reserve = reserve,
                 !.now = IF ~call.resuming /\ reserve > call.clock THEN reserve ELSE call.clock]
            /\ UNCHANGED <<running, trading_enabled>>
    /\ UNCHANGED brokerVars

resume_trading ==
    /\ AtRest /\ season # 0 /\ ~running /\ ~quarantined
    /\ locked' = TRUE /\ running' = TRUE /\ trading_enabled' = TRUE
    /\ \E now \in Times :
         call' = [Idle EXCEPT !.plan = <<"each">>, !.now = now, !.clock = now,
                              !.rest = DOMAIN positions, !.resuming = TRUE]
    /\ UNCHANGED <<orders, positions_db, positions, pending, bookVars,
                   season, opened, starting, unresolved, quarantined>>

pause_trading ==
    /\ AtRest
    /\ running' = FALSE /\ trading_enabled' = FALSE
    /\ call' = [Idle EXCEPT !.plan = <<"cancel_pending_orders">>]
    /\ UNCHANGED brokerVars

\* A started season changes its profile: entries are cancelled, then the
\* engine is stopped and only exits are managed.
request_season_profile ==
    /\ AtRest /\ season # 0 /\ locked
    /\ call' = [Idle EXCEPT !.plan = <<"cancel_pending_buys", "freeze">>]
    /\ UNCHANGED <<running, trading_enabled, brokerVars>>

freeze_entries ==
    /\ At("freeze")
    /\ running' = FALSE /\ trading_enabled' = FALSE
    /\ call' = Idle
    /\ UNCHANGED brokerVars

\* A manual transition asks for exits until its deadline, then retires the
\* ones that did not fill.
profile_transition_tick ==
    /\ AtRest /\ season # 0 /\ locked /\ ~running
    /\ \E now \in Times, step \in {"cancel_pending_sells", "profile_exits"} :
         call' = [Idle EXCEPT !.plan = <<step>>, !.now = now, !.clock = now]
    /\ UNCHANGED <<running, trading_enabled, brokerVars>>

\* An exit for each position with a fresh executable route (a mark that has
\* aged is not fresh: the step may stop early).
schedule_profile_transition_exits ==
    /\ At("profile_exits")
    /\ \/ Continue /\ UNCHANGED <<pending, orders>>
       \/ \E m \in DOMAIN positions, o \in FreshOrders :
            LET new == NewOrder(m, "sell", call.now, ExitLatency, 0)
            IN  /\ positions[m].executable /\ ~positions[m].stale
                /\ ~has_pending_for(m, {"sell"})
                /\ pending' = Put(pending, o, new)
                /\ \/ orders' = Put(orders, o, new) /\ Repeat
                   \/ UNCHANGED orders /\ Raise
    /\ UNCHANGED <<positions, positions_db, portfolioVars, bookVars>>

----------------------------------------------------------------------------
(* Seasons.                                                                *)

\* initialize_portfolio, then the orchestrator's settings.
initialize ==
    /\ AtRest /\ season = 0 /\ opened < MaxSeasons
    /\ \E start \in Bankrolls : starting' = start /\ ledger' = Funded(start)
    /\ season' = opened + 1 /\ opened' = opened + 1 /\ locked' = FALSE
    /\ realized_pnl' = 0
    /\ running' = FALSE /\ trading_enabled' = FALSE /\ quarantined' = FALSE
    /\ UNCHANGED <<orders, positions_db, fills, unresolved, positions, pending, traded_mints, call>>

reconfigure_unstarted ==
    /\ AtRest /\ season # 0 /\ ~locked
    /\ DOMAIN positions = {} /\ DOMAIN pending = {}
    /\ fills = {} /\ DOMAIN orders = {} /\ DOMAIN positions_db = {}
    /\ \E start \in Bankrolls : starting' = start /\ ledger' = Funded(start)
    /\ realized_pnl' = 0
    /\ UNCHANGED <<season, opened, locked, trading_enabled, orders, positions_db, fills,
                   unresolved, memory, call>>

\* Mutants: dormant holdings are not archived; the realised result is carried over.
ArchiveAndClearActiveOnly ==
    /\ unresolved' = unresolved \cup {<<season, m>> : m \in CapacityPositions({})}
    /\ orders' = Nothing /\ positions_db' = Nothing /\ fills' = {} /\ realized_pnl' = 0
    /\ positions' = Nothing /\ pending' = Nothing /\ traded_mints' = {}

ArchiveAndClearKeepingPnl ==
    /\ unresolved' = unresolved \cup {<<season, m>> : m \in DOMAIN positions}
    /\ orders' = Nothing /\ positions_db' = Nothing /\ fills' = {} /\ UNCHANGED realized_pnl
    /\ positions' = Nothing /\ pending' = Nothing /\ traded_mints' = {}

\* _archive_active_season and _clear_paper_tables, then the memory: every
\* position still open becomes an unresolved record of its season.
ArchiveAndClear ==
    /\ unresolved' = unresolved \cup {<<season, m>> : m \in DOMAIN positions}
    /\ orders' = Nothing /\ positions_db' = Nothing /\ fills' = {} /\ realized_pnl' = 0
    /\ positions' = Nothing /\ pending' = Nothing /\ traded_mints' = {}

\* reset_portfolio, after its pause.
reset ==
    /\ AtRest /\ season # 0 /\ ~running
    /\ ArchiveAndClear
    /\ season' = 0 /\ starting' = 0 /\ locked' = FALSE /\ ledger' = EmptyBooks
    /\ trading_enabled' = FALSE /\ quarantined' = FALSE
    /\ UNCHANGED <<opened, running, call>>

\* The automatic successor of a running season, or the end of a profile
\* transition, which restores the engine's previous state.
rollover ==
    /\ AtRest /\ season # 0 /\ locked /\ opened < MaxSeasons
    /\ DOMAIN pending = {}
    /\ ArchiveAndClear
    /\ season' = opened + 1 /\ opened' = opened + 1
    /\ \E start \in Bankrolls : starting' = start /\ ledger' = Funded(start)
    /\ running => ~quarantined
    /\ \E next_running \in BOOLEAN :
         /\ running => next_running
         /\ locked' = next_running /\ running' = next_running /\ trading_enabled' = next_running
    /\ UNCHANGED <<quarantined, call>>

\* The process dies at any point; the next one loads the database.  If the
\* engine is not to run it cancels what was pending; if it finds a profile
\* transition it cancels the entries only, and stops.
Recovered == [o \in {i \in DOMAIN orders : orders[i].status = "pending"} |-> orders[o]]

CrashRestart ==
    /\ positions' = positions_db
    /\ pending' = Recovered
    /\ traded_mints' = {f.mint : f \in {g \in fills : g.side = "buy"}}
    /\ quarantined' = (chronology_issues # {})
    /\ \E transition \in BOOLEAN :
         /\ transition => season # 0 /\ locked
         /\ running' = (~transition /\ trading_enabled /\ season # 0 /\ chronology_issues = {})
         /\ call' = IF running' THEN Idle
                    ELSE [Idle EXCEPT !.plan = IF transition THEN <<"cancel_pending_buys">>
                                               ELSE <<"cancel_pending_orders">>]
    /\ trading_enabled' = running'
    /\ UNCHANGED <<season, opened, locked, starting, realized_pnl, orders, positions_db, fills,
                   ledger, unresolved>>

Next ==
    \/ mark_position \/ schedule_exit_if_needed \/ expire_stuck_orders \/ cancel_pending
    \/ fill_buy \/ entry_mark \/ fill_sell \/ fill_done
    \/ submit_decision_with_reason \/ on_market_state \/ observe_market_state
    \/ heartbeat_tick \/ next_mint \/ resume_trading \/ pause_trading
    \/ request_season_profile \/ freeze_entries
    \/ profile_transition_tick \/ schedule_profile_transition_exits
    \/ initialize \/ reconfigure_unstarted \/ reset \/ rollover
    \/ CrashRestart

Spec == Init /\ [][Next]_vars

----------------------------------------------------------------------------
(* Properties.                                                             *)

OrderType ==
    [mint : Mints, side : {"buy", "sell"}, created : Times, after : Nat, reserved : Nat,
     status : {"pending", "filled", "failed", "cancelled"}, filled : 0..MaxTime]
PositionType ==
    [cost : Nat, book : Nat, opened : Times, marked : 0..MaxTime,
     stale : BOOLEAN, executable : BOOLEAN]
FillType ==
    [order : OrderIds, mint : Mints, side : {"buy", "sell"}, at : Times, reserve : Times,
     opened : Times]
CallType ==
    [plan : Seq({"mark", "exit", "fill", "entry_mark", "expire", "each", "freeze", "profile_exits"}
                \cup DOMAIN CancelSides),
     mint : Mints \cup {"none"}, now : Times, clock : Times, reserve : Times, route : Routes,
     rest : SUBSET Mints, order : OrderIds \cup {0}, resuming : BOOLEAN]
PartialFunction(f, S, T) == DOMAIN f \subseteq S /\ \A x \in DOMAIN f : f[x] \in T

\* Every variable has its type.
BrokerTypeOK ==
    /\ season \in 0..opened /\ opened \in 0..MaxSeasons
    /\ locked \in BOOLEAN /\ trading_enabled \in BOOLEAN
    /\ running \in BOOLEAN /\ quarantined \in BOOLEAN
    /\ starting \in Nat /\ realized_pnl \in Int
    /\ PartialFunction(orders, OrderIds, OrderType)
    /\ PartialFunction(pending, OrderIds, OrderType)
    /\ PartialFunction(positions, Mints, PositionType)
    /\ PartialFunction(positions_db, Mints, PositionType)
    /\ fills \subseteq FillType
    /\ ledger \in [Accounts -> Int]
    /\ unresolved \subseteq (1..MaxSeasons) \X Mints
    /\ traded_mints \subseteq Mints
    /\ call \in CallType

\* Each inventory account carries exactly the book value of its open position.
InventoryAtBook ==
    \A m \in Mints : ledger[m] = IF m \in DOMAIN positions_db THEN positions_db[m].book ELSE 0

\* The double-entry books agree with the portfolio at every transaction
\* boundary, whatever crash or failed write came before: cash is the bankroll
\* plus the realised result less what the open positions cost, each inventory
\* account carries exactly the book value of its open position, and all
\* accounts sum to zero.
BooksReconcile ==
    /\ cash_lamports = starting + realized_pnl
                       - SumFunction([m \in DOMAIN positions_db |-> positions_db[m].cost])
    /\ InventoryAtBook
    /\ SumFunction(ledger) = 0

\* Paper cash never goes below zero, also when the SOL/USDC price moved
\* between the reservation and the fill (the recheck of _fill).
CashNeverNegative == cash_lamports >= 0

\* In a SOL book the pending buys are funded all together: what they reserve
\* is still there, whatever their sizes and whatever filled, failed or was
\* restored meanwhile, as long as no write failed.
ReservationsFunded == AtRest /\ ~Repriced /\ ~WriteMayFail => Reserved <= cash_lamports

\* A mint is entered at most once in a season (the re-entry guard
\* traded_mints, rebuilt from the fills by a restart).
OneEntryPerMint ==
    \A f, g \in fills : f.side = "buy" /\ g.side = "buy" /\ f.mint = g.mint => f = g

\* Between calls memory is what a restart would load, up to orders that only
\* memory knows: the same positions, the same re-entry guard, and no durable
\* pending order that the broker has stopped watching (it could neither fill
\* nor expire, and would come back with the next restart).
MemoryFollowsDatabase ==
    AtRest => /\ DOMAIN positions = DOMAIN positions_db
              /\ \A m \in DOMAIN positions : positions[m].opened = positions_db[m].opened
              /\ traded_mints = {f.mint : f \in {g \in fills : g.side = "buy"}}
              /\ DOMAIN Recovered \subseteq DOMAIN pending

\* Each position has at most one exit in flight, and an exit is in flight only
\* for a position that is open, so that no sell is filled twice.
OneExitInFlight ==
    \A o \in PendingOn("sell") :
        /\ pending[o].mint \in DOMAIN positions
        /\ \A q \in PendingOn("sell") : pending[q].mint = pending[o].mint => q = o

\* No durable fill is one that fill_chronology_reason would report: its order
\* row is filled at the same instant, it does not precede its order, the
\* latency, its reserve observation or the entry it closes.
FillsAuditClean == chronology_issues = {}

\* While writes succeed a stopped engine has no entry waiting, through set-up,
\* pauses, profile transitions, rollovers and resets, even if it died between
\* saving that it stops and cancelling (orchestrator.py 7335-7424, broker.py
\* 2120-2208).
StoppedHasNoEntry == AtRest /\ ~running /\ ~WriteMayFail => PendingOn("buy") = {}

\* The engine is quarantined only for impossible fills of the season it holds
\* ("Start a new season before resuming the paper engine").
QuarantineIsCurrent == quarantined => chronology_issues # {}

\* A position leaves the database only through its own sell fill or into the
\* unresolved records of its season.
InventoryNeverLost ==
    [][\A m \in DOMAIN positions_db \ DOMAIN positions_db' :
          \/ <<season, m>> \in unresolved'
          \/ \E f \in fills' \ fills : f.side = "sell" /\ f.mint = m
                                       /\ f.opened = positions_db[m].opened]_vars

\* A stored mark never moves back in time, although event times do.
MarksNeverRegress ==
    [][\A m \in DOMAIN positions_db \cap DOMAIN positions_db' :
          season' = season => positions_db'[m].marked >= positions_db[m].marked]_vars

\* Every record has its type, a mint is entered once per season and a position has at most one
\* exit in flight, whatever is retried, expired or recovered (broker.py 296-420, 1640-1860).
OrdersAreUnique ==
    /\ BrokerTypeOK
    /\ OneEntryPerMint
    /\ OneExitInFlight

\* The money is right and enough: ledger, cash, inventory and profit agree, and cash pays for
\* every fill although prices moved since it was reserved (broker.py 1081-1250, 1697-1720).
FundsReconcile ==
    /\ BooksReconcile
    /\ CashNeverNegative

\* What is held neither vanishes nor moves back in time: a position leaves only by its sell or
\* into the unresolved records of its season, and no late event overwrites a newer mark
\* (broker.py 1482-1520, 2120-2208; database.py 4649-4707).
HoldingsEndure ==
    /\ InventoryNeverLost
    /\ MarksNeverRegress
=============================================================================
