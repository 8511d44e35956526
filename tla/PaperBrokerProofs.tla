-------------------------- MODULE PaperBrokerProofs --------------------------
(***************************************************************************)
(* The paper broker keeps its promises for any mints, order ids, seasons,  *)
(* latencies, bankrolls and prices, in whichever seasons writes may fail   *)
(* and wherever the process dies.                                          *)
(***************************************************************************)
EXTENDS PaperBroker, SumTheorems, TLAPS

Steps == {"mark", "exit", "fill", "entry_mark", "expire", "each", "freeze", "profile_exits",
          "cancel_pending_orders", "cancel_pending_buys", "cancel_pending_sells"}

\* A plan marks an entry only as its next step, freezes only right after the entries were
\* cancelled, and a resume neither fills nor cancels.
PlanOK(plan, resuming) ==
    /\ plan \in Seq(Steps)
    /\ \A i \in 2..Len(plan) :
          /\ plan[i] # "entry_mark"
          /\ plan[i] = "freeze" => i = 2 /\ plan[1] = "cancel_pending_buys"
    /\ resuming => \A i \in 1..Len(plan) : plan[i] \in {"each", "mark", "exit"}

CallOK == call \in CallType /\ PlanOK(call.plan, call.resuming)

FlagsTyped ==
    /\ locked \in BOOLEAN /\ trading_enabled \in BOOLEAN
    /\ running \in BOOLEAN /\ quarantined \in BOOLEAN
SeasonTyped ==
    /\ season \in 0..opened /\ opened \in 0..MaxSeasons
    /\ starting \in Nat
    /\ unresolved \subseteq (1..MaxSeasons) \X Mints

\* What is held and what it cost: memory holds the stored positions at marks that are no older.
PositionsTyped ==
    /\ PartialFunction(positions, Mints, PositionType)
    /\ PartialFunction(positions_db, Mints, PositionType)
PositionsMatch ==
    /\ DOMAIN positions = DOMAIN positions_db
    /\ \A m \in DOMAIN positions :
          /\ positions[m].opened = positions_db[m].opened
          /\ positions[m].cost = positions_db[m].cost
          /\ positions[m].book = positions_db[m].book
          /\ positions[m].marked >= positions_db[m].marked
BooksTyped == ledger \in [Accounts -> Int] /\ realized_pnl \in Int

PositionInv ==
    PositionsTyped /\ PositionsMatch /\ BooksTyped /\ InventoryAtBook /\ CashNeverNegative

OrdersTyped ==
    /\ PartialFunction(orders, OrderIds, OrderType)
    /\ PartialFunction(pending, OrderIds, OrderType)
    /\ fills \subseteq FillType
    /\ traded_mints \subseteq Mints

EntriesOf(f) == {x.mint : x \in {g \in f : g.side = "buy"}}
EntriesKnown == traded_mints = EntriesOf(fills)

\* A fill's order is not pending on disk.
FilledRowsClosed ==
    \A f \in fills : f.order \in DOMAIN orders /\ orders[f.order].status # "pending"

\* An order known to both is the same order, and disk waits for none that memory forgot.
RowsMatch ==
    /\ \A o \in DOMAIN pending \cap DOMAIN orders :
          /\ orders[o].mint = pending[o].mint /\ orders[o].side = pending[o].side
          /\ orders[o].created = pending[o].created /\ orders[o].after = pending[o].after
    /\ \A o \in DOMAIN orders : orders[o].status = "pending" => o \in DOMAIN pending

\* An entry that can still be committed is of a mint not entered yet, one per mint.
EntriesFresh ==
    \A o \in PendingOn("buy") :
        /\ StillPending(o) => pending[o].mint \notin traded_mints
        /\ \A q \in PendingOn("buy") : pending[q].mint = pending[o].mint => q = o

OrderInv ==
    /\ OrdersTyped /\ EntriesKnown /\ OneEntryPerMint /\ FilledRowsClosed
    /\ RowsMatch /\ EntriesFresh /\ OneExitInFlight

\* Between the commit of an entry and its first mark.
EntryMarkOK ==
    At("entry_mark") =>
        /\ call.mint \in DOMAIN positions /\ positions[call.mint].marked = 0
        /\ call.order \in DOMAIN orders /\ orders[call.order].status = "filled"

\* A season that does not exist holds nothing.
NoSeasonIsEmpty ==
    season = 0 => /\ DOMAIN pending = {} /\ DOMAIN positions = {}
                  /\ fills = {} /\ ~running

\* A stopped engine is cancelling its entries or has none, and freezes only then.
EntriesCancelled ==
    ~WriteMayFail =>
        /\ ~running /\ PendingOn("buy") # {}
              => At("cancel_pending_orders") \/ At("cancel_pending_buys")
        /\ At("freeze") => PendingOn("buy") = {}

BrokerInv ==
    /\ FlagsTyped /\ SeasonTyped /\ CallOK /\ PositionInv /\ OrderInv
    /\ EntryMarkOK /\ NoSeasonIsEmpty /\ EntriesCancelled

\* Without failing writes memory watches exactly what disk waits for, but for the entry
\* being marked, and a position is what its entry bought.
PendingAreOpen ==
    \A o \in DOMAIN pending : StillPending(o) \/ (At("entry_mark") /\ o = call.order)
PositionsWereEntered ==
    \A m \in DOMAIN positions :
        \E e \in fills : e.side = "buy" /\ e.mint = m /\ e.at = positions[m].opened
Audited == PendingAreOpen /\ PositionsWereEntered /\ FillsAuditClean
AuditInv == ~WriteMayFail => Audited

-----------------------------------------------------------------------------
(* Records.                                                                 *)

LEMMA PutFacts ==
    /\ \A f, x, v, y : y \in DOMAIN Put(f, x, v) <=> y \in DOMAIN f \/ y = x
    /\ \A f, x, v : Put(f, x, v)[x] = v
    /\ \A f, x, v, y : y \in DOMAIN f /\ y # x => Put(f, x, v)[y] = f[y]
BY DEF Put

LEMMA DropFacts ==
    /\ \A f, x, y : y \in DOMAIN Drop(f, x) <=> y \in DOMAIN f /\ y # x
    /\ \A f, x, y : y \in DOMAIN f /\ y # x => Drop(f, x)[y] = f[y]
BY DEF Drop

LEMMA NothingFacts == DOMAIN Nothing = {}
BY DEF Nothing

LEMMA PutTyped ==
    \A S, T, f, x, v :
        PartialFunction(f, S, T) /\ x \in S /\ v \in T => PartialFunction(Put(f, x, v), S, T)
<1> SUFFICES ASSUME NEW S, NEW T, NEW f, NEW x, NEW v,
                    PartialFunction(f, S, T), x \in S, v \in T
             PROVE  PartialFunction(Put(f, x, v), S, T)
    OBVIOUS
<1>1. DOMAIN Put(f, x, v) \subseteq S
      BY PutFacts DEF PartialFunction
<1>2. ASSUME NEW y \in DOMAIN Put(f, x, v) PROVE Put(f, x, v)[y] \in T
      BY <1>2, PutFacts DEF PartialFunction
<1> QED BY <1>1, <1>2 DEF PartialFunction

LEMMA DropTyped ==
    \A S, T, f, x : PartialFunction(f, S, T) => PartialFunction(Drop(f, x), S, T)
BY DropFacts DEF PartialFunction

\* The row of an order that is no longer pending.
LEMMA ClosedRow ==
    ASSUME NEW r \in OrderType, NEW t \in Times, NEW s \in {"filled", "failed", "cancelled"}
    PROVE  LET row == [r EXCEPT !.status = s, !.filled = t]
           IN  /\ row \in OrderType /\ row.status = s /\ row.filled = t
               /\ row.mint = r.mint /\ row.side = r.side
               /\ row.created = r.created /\ row.after = r.after
<1>1. t \in 0..MaxTime /\ s \in {"pending", "filled", "failed", "cancelled"}
      BY BrokerAssumption DEF Times
<1> QED BY <1>1 DEF OrderType

LEMMA NewRow ==
    ASSUME NEW m \in Mints, NEW side \in {"buy", "sell"}, NEW now \in Times,
           NEW latency \in Nat, NEW reserved \in Nat
    PROVE  LET row == NewOrder(m, side, now, latency, reserved)
           IN  row \in OrderType /\ row.mint = m /\ row.side = side /\ row.status = "pending"
BY BrokerAssumption DEF NewOrder, OrderType, Times

-----------------------------------------------------------------------------
(* What a step may do to the positions and the books.                       *)

MarksKept ==
    \A m \in DOMAIN positions_db \cap DOMAIN positions_db' :
        positions_db'[m].marked >= positions_db[m].marked
PositionsKept ==
    DOMAIN positions' = DOMAIN positions /\ DOMAIN positions_db' = DOMAIN positions_db
PositionsSame == UNCHANGED <<positions, positions_db, ledger, realized_pnl>>

LEMMA SamePositions ==
    ASSUME PositionInv, PositionsSame
    PROVE  PositionInv' /\ MarksKept /\ PositionsKept
<1>1. PositionsTyped' /\ PositionsMatch' /\ BooksTyped' /\ InventoryAtBook' /\ CashNeverNegative'
      BY DEF PositionsSame, PositionInv, PositionsTyped, PositionsMatch, BooksTyped,
             InventoryAtBook, CashNeverNegative, cash_lamports, PartialFunction
<1>2. MarksKept
      BY DEF PositionsSame, PositionInv, PositionsTyped, PartialFunction, PositionType, MarksKept
<1>3. PositionsKept
      BY DEF PositionsSame, PositionsKept
<1> QED BY <1>1, <1>2, <1>3 DEF PositionInv

\* A position is marked, or its exit assessment saved: its mark moves forward only, and the
\* database takes what memory has, or raises and keeps what it had.
LEMMA MarkedPositions ==
    ASSUME PositionInv, NEW m \in DOMAIN positions, NEW p \in PositionType,
           p.opened = positions[m].opened, p.cost = positions[m].cost,
           p.book = positions[m].book, p.marked >= positions[m].marked,
           positions' = Put(positions, m, p) \/ (positions' = positions /\ p = positions[m]),
           positions_db' = Put(positions_db, m, p) \/ positions_db' = positions_db,
           UNCHANGED <<ledger, realized_pnl>>
    PROVE  PositionInv' /\ MarksKept /\ PositionsKept
<1> USE DEF PositionInv
<1>1. m \in Mints /\ m \in DOMAIN positions_db
      BY DEF PositionsTyped, PositionsMatch, PartialFunction
<1>2. PositionsTyped'
      BY <1>1, PutTyped DEF PositionsTyped
<1>3. PositionsKept
  <2>1. \A x : x \in DOMAIN positions' <=> x \in DOMAIN positions
        BY PutFacts
  <2>2. \A x : x \in DOMAIN positions_db' <=> x \in DOMAIN positions_db
        BY <1>1, PutFacts
  <2> QED BY <2>1, <2>2 DEF PositionsKept
<1>4. positions'[m] = p /\ (positions_db'[m] = p \/ positions_db'[m] = positions_db[m])
      BY PutFacts
<1>5. \A x \in DOMAIN positions : x # m =>
          positions'[x] = positions[x] /\ positions_db'[x] = positions_db[x]
      BY PutFacts DEF PositionsMatch
<1>6. \A x \in DOMAIN positions :
          /\ positions[x] \in PositionType /\ positions_db[x] \in PositionType
          /\ positions'[x] \in PositionType /\ positions_db'[x] \in PositionType
      BY <1>2, <1>3 DEF PositionsTyped, PositionsMatch, PartialFunction, PositionsKept
<1>7. ASSUME NEW x \in DOMAIN positions
      PROVE  /\ positions'[x].opened = positions_db'[x].opened
             /\ positions'[x].cost = positions_db'[x].cost
             /\ positions'[x].book = positions_db'[x].book
             /\ positions'[x].marked >= positions_db'[x].marked
             /\ positions_db'[x].book = positions_db[x].book
             /\ positions_db'[x].marked >= positions_db[x].marked
  <2>1. /\ positions[x].opened = positions_db[x].opened
        /\ positions[x].cost = positions_db[x].cost
        /\ positions[x].book = positions_db[x].book
        /\ positions[x].marked >= positions_db[x].marked
        BY DEF PositionsMatch
  <2>2. positions[x].marked \in Int /\ positions_db[x].marked \in Int /\ p.marked \in Int
        BY <1>6 DEF PositionType
  <2>3. CASE x = m
        BY <2>1, <2>2, <2>3, <1>4
  <2>4. CASE x # m
        BY <2>1, <2>2, <2>4, <1>5
  <2> QED BY <2>3, <2>4
<1>8. PositionsMatch' /\ MarksKept
      BY <1>3, <1>7 DEF PositionsMatch, PositionsKept, MarksKept
<1>9. InventoryAtBook'
      BY <1>3, <1>7 DEF InventoryAtBook, PositionsKept, PositionsMatch
<1> QED BY <1>2, <1>3, <1>8, <1>9 DEF BooksTyped, CashNeverNegative, cash_lamports

LEMMA AccountsApart ==
    /\ Accounts = BookAccounts \cup Mints
    /\ \A m \in Mints : /\ m # "cash" /\ m # "capital" /\ m # "network_expense"
                        /\ m # "exit_expense" /\ m # "realized_gain" /\ m # "realized_loss"
BY BrokerAssumption DEF Accounts, BookAccounts

\* The entries of a buy: its mint's account takes the book value, cash pays it.
LEMMA BuyBooks ==
    ASSUME ledger \in [Accounts -> Int], NEW m \in Mints, NEW total \in BuyTotals
    PROVE  /\ BuyEntries(m, total) \in [Accounts -> Int]
           /\ BuyEntries(m, total)[m] = ledger[m] + (total - NetworkFee)
           /\ BuyEntries(m, total)["cash"] = ledger["cash"] - total
           /\ \A x \in Mints \ {m} : BuyEntries(m, total)[x] = ledger[x]
<1>1. total \in Int /\ NetworkFee \in Int
      BY BrokerAssumption
<1>2. m \in Accounts /\ "network_expense" \in Accounts /\ "cash" \in Accounts
      BY AccountsApart DEF BookAccounts
<1>3. m # "network_expense" /\ m # "cash"
      BY AccountsApart
<1>4. \A x \in Mints : x \in Accounts /\ x # "network_expense" /\ x # "cash"
      BY AccountsApart
<1>5. ledger[m] \in Int /\ ledger["network_expense"] \in Int /\ ledger["cash"] \in Int
      BY <1>2
<1> QED BY <1>1, <1>2, <1>3, <1>4, <1>5 DEF BuyEntries

\* The entries of a sell: the mint's account gives up the book value, cash takes the proceeds.
LEMMA SellBooks ==
    ASSUME ledger \in [Accounts -> Int], NEW m \in Mints, NEW gross \in SellGross,
           positions[m].book \in Nat
    PROVE  /\ SellEntries(m, gross) \in [Accounts -> Int]
           /\ SellEntries(m, gross)[m] = ledger[m] - positions[m].book
           /\ SellEntries(m, gross)["cash"] = ledger["cash"] + (gross - ExitFees)
           /\ \A x \in Mints \ {m} : SellEntries(m, gross)[x] = ledger[x]
<1> DEFINE book == positions[m].book
           gain == IF gross >= book THEN gross - book ELSE 0
           loss == IF gross >= book THEN 0 ELSE book - gross
<1>1. /\ gross \in Int /\ ExitFees \in Int /\ book \in Int
      /\ gain \in Int /\ loss \in Int
      BY BrokerAssumption
<1>2. /\ m \in Accounts /\ "cash" \in Accounts /\ "exit_expense" \in Accounts
      /\ "realized_gain" \in Accounts /\ "realized_loss" \in Accounts
      BY AccountsApart DEF BookAccounts
<1>3. \A x \in Mints : /\ x \in Accounts /\ x # "cash" /\ x # "exit_expense"
                       /\ x # "realized_gain" /\ x # "realized_loss"
      BY AccountsApart
<1>4. \A a \in Accounts : ledger[a] \in Int
      OBVIOUS
<1>5. SellEntries(m, gross) =
          [ledger EXCEPT !["cash"] = @ + (gross - ExitFees),
                         !["exit_expense"] = @ + ExitFees,
                         ![m] = @ - book,
                         !["realized_gain"] = @ - gain,
                         !["realized_loss"] = @ + loss]
      BY DEF SellEntries
<1> HIDE DEF book, gain, loss
<1>6. /\ SellEntries(m, gross) \in [Accounts -> Int]
      /\ SellEntries(m, gross)[m] = ledger[m] - book
      /\ SellEntries(m, gross)["cash"] = ledger["cash"] + (gross - ExitFees)
      /\ \A x \in Mints \ {m} : SellEntries(m, gross)[x] = ledger[x]
      BY <1>1, <1>2, <1>3, <1>4, <1>5
<1> QED BY <1>6 DEF book

LEMMA NewBooks ==
    ASSUME NEW start \in Nat, NEW books \in {EmptyBooks, Funded(start)}
    PROVE  /\ books \in [Accounts -> Int] /\ books["cash"] >= 0
           /\ \A m \in Mints : books[m] = 0
<1>1. /\ "cash" \in Accounts /\ "capital" \in Accounts
      /\ \A m \in Mints : m \in Accounts /\ m # "cash" /\ m # "capital"
      BY AccountsApart DEF BookAccounts
<1>2. CASE books = EmptyBooks
      BY <1>1, <1>2 DEF EmptyBooks
<1>3. CASE books = Funded(start)
      BY <1>1, <1>3 DEF Funded, EmptyBooks
<1> QED BY <1>2, <1>3

LEMMA BoughtPositions ==
    ASSUME PositionInv, NEW m \in Mints, m \notin DOMAIN positions_db,
           NEW total \in BuyTotals, total <= cash_lamports, call.now \in Times,
           positions' = Put(positions, m, OpenedPosition(total)),
           positions_db' = Put(positions_db, m, OpenedPosition(total)),
           ledger' = BuyEntries(m, total), UNCHANGED realized_pnl
    PROVE  /\ PositionInv' /\ MarksKept
           /\ DOMAIN positions' = DOMAIN positions \cup {m} /\ positions'[m].marked = 0
           /\ DOMAIN positions_db' = DOMAIN positions_db \cup {m}
<1> USE DEF PositionInv
<1> DEFINE new == OpenedPosition(total)
<1>1. new \in PositionType /\ new.book = total - NetworkFee /\ new.marked = 0
      BY BrokerAssumption DEF OpenedPosition, PositionType, Times
<1>2. PositionsTyped'
      BY <1>1, PutTyped DEF PositionsTyped
<1>3. /\ \A x : x \in DOMAIN positions' <=> x \in DOMAIN positions \/ x = m
      /\ \A x : x \in DOMAIN positions_db' <=> x \in DOMAIN positions_db \/ x = m
      BY PutFacts
<1>4. positions'[m] = new /\ positions_db'[m] = new
      BY PutFacts
<1>5. \A x \in DOMAIN positions :
          x # m /\ positions'[x] = positions[x] /\ positions_db'[x] = positions_db[x]
      BY PutFacts DEF PositionsMatch
<1>6. \A x \in DOMAIN positions_db : positions_db[x].marked \in Int
      BY DEF PositionsTyped, PartialFunction, PositionType
<1> HIDE DEF new
<1>7. PositionsMatch'
  <2>1. ASSUME NEW x \in DOMAIN positions'
        PROVE  /\ positions'[x].opened = positions_db'[x].opened
               /\ positions'[x].cost = positions_db'[x].cost
               /\ positions'[x].book = positions_db'[x].book
               /\ positions'[x].marked >= positions_db'[x].marked
    <3>1. CASE x = m
          BY <3>1, <1>1, <1>4
    <3>2. CASE x # m
          BY <3>2, <1>3, <1>5 DEF PositionsMatch
    <3> QED BY <3>1, <3>2
  <2> QED BY <2>1, <1>3 DEF PositionsMatch
<1>8. BooksTyped' /\ CashNeverNegative'
  <2>1. ledger' \in [Accounts -> Int] /\ ledger'["cash"] = ledger["cash"] - total
        BY BuyBooks DEF BooksTyped
  <2>2. ledger["cash"] \in Int /\ total \in Int
        BY AccountsApart, BrokerAssumption DEF BooksTyped, BookAccounts
  <2> QED BY <2>1, <2>2 DEF BooksTyped, CashNeverNegative, cash_lamports
<1>9. InventoryAtBook'
  <2> SUFFICES ASSUME NEW x \in Mints
               PROVE  ledger'[x] = IF x \in DOMAIN positions_db' THEN positions_db'[x].book ELSE 0
      BY DEF InventoryAtBook
  <2>0. ledger[x] = IF x \in DOMAIN positions_db THEN positions_db[x].book ELSE 0
        BY DEF InventoryAtBook
  <2>1. CASE x = m
    <3>1. ledger'[m] = ledger[m] + (total - NetworkFee)
          BY BuyBooks DEF BooksTyped
    <3> QED BY <2>0, <2>1, <3>1, <1>1, <1>3, <1>4, BrokerAssumption
  <2>2. CASE x # m
    <3>1. ledger'[x] = ledger[x]
          BY <2>2, BuyBooks DEF BooksTyped
    <3> QED BY <2>0, <2>2, <3>1, <1>3, <1>5 DEF PositionsMatch
  <2> QED BY <2>1, <2>2
<1>10. MarksKept
      BY <1>3, <1>5, <1>6 DEF MarksKept, PositionsMatch
<1> QED BY <1>1, <1>2, <1>3, <1>4, <1>7, <1>8, <1>9, <1>10

LEMMA SoldPositions ==
    ASSUME PositionInv, NEW m \in DOMAIN positions, NEW gross \in SellGross,
           positions' = Drop(positions, m), positions_db' = Drop(positions_db, m),
           ledger' = SellEntries(m, gross),
           realized_pnl' = realized_pnl + (gross - ExitFees) - positions[m].cost
    PROVE  /\ PositionInv' /\ MarksKept
           /\ DOMAIN positions' = DOMAIN positions \ {m}
           /\ DOMAIN positions_db' = DOMAIN positions_db \ {m}
<1> USE DEF PositionInv
<1>1. /\ m \in Mints /\ m \in DOMAIN positions_db
      /\ positions[m].book = positions_db[m].book
      /\ positions[m].book \in Nat /\ positions[m].cost \in Nat
      BY DEF PositionsTyped, PositionsMatch, PartialFunction, PositionType
<1>2. PositionsTyped'
      BY DropTyped DEF PositionsTyped
<1>3. /\ \A x : x \in DOMAIN positions' <=> x \in DOMAIN positions /\ x # m
      /\ \A x : x \in DOMAIN positions_db' <=> x \in DOMAIN positions_db /\ x # m
      BY DropFacts
<1>4. \A x \in DOMAIN positions :
          x # m => positions'[x] = positions[x] /\ positions_db'[x] = positions_db[x]
      BY DropFacts DEF PositionsMatch
<1>5. \A x \in DOMAIN positions_db : positions_db[x].marked \in Int
      BY DEF PositionsTyped, PartialFunction, PositionType
<1>6. PositionsMatch'
  <2>1. DOMAIN positions' = DOMAIN positions_db'
        BY <1>3 DEF PositionsMatch
  <2>2. ASSUME NEW x \in DOMAIN positions'
        PROVE  /\ positions'[x].opened = positions_db'[x].opened
               /\ positions'[x].cost = positions_db'[x].cost
               /\ positions'[x].book = positions_db'[x].book
               /\ positions'[x].marked >= positions_db'[x].marked
        BY <1>3, <1>4 DEF PositionsMatch
  <2> QED BY <2>1, <2>2 DEF PositionsMatch
<1>7. BooksTyped' /\ CashNeverNegative'
  <2>1. ledger' \in [Accounts -> Int] /\ ledger'["cash"] = ledger["cash"] + (gross - ExitFees)
        BY <1>1, SellBooks DEF BooksTyped
  <2>2. ledger["cash"] \in Int /\ gross \in Int /\ ExitFees \in Int /\ gross >= ExitFees
        BY AccountsApart, BrokerAssumption DEF BooksTyped, BookAccounts
  <2> QED BY <1>1, <2>1, <2>2 DEF BooksTyped, CashNeverNegative, cash_lamports
<1>8. InventoryAtBook'
  <2> SUFFICES ASSUME NEW x \in Mints
               PROVE  ledger'[x] = IF x \in DOMAIN positions_db' THEN positions_db'[x].book ELSE 0
      BY DEF InventoryAtBook
  <2>0. ledger[x] = IF x \in DOMAIN positions_db THEN positions_db[x].book ELSE 0
        BY DEF InventoryAtBook
  <2>1. CASE x = m
    <3>1. ledger'[m] = ledger[m] - positions[m].book
          BY <1>1, SellBooks DEF BooksTyped
    <3> QED BY <2>0, <2>1, <3>1, <1>1, <1>3
  <2>2. CASE x # m
    <3>1. ledger'[x] = ledger[x]
          BY <2>2, <1>1, SellBooks DEF BooksTyped
    <3> QED BY <2>0, <2>2, <3>1, <1>3, <1>4 DEF PositionsMatch
  <2> QED BY <2>1, <2>2
<1>9. MarksKept
      BY <1>3, <1>4, <1>5 DEF MarksKept, PositionsMatch
<1> QED BY <1>2, <1>3, <1>6, <1>7, <1>8, <1>9

\* A season opens or closes: nothing is held, the books are empty or just funded.
LEMMA ClearedPositions ==
    ASSUME DOMAIN positions' = {}, DOMAIN positions_db' = {},
           NEW start \in Nat, ledger' \in {EmptyBooks, Funded(start)}, realized_pnl' = 0
    PROVE  PositionInv'
<1>1. ledger' \in [Accounts -> Int] /\ ledger'["cash"] >= 0 /\ \A m \in Mints : ledger'[m] = 0
      BY NewBooks
<1> QED BY <1>1
        DEF PositionInv, PositionsTyped, PartialFunction, PositionsMatch, BooksTyped,
            InventoryAtBook, CashNeverNegative, cash_lamports

\* A restart loads what the database has.
LEMMA LoadedPositions ==
    ASSUME PositionInv, positions' = positions_db, UNCHANGED <<positions_db, ledger, realized_pnl>>
    PROVE  PositionInv' /\ MarksKept /\ PositionsKept
<1> USE DEF PositionInv
<1>1. \A m \in DOMAIN positions_db : positions_db[m].marked \in Int
      BY DEF PositionsTyped, PartialFunction, PositionType
<1>2. PositionsTyped' /\ PositionsMatch' /\ PositionsKept /\ MarksKept
      BY <1>1 DEF PositionsTyped, PositionsMatch, PositionsKept, MarksKept
<1>3. BooksTyped' /\ InventoryAtBook' /\ CashNeverNegative'
      BY DEF BooksTyped, InventoryAtBook, CashNeverNegative, cash_lamports
<1> QED BY <1>2, <1>3

-----------------------------------------------------------------------------
(* What a step may do to the orders.                                        *)

OrdersSame == UNCHANGED <<orders, pending, fills, traded_mints>>

LEMMA SameOrders ==
    ASSUME OrderInv, OrdersSame, DOMAIN positions \subseteq DOMAIN positions'
    PROVE  OrderInv'
BY DEF OrdersSame, OrderInv, OrdersTyped, PartialFunction, EntriesKnown, EntriesOf,
       OneEntryPerMint, FilledRowsClosed, RowsMatch, EntriesFresh, OneExitInFlight,
       PendingOn, StillPending

\* A new order is known to memory first; its row is saved, or raises and is missing.
LEMMA NewOrders ==
    ASSUME OrderInv, NEW o \in FreshOrders, NEW row \in OrderType, row.status = "pending",
           \A q \in DOMAIN pending : pending[q].side = row.side => pending[q].mint # row.mint,
           row.side = "buy" => row.mint \notin traded_mints,
           row.side = "sell" => row.mint \in DOMAIN positions,
           pending' = Put(pending, o, row),
           orders' = Put(orders, o, row) \/ orders' = orders,
           UNCHANGED <<positions, fills, traded_mints>>
    PROVE  OrderInv'
<1> USE DEF OrderInv
<1>1. o \in OrderIds /\ o \notin DOMAIN orders /\ o \notin DOMAIN pending
      BY DEF FreshOrders
<1>2. OrdersTyped'
      BY <1>1, PutTyped DEF OrdersTyped
<1>3. /\ \A q : q \in DOMAIN pending' <=> q \in DOMAIN pending \/ q = o
      /\ pending'[o] = row
      /\ \A q \in DOMAIN pending : q # o /\ pending'[q] = pending[q]
      BY <1>1, PutFacts
<1>4. /\ \A q : q \in DOMAIN orders' => q \in DOMAIN orders \/ q = o
      /\ \A q : q \in DOMAIN orders => q \in DOMAIN orders' /\ q # o /\ orders'[q] = orders[q]
      /\ o \in DOMAIN orders' => orders'[o] = row
      BY <1>1, PutFacts
<1>5. EntriesKnown' /\ OneEntryPerMint'
      BY DEF EntriesKnown, EntriesOf, OneEntryPerMint
<1>6. FilledRowsClosed'
      BY <1>4 DEF FilledRowsClosed
<1>7. RowsMatch'
  <2>1. ASSUME NEW q \in DOMAIN pending' \cap DOMAIN orders'
        PROVE  /\ orders'[q].mint = pending'[q].mint /\ orders'[q].side = pending'[q].side
               /\ orders'[q].created = pending'[q].created /\ orders'[q].after = pending'[q].after
    <3>1. CASE q = o
          BY <3>1, <1>3, <1>4
    <3>2. CASE q # o
          BY <3>2, <1>3, <1>4 DEF RowsMatch
    <3> QED BY <3>1, <3>2
  <2>2. ASSUME NEW q \in DOMAIN orders', orders'[q].status = "pending"
        PROVE  q \in DOMAIN pending'
        BY <2>2, <1>3, <1>4 DEF RowsMatch
  <2> QED BY <2>1, <2>2 DEF RowsMatch
<1>8. EntriesFresh'
  <2>1. ASSUME NEW q \in PendingOn("buy")'
        PROVE  /\ StillPending(q)' => pending'[q].mint \notin traded_mints'
               /\ \A r \in PendingOn("buy")' : pending'[r].mint = pending'[q].mint => r = q
    <3>1. CASE q = o
          BY <3>1, <1>3 DEF PendingOn
    <3>2. CASE q # o
          BY <3>2, <1>3, <1>4 DEF PendingOn, EntriesFresh, StillPending
    <3> QED BY <3>1, <3>2
  <2> QED BY <2>1 DEF EntriesFresh
<1>9. OneExitInFlight'
  <2>1. ASSUME NEW q \in PendingOn("sell")'
        PROVE  /\ pending'[q].mint \in DOMAIN positions'
               /\ \A r \in PendingOn("sell")' : pending'[r].mint = pending'[q].mint => r = q
    <3>1. CASE q = o
          BY <3>1, <1>3 DEF PendingOn
    <3>2. CASE q # o
          BY <3>2, <1>3 DEF PendingOn, OneExitInFlight
    <3> QED BY <3>1, <3>2
  <2> QED BY <2>1 DEF OneExitInFlight
<1> QED BY <1>2, <1>5, <1>6, <1>7, <1>8, <1>9

\* An order is failed, cancelled or filled as a sell: its row is closed, then memory forgets it.
LEMMA ClosedOrders ==
    ASSUME OrderInv, NEW o \in DOMAIN pending, NEW row \in OrderType, row.status # "pending",
           orders' = Put(orders, o, row), pending' = Drop(pending, o), UNCHANGED traded_mints,
           fills \subseteq fills',
           \A f \in fills' \ fills : f \in FillType /\ f.order = o /\ f.side = "sell",
           \A m \in DOMAIN positions :
               m \in DOMAIN positions' \/ (pending[o].side = "sell" /\ pending[o].mint = m)
    PROVE  OrderInv'
<1> USE DEF OrderInv
<1>1. o \in OrderIds
      BY DEF OrdersTyped, PartialFunction
<1>2. OrdersTyped'
  <2>1. PartialFunction(orders, OrderIds, OrderType)' /\ PartialFunction(pending, OrderIds, OrderType)'
        BY <1>1, PutTyped, DropTyped DEF OrdersTyped
  <2> QED BY <2>1 DEF OrdersTyped
<1>3. /\ \A q : q \in DOMAIN pending' <=> q \in DOMAIN pending /\ q # o
      /\ \A q \in DOMAIN pending' : pending'[q] = pending[q]
      BY DropFacts
<1>4. /\ \A q : q \in DOMAIN orders' <=> q \in DOMAIN orders \/ q = o
      /\ \A q : q \in DOMAIN orders /\ q # o => orders'[q] = orders[q]
      /\ orders'[o] = row
      BY PutFacts
<1>5. \A f \in fills' : f.side = "buy" => f \in fills
      OBVIOUS
<1>6. EntriesKnown'
      BY <1>5 DEF EntriesKnown, EntriesOf
<1>7. OneEntryPerMint'
      BY <1>5 DEF OneEntryPerMint
<1>8. FilledRowsClosed'
      BY <1>4 DEF FilledRowsClosed
<1>9. RowsMatch'
  <2>1. ASSUME NEW q \in DOMAIN pending' \cap DOMAIN orders'
        PROVE  /\ orders'[q].mint = pending'[q].mint /\ orders'[q].side = pending'[q].side
               /\ orders'[q].created = pending'[q].created /\ orders'[q].after = pending'[q].after
        BY <1>3, <1>4 DEF RowsMatch
  <2>2. ASSUME NEW q \in DOMAIN orders', orders'[q].status = "pending"
        PROVE  q \in DOMAIN pending'
        BY <2>2, <1>3, <1>4 DEF RowsMatch
  <2> QED BY <2>1, <2>2 DEF RowsMatch
<1>10. EntriesFresh'
       BY <1>3, <1>4 DEF EntriesFresh, PendingOn, StillPending
<1>11. OneExitInFlight'
       BY <1>3 DEF OneExitInFlight, PendingOn
<1> QED BY <1>2, <1>6, <1>7, <1>8, <1>9, <1>10, <1>11

\* Memory forgets an order whose row is closed.
LEMMA ForgottenOrders ==
    ASSUME OrderInv, NEW o, o \in DOMAIN orders => orders[o].status # "pending",
           pending' = Drop(pending, o), UNCHANGED <<orders, fills, traded_mints>>,
           DOMAIN positions \subseteq DOMAIN positions'
    PROVE  OrderInv'
<1> USE DEF OrderInv
<1>1. /\ \A q : q \in DOMAIN pending' <=> q \in DOMAIN pending /\ q # o
      /\ \A q \in DOMAIN pending' : pending'[q] = pending[q]
      BY DropFacts
<1>2. OrdersTyped'
      BY DropTyped DEF OrdersTyped
<1>3. EntriesKnown' /\ OneEntryPerMint' /\ FilledRowsClosed'
      BY DEF EntriesKnown, EntriesOf, OneEntryPerMint, FilledRowsClosed
<1>4. RowsMatch'
      BY <1>1 DEF RowsMatch
<1>5. EntriesFresh'
      BY <1>1 DEF EntriesFresh, PendingOn, StillPending
<1>6. OneExitInFlight'
      BY <1>1 DEF OneExitInFlight, PendingOn
<1> QED BY <1>2, <1>3, <1>4, <1>5, <1>6

\* An entry is committed: its mint is taken, its row is filled, memory keeps it for the mark.
LEMMA BoughtOrders ==
    ASSUME OrderInv, NEW o \in PendingOn("buy"), StillPending(o),
           NEW row \in OrderType, row.status # "pending", row.mint = pending[o].mint,
           row.side = pending[o].side, row.created = pending[o].created,
           row.after = pending[o].after,
           NEW f \in FillType, f.order = o, f.side = "buy", f.mint = pending[o].mint,
           orders' = Put(orders, o, row), fills' = fills \cup {f},
           traded_mints' = traded_mints \cup {f.mint}, UNCHANGED pending,
           DOMAIN positions \subseteq DOMAIN positions'
    PROVE  OrderInv'
<1> USE DEF OrderInv
<1>1. o \in OrderIds /\ o \in DOMAIN pending /\ f.mint \in Mints /\ f.mint \notin traded_mints
      BY DEF OrdersTyped, PartialFunction, PendingOn, FillType, EntriesFresh
<1>2. OrdersTyped'
  <2>1. PartialFunction(orders, OrderIds, OrderType)'
        BY <1>1, PutTyped DEF OrdersTyped
  <2> QED BY <1>1, <2>1 DEF OrdersTyped
<1>3. /\ \A q : q \in DOMAIN orders' <=> q \in DOMAIN orders \/ q = o
      /\ \A q : q \in DOMAIN orders /\ q # o => orders'[q] = orders[q]
      /\ orders'[o] = row
      BY PutFacts
<1>4. EntriesKnown'
      BY DEF EntriesKnown, EntriesOf
<1>5. OneEntryPerMint'
  <2>1. \A g \in fills : g.side = "buy" => g.mint # f.mint
        BY <1>1 DEF EntriesKnown, EntriesOf
  <2> QED BY <2>1 DEF OneEntryPerMint
<1>6. FilledRowsClosed'
      BY <1>3 DEF FilledRowsClosed
<1>7. RowsMatch'
  <2>1. ASSUME NEW q \in DOMAIN pending' \cap DOMAIN orders'
        PROVE  /\ orders'[q].mint = pending'[q].mint /\ orders'[q].side = pending'[q].side
               /\ orders'[q].created = pending'[q].created /\ orders'[q].after = pending'[q].after
        BY <1>3 DEF RowsMatch
  <2>2. ASSUME NEW q \in DOMAIN orders', orders'[q].status = "pending"
        PROVE  q \in DOMAIN pending'
        BY <2>2, <1>3 DEF RowsMatch
  <2> QED BY <2>1, <2>2 DEF RowsMatch
<1>8. EntriesFresh'
      BY <1>1, <1>3 DEF EntriesFresh, PendingOn, StillPending
<1>9. OneExitInFlight'
      BY DEF OneExitInFlight, PendingOn
<1> QED BY <1>2, <1>4, <1>5, <1>6, <1>7, <1>8, <1>9

LEMMA ClearedOrders ==
    ASSUME orders' = Nothing, pending' = Nothing, fills' = {}, traded_mints' = {}
    PROVE  OrderInv'
BY NothingFacts
   DEF OrderInv, OrdersTyped, PartialFunction, EntriesKnown, EntriesOf, OneEntryPerMint,
       FilledRowsClosed, RowsMatch, EntriesFresh, OneExitInFlight, PendingOn

\* A restart watches what the database still waits for.
LEMMA LoadedOrders ==
    ASSUME OrderInv, pending' = Recovered, traded_mints' = EntriesOf(fills),
           UNCHANGED <<orders, fills>>, DOMAIN positions' = DOMAIN positions
    PROVE  /\ OrderInv'
           /\ \A o \in DOMAIN pending' : o \in DOMAIN pending /\ StillPending(o)'
<1> USE DEF OrderInv
<1>1. /\ \A o : o \in DOMAIN pending' <=> o \in DOMAIN orders /\ orders[o].status = "pending"
      /\ \A o \in DOMAIN pending' : pending'[o] = orders[o]
      BY DEF Recovered
<1>2. traded_mints' = traded_mints
      BY DEF EntriesKnown
<1>3. \A o \in DOMAIN pending' :
          /\ o \in DOMAIN pending /\ StillPending(o)
          /\ pending'[o].mint = pending[o].mint /\ pending'[o].side = pending[o].side
      BY <1>1 DEF RowsMatch, StillPending
<1>4. OrdersTyped'
      BY <1>1, <1>2 DEF OrdersTyped, PartialFunction
<1>5. EntriesKnown' /\ OneEntryPerMint' /\ FilledRowsClosed'
      BY <1>2 DEF EntriesKnown, EntriesOf, OneEntryPerMint, FilledRowsClosed
<1>6. RowsMatch'
      BY <1>1 DEF RowsMatch
<1>7. EntriesFresh'
      BY <1>2, <1>3 DEF EntriesFresh, PendingOn, StillPending
<1>8. OneExitInFlight'
      BY <1>3 DEF OneExitInFlight, PendingOn
<1> QED BY <1>3, <1>4, <1>5, <1>6, <1>7, <1>8 DEF StillPending

-----------------------------------------------------------------------------
(* What a step may do to the call in progress.                              *)

\* The plan of a call that is taken up between calls.
OpeningPlans ==
    {<<"mark", "exit", "fill", "expire">>, <<"mark">>, <<"each">>, <<"each", "expire">>,
     <<"expire">>, <<"cancel_pending_orders">>, <<"cancel_pending_buys", "freeze">>,
     <<"cancel_pending_buys">>, <<"cancel_pending_sells">>, <<"profile_exits">>}

LEMMA CallFields ==
    ASSUME CallOK
    PROVE  /\ call.plan \in Seq(Steps) /\ call.mint \in Mints \cup {"none"}
           /\ call.now \in Times /\ call.clock \in Times /\ call.reserve \in Times
           /\ call.route \in Routes /\ call.rest \in SUBSET Mints
           /\ call.order \in OrderIds \cup {0} /\ call.resuming \in BOOLEAN
<1>1. Steps = {"mark", "exit", "fill", "entry_mark", "expire", "each", "freeze", "profile_exits"}
              \cup DOMAIN CancelSides
      BY DEF Steps, CancelSides
<1> QED BY <1>1 DEF CallOK, CallType

\* A call whose fields have their types.
LEMMA CallTyped ==
    ASSUME NEW plan \in Seq(Steps), NEW mint \in Mints \cup {"none"},
           NEW now \in Times, NEW clock \in Times, NEW reserve \in Times,
           NEW route \in Routes, NEW rest \in SUBSET Mints, NEW order \in OrderIds \cup {0},
           NEW resuming \in BOOLEAN
    PROVE  [plan |-> plan, mint |-> mint, now |-> now, clock |-> clock, reserve |-> reserve,
            route |-> route, rest |-> rest, order |-> order, resuming |-> resuming] \in CallType
<1>1. Steps = {"mark", "exit", "fill", "entry_mark", "expire", "each", "freeze", "profile_exits"}
              \cup DOMAIN CancelSides
      BY DEF Steps, CancelSides
<1> QED BY <1>1 DEF CallType

LEMMA OpeningsOK ==
    \A plan \in OpeningPlans \cup {<<>>} :
        /\ PlanOK(plan, FALSE)
        /\ plan # <<>> => Head(plan) # "entry_mark" /\ Head(plan) # "freeze"
<1>1. \A plan \in OpeningPlans \cup {<<>>} : plan \in Seq(Steps)
  <2>1. /\ "mark" \in Steps /\ "exit" \in Steps /\ "fill" \in Steps /\ "expire" \in Steps
        /\ "each" \in Steps /\ "freeze" \in Steps /\ "profile_exits" \in Steps
        /\ "cancel_pending_orders" \in Steps /\ "cancel_pending_buys" \in Steps
        /\ "cancel_pending_sells" \in Steps
        BY DEF Steps
  <2>2. \A a, b, c, d \in Steps :
            /\ <<>> \in Seq(Steps) /\ <<a>> \in Seq(Steps)
            /\ <<a, b>> \in Seq(Steps) /\ <<a, b, c, d>> \in Seq(Steps)
        OBVIOUS
  <2>3. /\ <<"mark", "exit", "fill", "expire">> \in Seq(Steps) /\ <<"mark">> \in Seq(Steps)
        /\ <<"each">> \in Seq(Steps) /\ <<"each", "expire">> \in Seq(Steps)
        /\ <<"expire">> \in Seq(Steps) /\ <<"cancel_pending_orders">> \in Seq(Steps)
        /\ <<"cancel_pending_buys", "freeze">> \in Seq(Steps)
        /\ <<"cancel_pending_buys">> \in Seq(Steps)
        /\ <<"cancel_pending_sells">> \in Seq(Steps) /\ <<"profile_exits">> \in Seq(Steps)
        /\ <<>> \in Seq(Steps)
        BY <2>1, <2>2
  <2> QED BY <2>3 DEF OpeningPlans
<1>2. ASSUME NEW plan \in OpeningPlans \cup {<<>>}
      PROVE  /\ \A i \in 2..Len(plan) : plan[i] # "entry_mark"
             /\ \A i \in 2..Len(plan) :
                    plan[i] = "freeze" => i = 2 /\ plan[1] = "cancel_pending_buys"
             /\ plan # <<>> => Head(plan) # "entry_mark" /\ Head(plan) # "freeze"
      BY DEF OpeningPlans
<1> QED BY <1>1, <1>2 DEF PlanOK

LEMMA IdleOK == Idle \in CallType /\ Idle.plan = <<>> /\ Idle.resuming = FALSE
<1>1. 1 \in Times
      BY BrokerAssumption DEF Times
<1>2. <<>> \in Seq(Steps) /\ "active" \in Routes
      BY DEF Routes
<1> QED BY <1>1, <1>2, CallTyped DEF Idle

LEMMA CallEnds ==
    ASSUME call' = Idle
    PROVE  CallOK' /\ AtRest'
<1>1. PlanOK(<<>>, FALSE)
      BY OpeningsOK
<1> QED BY <1>1, IdleOK DEF CallOK, AtRest

LEMMA RestAtNothing == AtRest => \A s : ~At(s)
BY DEF AtRest, At

LEMMA CallStarts ==
    ASSUME call' \in CallType, call'.plan \in OpeningPlans,
           call'.resuming => call'.plan = <<"each">>
    PROVE  CallOK' /\ ~At("entry_mark")' /\ ~At("freeze")'
<1>1. /\ PlanOK(call'.plan, FALSE)
      /\ call'.plan # <<>> => Head(call'.plan) # "entry_mark" /\ Head(call'.plan) # "freeze"
      BY OpeningsOK
<1>2. ASSUME call'.resuming PROVE PlanOK(call'.plan, TRUE)
  <2>1. call'.plan = <<"each">>
        BY <1>2
  <2>2. \A i \in 1..Len(<<"each">>) : <<"each">>[i] \in {"each", "mark", "exit"}
        OBVIOUS
  <2> QED BY <1>1, <2>1, <2>2 DEF PlanOK
<1>3. call'.resuming \in BOOLEAN
      BY DEF CallType
<1>4. PlanOK(call'.plan, call'.resuming)
  <2>1. CASE call'.resuming
        BY <1>2, <1>3, <2>1 DEF PlanOK
  <2>2. CASE ~call'.resuming
        BY <1>1, <1>3, <2>2 DEF PlanOK
  <2> QED BY <2>1, <2>2
<1> QED BY <1>1, <1>4 DEF CallOK, At

LEMMA PlanTail ==
    ASSUME NEW plan, NEW resuming, PlanOK(plan, resuming), plan # <<>>
    PROVE  /\ PlanOK(Tail(plan), resuming)
           /\ Tail(plan) # <<>> =>
                  /\ Head(Tail(plan)) # "entry_mark"
                  /\ Head(Tail(plan)) = "freeze" => Head(plan) = "cancel_pending_buys"
<1> USE DEF PlanOK
<1>1. /\ Tail(plan) \in Seq(Steps) /\ Len(Tail(plan)) = Len(plan) - 1 /\ Len(plan) \in Nat \ {0}
      /\ \A i \in 1..Len(Tail(plan)) : Tail(plan)[i] = plan[i + 1]
      OBVIOUS
<1>2. \A i \in 2..Len(Tail(plan)) : i + 1 \in 2..Len(plan) /\ i + 1 # 2
      BY <1>1
<1>3. \A i \in 1..Len(Tail(plan)) : i + 1 \in 1..Len(plan)
      BY <1>1
<1>4. PlanOK(Tail(plan), resuming)
      BY <1>1, <1>2, <1>3
<1>5. ASSUME Tail(plan) # <<>>
      PROVE  Head(Tail(plan)) = plan[2] /\ Head(plan) = plan[1] /\ 2 \in 2..Len(plan)
      BY <1>1, <1>5
<1> QED BY <1>4, <1>5

LEMMA CallContinues ==
    ASSUME CallOK, ~AtRest, Continue
    PROVE  /\ CallOK' /\ ~At("entry_mark")' /\ (At("freeze")' => At("cancel_pending_buys"))
           /\ UNCHANGED <<running, trading_enabled>>
<1> USE DEF AtRest
<1>1. UNCHANGED <<running, trading_enabled>>
      BY DEF Continue
<1>2. CASE Tail(call.plan) = <<>>
  <2>1. call' = Idle
        BY <1>2 DEF Continue
  <2> QED BY <1>1, <2>1, CallEnds, RestAtNothing DEF At
<1>3. CASE Tail(call.plan) # <<>>
  <2>1. call' = [call EXCEPT !.plan = Tail(call.plan)]
        BY <1>3 DEF Continue
  <2>2. PlanOK(Tail(call.plan), call.resuming)
        BY PlanTail DEF CallOK
  <2>3. Tail(call.plan) \in Seq(Steps)
        BY <2>2 DEF PlanOK
  <2>4. call' \in CallType /\ call'.plan = Tail(call.plan) /\ call'.resuming = call.resuming
        BY <2>1, <2>3, CallFields DEF CallOK, CallType, Steps, CancelSides
  <2>5. CallOK'
        BY <2>2, <2>4 DEF CallOK
  <2> QED BY <1>1, <1>3, <2>4, <2>5, PlanTail DEF CallOK, At
<1> QED BY <1>2, <1>3

\* How a step of a call leaves the call: a cancellation goes on when no order is left, and
\* a fill may also raise on its own.
CallStep ==
    \/ Continue /\ (At("cancel_pending_orders") \/ At("cancel_pending_buys")
                        => PendingOn("buy")' = {})
    \/ Repeat /\ ~At("entry_mark")
    \/ Unwind /\ (WriteMayFail \/ At("fill"))

\* An empty portfolio stays empty.
NothingFromNothing ==
    DOMAIN pending = {} /\ DOMAIN positions = {} /\ fills = {}
        => DOMAIN pending' = {} /\ DOMAIN positions' = {} /\ fills' = {}

LEMMA FillIsNoResume ==
    ASSUME CallOK, At("fill")
    PROVE  call.resuming = FALSE
<1>1. call.plan \in Seq(Steps) /\ call.plan # <<>> /\ call.plan[1] = "fill" /\ 1 \in 1..Len(call.plan)
      BY CallFields DEF At
<1>2. ~(call.resuming)
      BY <1>1 DEF CallOK, PlanOK
<1> QED BY <1>2, CallFields

\* A step of a call that opens no entry keeps everything but positions and orders right.
LEMMA InCall ==
    ASSUME BrokerInv, ~AtRest, CallStep, UNCHANGED portfolioVars,
           NothingFromNothing, PendingOn("buy")' \subseteq PendingOn("buy")
    PROVE  /\ FlagsTyped' /\ SeasonTyped' /\ CallOK'
           /\ EntryMarkOK' /\ NoSeasonIsEmpty' /\ EntriesCancelled'
<1> USE DEF BrokerInv
<1>1. UNCHANGED <<season, opened, locked, starting, unresolved, quarantined>>
      BY DEF portfolioVars
<1>2. SeasonTyped' /\ (WriteMayFail' <=> WriteMayFail)
      BY <1>1 DEF SeasonTyped, WriteMayFail
<1>3. At("fill") => /\ ~At("cancel_pending_orders") /\ ~At("cancel_pending_buys")
                    /\ call.resuming = FALSE
      BY FillIsNoResume DEF At
<1>4. CASE Continue /\ (At("cancel_pending_orders") \/ At("cancel_pending_buys")
                            => PendingOn("buy")' = {})
  <2>1. /\ CallOK' /\ ~At("entry_mark")' /\ (At("freeze")' => At("cancel_pending_buys"))
        /\ UNCHANGED <<running, trading_enabled>>
        BY <1>4, CallContinues
  <2>2. FlagsTyped'
        BY <1>1, <2>1 DEF FlagsTyped
  <2>3. EntryMarkOK' /\ NoSeasonIsEmpty'
        BY <1>1, <2>1 DEF EntryMarkOK, NoSeasonIsEmpty, NothingFromNothing
  <2>4. EntriesCancelled'
        BY <1>2, <1>4, <2>1 DEF EntriesCancelled
  <2> QED BY <1>2, <2>1, <2>2, <2>3, <2>4
<1>5. CASE Repeat /\ ~At("entry_mark")
  <2>1. UNCHANGED <<call, running, trading_enabled>> /\ \A s : At(s)' <=> At(s)
        BY <1>5 DEF Repeat, At
  <2>2. FlagsTyped' /\ CallOK'
        BY <1>1, <2>1 DEF FlagsTyped, CallOK
  <2>3. EntryMarkOK' /\ NoSeasonIsEmpty'
        BY <1>1, <1>5, <2>1 DEF EntryMarkOK, NoSeasonIsEmpty, NothingFromNothing
  <2>4. EntriesCancelled'
        BY <1>2, <2>1 DEF EntriesCancelled
  <2> QED BY <1>2, <2>2, <2>3, <2>4
<1>6. CASE Unwind /\ (WriteMayFail \/ At("fill"))
  <2>1. call' = Idle /\ running' = (running /\ ~call.resuming)
        /\ trading_enabled' \in {trading_enabled, trading_enabled /\ ~call.resuming}
        BY <1>6 DEF Unwind
  <2>2. CallOK' /\ \A s : ~At(s)'
        BY <2>1, CallEnds, RestAtNothing DEF AtRest, At
  <2>3. FlagsTyped'
        BY <1>1, <2>1, CallFields, Zenon DEF FlagsTyped
  <2>4. EntryMarkOK' /\ NoSeasonIsEmpty'
        BY <1>1, <2>1, <2>2 DEF EntryMarkOK, NoSeasonIsEmpty, NothingFromNothing
  <2>5. At("fill") => running' = running
        BY <1>3, <2>1, Zenon DEF FlagsTyped
  <2>6. EntriesCancelled'
        BY <1>2, <1>3, <1>6, <2>2, <2>5 DEF EntriesCancelled
  <2> QED BY <1>2, <2>2, <2>3, <2>4, <2>6
<1> QED BY <1>4, <1>5, <1>6 DEF CallStep

-----------------------------------------------------------------------------
(* The steps of a call.                                                     *)

\* What HoldingsEndure says of one step.
InventoryStep ==
    \A m \in DOMAIN positions_db \ DOMAIN positions_db' :
        \/ <<season, m>> \in unresolved'
        \/ \E f \in fills' \ fills : f.side = "sell" /\ f.mint = m
                                     /\ f.opened = positions_db[m].opened
MarkStep ==
    \A m \in DOMAIN positions_db \cap DOMAIN positions_db' :
        season' = season => positions_db'[m].marked >= positions_db[m].marked
StepOK == BrokerInv' /\ InventoryStep /\ MarkStep

LEMMA KeptHoldings ==
    ASSUME MarksKept, DOMAIN positions_db \subseteq DOMAIN positions_db'
    PROVE  InventoryStep /\ MarkStep
BY DEF MarksKept, InventoryStep, MarkStep

LEMMA MarksFacts ==
    ASSUME NEW q \in PositionType, NEW t \in 0..MaxTime, t >= q.marked, NEW route,
           NEW p \in Marks(q, t, route)
    PROVE  /\ p \in PositionType /\ p.opened = q.opened /\ p.cost = q.cost /\ p.book = q.book
           /\ p.marked >= q.marked
<1>1. q.marked \in Int
      BY DEF PositionType
<1>2. (route = "active") \in BOOLEAN
      OBVIOUS
<1>3. CASE p = [q EXCEPT !.stale = TRUE, !.executable = FALSE]
  <2>1. /\ p \in PositionType /\ p.opened = q.opened /\ p.cost = q.cost /\ p.book = q.book
        /\ p.marked = q.marked
        BY <1>3 DEF PositionType
  <2> QED BY <1>1, <2>1
<1>4. CASE p = [q EXCEPT !.executable = FALSE]
  <2>1. /\ p \in PositionType /\ p.opened = q.opened /\ p.cost = q.cost /\ p.book = q.book
        /\ p.marked = q.marked
        BY <1>4 DEF PositionType
  <2> QED BY <1>1, <2>1
<1>5. CASE p = [q EXCEPT !.stale = FALSE, !.executable = (route = "active"), !.marked = t]
      BY <1>1, <1>2, <1>5 DEF PositionType
<1> QED BY <1>3, <1>4, <1>5 DEF Marks

LEMMA MarkPosition ==
    ASSUME BrokerInv, mark_position
    PROVE  StepOK
<1> USE DEF BrokerInv, mark_position
<1>1. ~AtRest /\ ~At("entry_mark") /\ UNCHANGED portfolioVars /\ OrdersSame
      /\ ~At("cancel_pending_orders") /\ ~At("cancel_pending_buys")
      BY DEF At, AtRest, OrdersSame, bookVars
<1>2. CallStep
      BY <1>1 DEF CallStep, Raise
<1>3. PositionInv' /\ MarksKept /\ PositionsKept
  <2>1. CASE ~MarkAllowed(call.mint, call.reserve)
        BY <2>1, SamePositions DEF PositionsSame, bookVars
  <2>2. CASE MarkAllowed(call.mint, call.reserve)
    <3>1. PICK p \in Marks(positions[call.mint], call.reserve, call.route) :
              /\ positions' = Put(positions, call.mint, p)
              /\ positions_db' = Put(positions_db, call.mint, p) \/ positions_db' = positions_db
          BY <2>2
    <3>2. /\ call.mint \in DOMAIN positions /\ positions[call.mint] \in PositionType
          /\ call.reserve \in 0..MaxTime /\ call.reserve >= positions[call.mint].marked
          BY <2>2, CallFields DEF MarkAllowed, PositionInv, PositionsTyped, PartialFunction, Times
    <3> QED BY <3>1, <3>2, MarksFacts, MarkedPositions DEF bookVars
  <2> QED BY <2>1, <2>2
<1>4. OrderInv'
      BY <1>1, <1>3, SameOrders DEF PositionsKept
<1>5. NothingFromNothing /\ PendingOn("buy")' \subseteq PendingOn("buy")
      BY <1>1, <1>3 DEF NothingFromNothing, OrdersSame, PositionsKept, PendingOn
<1>6. /\ FlagsTyped' /\ SeasonTyped' /\ CallOK'
      /\ EntryMarkOK' /\ NoSeasonIsEmpty' /\ EntriesCancelled'
      BY <1>1, <1>2, <1>5, InCall
<1>7. BrokerInv'
      BY <1>3, <1>4, <1>6 DEF BrokerInv
<1> QED BY <1>3, <1>7, KeptHoldings DEF StepOK, PositionsKept

\* A sell order for a position that has no exit in flight.
LEMMA NewExit ==
    ASSUME CallOK, PositionInv, OrderInv, NEW m \in DOMAIN positions, ~has_pending_for(m, {"sell"}),
           NEW o \in FreshOrders,
           pending' = Put(pending, o, NewOrder(m, "sell", call.now, ExitLatency, 0)),
           \/ orders' = Put(orders, o, NewOrder(m, "sell", call.now, ExitLatency, 0))
           \/ orders' = orders,
           UNCHANGED <<positions, fills, traded_mints>>
    PROVE  OrderInv' /\ NothingFromNothing /\ PendingOn("buy")' \subseteq PendingOn("buy")
<1> DEFINE row == NewOrder(m, "sell", call.now, ExitLatency, 0)
<1>1. row \in OrderType /\ row.mint = m /\ row.side = "sell" /\ row.status = "pending"
  <2>1. m \in Mints
        BY DEF PositionInv, PositionsTyped, PartialFunction
  <2> QED BY <2>1, CallFields, BrokerAssumption, NewRow
<1>2. \A q \in DOMAIN pending : pending[q].side = row.side => pending[q].mint # row.mint
      BY <1>1 DEF has_pending_for
<1> HIDE DEF row
<1>3. pending' = Put(pending, o, row) /\ (orders' = Put(orders, o, row) \/ orders' = orders)
      BY DEF row
<1>4. OrderInv'
      BY <1>1, <1>2, <1>3, NewOrders
<1>5. PendingOn("buy")' \subseteq PendingOn("buy")
      BY <1>1, <1>3, PutFacts DEF PendingOn
<1> QED BY <1>4, <1>5 DEF NothingFromNothing

LEMMA ScheduleExit ==
    ASSUME BrokerInv, schedule_exit_if_needed
    PROVE  StepOK
<1> USE DEF BrokerInv, schedule_exit_if_needed
<1>1. /\ ~AtRest /\ ~At("entry_mark") /\ UNCHANGED <<portfolioVars, positions, bookVars>>
      /\ UNCHANGED <<fills, traded_mints, ledger, realized_pnl>>
      /\ ~At("cancel_pending_orders") /\ ~At("cancel_pending_buys")
      BY DEF At, AtRest, bookVars
<1>2. CallStep
      BY <1>1 DEF CallStep, Raise
<1>3. /\ PositionInv' /\ MarksKept /\ PositionsKept
      /\ OrderInv' /\ NothingFromNothing /\ PendingOn("buy")' \subseteq PendingOn("buy")
  <2>1. CASE UNCHANGED <<positions_db, pending, orders>>
    <3>1. PositionInv' /\ MarksKept /\ PositionsKept
          BY <1>1, <2>1, SamePositions DEF PositionsSame
    <3>2. OrderInv'
          BY <1>1, <2>1, SameOrders DEF OrdersSame
    <3> QED BY <1>1, <2>1, <3>1, <3>2 DEF NothingFromNothing, PendingOn
  <2>2. CASE /\ ExitDue(call.mint, call.now)
             /\ positions_db' = Put(positions_db, call.mint, positions[call.mint])
    <3>1. /\ call.mint \in DOMAIN positions /\ ~has_pending_for(call.mint, {"sell"})
          /\ positions[call.mint] \in PositionType /\ positions[call.mint].marked \in Int
          BY <2>2 DEF ExitDue, PositionInv, PositionsTyped, PartialFunction, PositionType
    <3>2. PositionInv' /\ MarksKept /\ PositionsKept
      <4>1. positions[call.mint].marked >= positions[call.mint].marked
            BY <3>1
      <4> QED BY <1>1, <2>2, <3>1, <4>1, MarkedPositions
    <3>3. CASE UNCHANGED <<pending, orders>>
      <4>1. OrderInv'
            BY <1>1, <3>3, SameOrders DEF OrdersSame
      <4> QED BY <1>1, <3>2, <3>3, <4>1 DEF NothingFromNothing, PendingOn
    <3>4. CASE ~UNCHANGED <<pending, orders>>
      <4>1. PICK o \in FreshOrders :
                LET new == NewOrder(call.mint, "sell", call.now, ExitLatency, 0)
                IN  /\ pending' = Put(pending, o, new)
                    /\ orders' = Put(orders, o, new) \/ orders' = orders
            BY <2>2, <3>4
      <4> QED BY <1>1, <3>1, <3>2, <4>1, NewExit
    <3> QED BY <3>3, <3>4
  <2> QED BY <2>1, <2>2
<1>4. /\ FlagsTyped' /\ SeasonTyped' /\ CallOK'
      /\ EntryMarkOK' /\ NoSeasonIsEmpty' /\ EntriesCancelled'
      BY <1>1, <1>2, <1>3, InCall
<1>5. BrokerInv'
      BY <1>3, <1>4 DEF BrokerInv
<1> QED BY <1>3, <1>5, KeptHoldings DEF StepOK, PositionsKept

\* An order is failed or cancelled, row first, or the write raises.
LEMMA ResolveStep ==
    ASSUME BrokerInv, ~AtRest, ~At("entry_mark"), NEW o \in DOMAIN pending,
           NEW status \in {"failed", "cancelled"}, NEW t \in Times, Resolve(o, status, t),
           UNCHANGED <<positions, positions_db, portfolioVars, bookVars>>
    PROVE  StepOK
<1> USE DEF BrokerInv, Resolve
<1>1. UNCHANGED <<positions, positions_db, fills, traded_mints, ledger, realized_pnl>>
      BY DEF bookVars
<1>2. CallStep
      BY DEF CallStep, Raise
<1>3. PositionInv' /\ MarksKept /\ PositionsKept
      BY <1>1, SamePositions DEF PositionsSame
<1>4. OrderInv' /\ \A q \in DOMAIN pending' : q \in DOMAIN pending /\ pending'[q] = pending[q]
  <2>1. CASE UNCHANGED <<orders, pending>>
    <3>1. OrderInv'
          BY <1>1, <2>1, SameOrders DEF OrdersSame
    <3> QED BY <2>1, <3>1
  <2>2. CASE /\ orders' = Put(orders, o, [pending[o] EXCEPT !.status = status, !.filled = t])
             /\ pending' = Drop(pending, o)
    <3> DEFINE row == [pending[o] EXCEPT !.status = status, !.filled = t]
    <3>1. pending[o] \in OrderType
          BY DEF OrderInv, OrdersTyped, PartialFunction
    <3>2. row \in OrderType /\ row.status # "pending"
          BY <3>1, ClosedRow
    <3> HIDE DEF row
    <3>3. orders' = Put(orders, o, row)
          BY <2>2 DEF row
    <3>4. OrderInv'
          BY <1>1, <2>2, <3>2, <3>3, ClosedOrders
    <3> QED BY <2>2, <3>4, DropFacts
  <2> QED BY <2>1, <2>2
<1>5. NothingFromNothing /\ PendingOn("buy")' \subseteq PendingOn("buy")
      BY <1>1, <1>4 DEF NothingFromNothing, PendingOn
<1>6. /\ FlagsTyped' /\ SeasonTyped' /\ CallOK'
      /\ EntryMarkOK' /\ NoSeasonIsEmpty' /\ EntriesCancelled'
      BY <1>2, <1>5, InCall
<1>7. BrokerInv'
      BY <1>3, <1>4, <1>6 DEF BrokerInv
<1> QED BY <1>3, <1>7, KeptHoldings DEF StepOK, PositionsKept

\* A step that only goes on to the next one.
LEMMA ContinueStep ==
    ASSUME BrokerInv, ~AtRest, ~At("entry_mark"), Continue,
           At("cancel_pending_orders") \/ At("cancel_pending_buys") => PendingOn("buy") = {},
           UNCHANGED <<orders, pending, positions, positions_db, portfolioVars, bookVars>>
    PROVE  StepOK
<1> USE DEF BrokerInv
<1>1. UNCHANGED <<positions, positions_db, fills, traded_mints, ledger, realized_pnl>>
      BY DEF bookVars
<1>2. NothingFromNothing /\ PendingOn("buy")' = PendingOn("buy")
      BY <1>1 DEF NothingFromNothing, PendingOn
<1>3. CallStep
      BY <1>2 DEF CallStep
<1>4. PositionInv' /\ MarksKept /\ PositionsKept
      BY <1>1, SamePositions DEF PositionsSame
<1>5. OrderInv'
      BY <1>1, SameOrders DEF OrdersSame
<1>6. /\ FlagsTyped' /\ SeasonTyped' /\ CallOK'
      /\ EntryMarkOK' /\ NoSeasonIsEmpty' /\ EntriesCancelled'
      BY <1>2, <1>3, InCall
<1>7. BrokerInv'
      BY <1>4, <1>5, <1>6 DEF BrokerInv
<1> QED BY <1>4, <1>7, KeptHoldings DEF StepOK, PositionsKept

LEMMA ExpireStuckOrders ==
    ASSUME BrokerInv, expire_stuck_orders
    PROVE  StepOK
<1> USE DEF expire_stuck_orders
<1>1. /\ ~AtRest /\ ~At("entry_mark")
      /\ ~At("cancel_pending_orders") /\ ~At("cancel_pending_buys")
      /\ UNCHANGED <<positions, positions_db, portfolioVars, bookVars>>
      BY DEF At, AtRest
<1>2. CASE Continue /\ UNCHANGED <<orders, pending>>
      BY <1>1, <1>2, ContinueStep
<1>3. CASE \E o \in DOMAIN pending : Resolve(o, "failed", call.clock)
  <2>1. call.clock \in Times
        BY CallFields DEF BrokerInv
  <2> QED BY <1>1, <1>3, <2>1, ResolveStep
<1> QED BY <1>2, <1>3

LEMMA CancelPending ==
    ASSUME BrokerInv, cancel_pending
    PROVE  StepOK
<1>1. PICK step \in DOMAIN CancelSides :
          /\ At(step)
          /\ LET doomed == {o \in DOMAIN pending : pending[o].side \in CancelSides[step]}
             IN  IF doomed = {} THEN Continue /\ UNCHANGED <<orders, pending>>
                 ELSE \E o \in doomed : Resolve(o, "cancelled", call.clock)
          /\ UNCHANGED <<positions, positions_db, portfolioVars, bookVars>>
      BY DEF cancel_pending
<1>2. step \in {"cancel_pending_orders", "cancel_pending_buys", "cancel_pending_sells"}
      BY DEF CancelSides
<1>3. ~AtRest /\ ~At("entry_mark")
      BY <1>1, <1>2 DEF At, AtRest
<1>4. At("cancel_pending_orders") \/ At("cancel_pending_buys") => "buy" \in CancelSides[step]
      BY <1>1, <1>2 DEF At, CancelSides
<1>5. CASE {o \in DOMAIN pending : pending[o].side \in CancelSides[step]} = {}
  <2>1. "buy" \in CancelSides[step] => PendingOn("buy") = {}
        BY <1>5 DEF PendingOn
  <2> QED BY <1>1, <1>3, <1>4, <1>5, <2>1, ContinueStep
<1>6. CASE \E o \in DOMAIN pending : Resolve(o, "cancelled", call.clock)
  <2>1. call.clock \in Times
        BY CallFields DEF BrokerInv
  <2> QED BY <1>1, <1>3, <1>6, <2>1, ResolveStep
<1> QED BY <1>1, <1>5, <1>6

LEMMA FillDone ==
    ASSUME BrokerInv, fill_done
    PROVE  StepOK
<1>1. /\ ~AtRest /\ ~At("entry_mark")
      /\ ~At("cancel_pending_orders") /\ ~At("cancel_pending_buys")
      BY DEF At, AtRest, fill_done
<1> QED BY <1>1, ContinueStep DEF fill_done

LEMMA ProfileExits ==
    ASSUME BrokerInv, schedule_profile_transition_exits
    PROVE  StepOK
<1> USE DEF schedule_profile_transition_exits
<1>1. /\ ~AtRest /\ ~At("entry_mark") /\ UNCHANGED <<positions, positions_db, portfolioVars, bookVars>>
      /\ UNCHANGED <<fills, traded_mints, ledger, realized_pnl>>
      /\ ~At("cancel_pending_orders") /\ ~At("cancel_pending_buys")
      BY DEF At, AtRest, bookVars
<1>2. CASE Continue /\ UNCHANGED <<pending, orders>>
      BY <1>1, <1>2, ContinueStep
<1>3. ASSUME NEW m \in DOMAIN positions, NEW o \in FreshOrders,
             LET new == NewOrder(m, "sell", call.now, ExitLatency, 0)
             IN  /\ ~has_pending_for(m, {"sell"})
                 /\ pending' = Put(pending, o, new)
                 /\ \/ orders' = Put(orders, o, new) /\ Repeat
                    \/ UNCHANGED orders /\ Raise
      PROVE  StepOK
  <2> USE DEF BrokerInv
  <2>1. CallStep
        BY <1>1, <1>3 DEF CallStep, Raise
  <2>2. OrderInv' /\ NothingFromNothing /\ PendingOn("buy")' \subseteq PendingOn("buy")
        BY <1>1, <1>3, NewExit
  <2>3. PositionInv' /\ MarksKept /\ PositionsKept
        BY <1>1, SamePositions DEF PositionsSame
  <2>4. /\ FlagsTyped' /\ SeasonTyped' /\ CallOK'
        /\ EntryMarkOK' /\ NoSeasonIsEmpty' /\ EntriesCancelled'
        BY <1>1, <2>1, <2>2, InCall
  <2>5. BrokerInv'
        BY <2>2, <2>3, <2>4 DEF BrokerInv
  <2> QED BY <2>3, <2>5, KeptHoldings DEF StepOK, PositionsKept
<1> QED BY <1>2, <1>3

LEMMA EntryMark ==
    ASSUME BrokerInv, entry_mark
    PROVE  StepOK
<1> USE DEF BrokerInv, entry_mark
<1>1. /\ ~AtRest /\ At("entry_mark") /\ UNCHANGED <<orders, portfolioVars, bookVars>>
      /\ UNCHANGED <<fills, traded_mints, ledger, realized_pnl>>
      /\ ~At("cancel_pending_orders") /\ ~At("cancel_pending_buys")
      BY DEF At, AtRest, bookVars
<1>2. /\ call.mint \in DOMAIN positions /\ positions[call.mint].marked = 0
      /\ positions[call.mint] \in PositionType
      /\ call.order \in DOMAIN orders /\ orders[call.order].status = "filled"
      BY <1>1 DEF EntryMarkOK, PositionInv, PositionsTyped, PartialFunction
<1>3. PICK p \in Marks(positions[call.mint], call.now, call.route) :
          /\ positions' = Put(positions, call.mint, p)
          /\ \/ /\ positions_db' = Put(positions_db, call.mint, p)
                /\ pending' = Drop(pending, call.order)
                /\ Continue
             \/ UNCHANGED <<positions_db, pending>> /\ Raise
      OBVIOUS
<1>4. CallStep
      BY <1>1, <1>3 DEF CallStep, Raise
<1>5. PositionInv' /\ MarksKept /\ PositionsKept
  <2>1. call.now \in 0..MaxTime /\ call.now >= positions[call.mint].marked
        BY <1>2, CallFields, BrokerAssumption DEF Times
  <2> QED BY <1>1, <1>2, <1>3, <2>1, MarksFacts, MarkedPositions
<1>6. OrderInv' /\ \A q \in DOMAIN pending' : q \in DOMAIN pending /\ pending'[q] = pending[q]
  <2>1. CASE UNCHANGED pending
        BY <1>1, <1>5, <2>1, SameOrders DEF OrdersSame, PositionsKept
  <2>2. CASE pending' = Drop(pending, call.order)
    <3>1. OrderInv'
          BY <1>1, <1>2, <1>5, <2>2, ForgottenOrders DEF PositionsKept
    <3> QED BY <2>2, <3>1, DropFacts
  <2> QED BY <1>3, <2>1, <2>2
<1>7. NothingFromNothing /\ PendingOn("buy")' \subseteq PendingOn("buy")
      BY <1>1, <1>2, <1>6 DEF NothingFromNothing, PendingOn
<1>8. /\ FlagsTyped' /\ SeasonTyped' /\ CallOK'
      /\ EntryMarkOK' /\ NoSeasonIsEmpty' /\ EntriesCancelled'
      BY <1>1, <1>4, <1>7, InCall
<1>9. BrokerInv'
      BY <1>5, <1>6, <1>8 DEF BrokerInv
<1> QED BY <1>5, <1>9, KeptHoldings DEF StepOK, PositionsKept

\* A call that raises leaves everything where it is.
LEMMA UnwindStep ==
    ASSUME BrokerInv, ~AtRest, Unwind, WriteMayFail \/ At("fill"),
           UNCHANGED <<orders, pending, positions, positions_db, portfolioVars, bookVars>>
    PROVE  StepOK
<1> USE DEF BrokerInv
<1>1. UNCHANGED <<positions, positions_db, fills, traded_mints, ledger, realized_pnl>>
      BY DEF bookVars
<1>2. NothingFromNothing /\ PendingOn("buy")' = PendingOn("buy")
      BY <1>1 DEF NothingFromNothing, PendingOn
<1>3. CallStep
      BY DEF CallStep
<1>4. PositionInv' /\ MarksKept /\ PositionsKept
      BY <1>1, SamePositions DEF PositionsSame
<1>5. OrderInv'
      BY <1>1, SameOrders DEF OrdersSame
<1>6. /\ FlagsTyped' /\ SeasonTyped' /\ CallOK'
      /\ EntryMarkOK' /\ NoSeasonIsEmpty' /\ EntriesCancelled'
      BY <1>2, <1>3, InCall
<1>7. BrokerInv'
      BY <1>4, <1>5, <1>6 DEF BrokerInv
<1> QED BY <1>4, <1>7, KeptHoldings DEF StepOK, PositionsKept

\* The sell is committed: the position leaves with the fill that closed it.
LEMMA CommitSellStep ==
    ASSUME BrokerInv, At("fill"), NEW o \in PendingOn("sell"), Due(o),
           call.mint \in DOMAIN positions, StillPending(o), NEW gross \in SellGross,
           CommitSell(o, gross), UNCHANGED portfolioVars
    PROVE  StepOK
<1> USE DEF BrokerInv
<1> DEFINE m == call.mint
           row == [pending[o] EXCEPT !.status = "filled", !.filled = call.now]
           fill == [order |-> o, mint |-> m, side |-> "sell", at |-> call.now,
                    reserve |-> call.reserve, opened |-> positions[m].opened]
<1>1. /\ o \in DOMAIN pending /\ o \in OrderIds /\ pending[o] \in OrderType
      /\ pending[o].side = "sell" /\ pending[o].mint = m
      /\ m \in Mints /\ positions[m] \in PositionType
      BY DEF PendingOn, Due, OrderInv, OrdersTyped, PositionInv, PositionsTyped, PartialFunction
<1>2. call.now \in Times /\ call.reserve \in Times
      BY CallFields
<1>3. row \in OrderType /\ row.status # "pending"
      BY <1>1, <1>2, ClosedRow
<1>4. /\ fill \in FillType /\ fill.order = o /\ fill.side = "sell" /\ fill.mint = m
      /\ fill.opened = positions[m].opened
      BY <1>1, <1>2 DEF FillType, PositionType
<1>5. /\ orders' = Put(orders, o, row) /\ fills' = fills \cup {fill}
      /\ pending' = Drop(pending, o) /\ UNCHANGED traded_mints /\ Repeat
      BY DEF CommitSell
<1>6. /\ positions' = Drop(positions, m) /\ positions_db' = Drop(positions_db, m)
      /\ ledger' = SellEntries(m, gross)
      /\ realized_pnl' = realized_pnl + (gross - ExitFees) - positions[m].cost
      BY DEF CommitSell
<1> HIDE DEF row, fill
<1>7. /\ PositionInv' /\ MarksKept
      /\ DOMAIN positions' = DOMAIN positions \ {m}
      /\ DOMAIN positions_db' = DOMAIN positions_db \ {m}
      BY <1>6, SoldPositions
<1>8. OrderInv'
      BY <1>1, <1>3, <1>4, <1>5, <1>7, ClosedOrders
<1>9. fill \notin fills
      BY <1>4 DEF OrderInv, FilledRowsClosed, StillPending
<1>10. \A q \in DOMAIN pending' : q \in DOMAIN pending /\ pending'[q] = pending[q]
       BY <1>5, DropFacts
<1>11. /\ ~AtRest /\ ~At("entry_mark") /\ CallStep
       /\ NothingFromNothing /\ PendingOn("buy")' \subseteq PendingOn("buy")
       BY <1>1, <1>5, <1>10 DEF At, AtRest, CallStep, NothingFromNothing, PendingOn
<1>12. /\ FlagsTyped' /\ SeasonTyped' /\ CallOK'
       /\ EntryMarkOK' /\ NoSeasonIsEmpty' /\ EntriesCancelled'
       BY <1>11, InCall
<1>13. BrokerInv'
       BY <1>7, <1>8, <1>12 DEF BrokerInv
<1>14. InventoryStep /\ MarkStep
  <2>1. positions_db[m].opened = positions[m].opened
        BY DEF PositionInv, PositionsMatch
  <2> QED BY <1>4, <1>5, <1>7, <1>9, <2>1 DEF InventoryStep, MarkStep, MarksKept
<1> QED BY <1>13, <1>14 DEF StepOK

LEMMA FillSell ==
    ASSUME BrokerInv, fill_sell
    PROVE  StepOK
<1>1. PICK o \in PendingOn("sell") :
          /\ Due(o)
          /\ \/ /\ Resolve(o, "failed", call.now)
                /\ UNCHANGED <<positions, positions_db, bookVars>>
             \/ /\ call.mint \in DOMAIN positions
                /\ \E gross \in SellGross :
                     \/ /\ StillPending(o) /\ call.mint \in DOMAIN positions_db
                        /\ CommitSell(o, gross)
                     \/ /\ Unwind
                        /\ UNCHANGED <<orders, pending, positions, positions_db, bookVars>>
      BY DEF fill_sell
<1>2. At("fill") /\ UNCHANGED portfolioVars /\ ~AtRest /\ ~At("entry_mark")
      BY DEF fill_sell, At, AtRest
<1>3. CASE Resolve(o, "failed", call.now) /\ UNCHANGED <<positions, positions_db, bookVars>>
  <2>1. o \in DOMAIN pending /\ call.now \in Times
        BY CallFields DEF PendingOn, BrokerInv
  <2> QED BY <1>2, <1>3, <2>1, ResolveStep
<1>4. CASE /\ call.mint \in DOMAIN positions /\ StillPending(o)
           /\ \E gross \in SellGross : CommitSell(o, gross)
      BY <1>1, <1>2, <1>4, CommitSellStep
<1>5. CASE Unwind /\ UNCHANGED <<orders, pending, positions, positions_db, bookVars>>
      BY <1>2, <1>5, UnwindStep
<1> QED BY <1>1, <1>3, <1>4, <1>5

LEMMA PlanPushed ==
    ASSUME NEW plan, plan # <<>>, PlanOK(plan, FALSE), Head(plan) = "fill"
    PROVE  PlanOK(<<"entry_mark">> \o plan, FALSE)
<1> DEFINE next == <<"entry_mark">> \o plan
<1> USE DEF PlanOK
<1>1. next \in Seq(Steps)
  <2>1. <<"entry_mark">> \in Seq(Steps)
        BY DEF Steps
  <2> QED BY <2>1
<1>2. Len(next) = Len(plan) + 1 /\ plan[1] = "fill" /\ Len(plan) \in Nat \ {0}
      OBVIOUS
<1>3. \A i \in 2..Len(next) : next[i] = plan[i - 1] /\ i - 1 \in 1..Len(plan)
      BY <1>2
<1>4. \A i \in 1..Len(plan) : plan[i] # "entry_mark" /\ plan[i] # "freeze"
  <2> SUFFICES ASSUME NEW i \in 1..Len(plan)
               PROVE  plan[i] # "entry_mark" /\ plan[i] # "freeze"
      OBVIOUS
  <2>1. CASE i = 1
        BY <1>2, <2>1
  <2>2. CASE i # 1
    <3>1. i \in 2..Len(plan)
          BY <1>2, <2>2
    <3> QED BY <1>2, <3>1
  <2> QED BY <2>1, <2>2
<1> HIDE DEF next
<1>5. PlanOK(next, FALSE)
      BY <1>1, <1>2, <1>3, <1>4
<1> QED BY <1>5 DEF next

\* The entry is committed: a new position of a mint never entered, and the mark comes next.
LEMMA CommitBuyStep ==
    ASSUME BrokerInv, At("fill"), NEW o \in PendingOn("buy"), Due(o), StillPending(o),
           NEW required, NEW total \in BuyTotals, NEW aged, FillFunded(required, total, aged),
           call.mint \notin DOMAIN positions_db,
           CommitBuy(o, total), UNCHANGED <<portfolioVars, pending>>
    PROVE  StepOK
<1> USE DEF BrokerInv
<1> DEFINE m == call.mint
           row == [pending[o] EXCEPT !.status = "filled", !.filled = call.now]
           fill == [order |-> o, mint |-> m, side |-> "buy", at |-> call.now,
                    reserve |-> call.reserve, opened |-> call.now]
<1>1. /\ o \in DOMAIN pending /\ o \in OrderIds /\ pending[o] \in OrderType
      /\ pending[o].side = "buy" /\ pending[o].mint = m /\ m \in Mints
      BY DEF PendingOn, Due, OrderInv, OrdersTyped, PartialFunction, OrderType
<1>2. call.now \in Times /\ call.reserve \in Times /\ call.resuming = FALSE /\ call.plan # <<>>
      BY CallFields, FillIsNoResume DEF At
<1>3. /\ row \in OrderType /\ row.status = "filled" /\ row.mint = pending[o].mint
      /\ row.side = pending[o].side /\ row.created = pending[o].created
      /\ row.after = pending[o].after
  <2>1. row \in OrderType
        BY <1>1, <1>2, ClosedRow
  <2>2. /\ row.status = "filled"
        /\ row.mint = pending[o].mint /\ row.side = pending[o].side
        /\ row.created = pending[o].created /\ row.after = pending[o].after
        BY <1>1 DEF OrderType
  <2> QED BY <2>1, <2>2
<1>4. fill \in FillType /\ fill.order = o /\ fill.side = "buy" /\ fill.mint = pending[o].mint
      BY <1>1, <1>2 DEF FillType
<1>5. /\ orders' = Put(orders, o, row) /\ fills' = fills \cup {fill}
      /\ traded_mints' = traded_mints \cup {fill.mint}
      /\ UNCHANGED <<pending, running, trading_enabled, realized_pnl>>
      BY <1>1 DEF CommitBuy
<1>6. /\ positions' = Put(positions, m, OpenedPosition(total))
      /\ positions_db' = Put(positions_db, m, OpenedPosition(total))
      /\ ledger' = BuyEntries(m, total)
      BY DEF CommitBuy
<1>7. call' = [call EXCEPT !.plan = <<"entry_mark">> \o call.plan, !.order = o]
      BY DEF CommitBuy
<1> HIDE DEF row, fill
<1>8. total <= cash_lamports
      BY DEF FillFunded
<1>9. /\ PositionInv' /\ MarksKept
      /\ DOMAIN positions' = DOMAIN positions \cup {m} /\ positions'[m].marked = 0
      /\ DOMAIN positions_db' = DOMAIN positions_db \cup {m}
      BY <1>1, <1>2, <1>5, <1>6, <1>8, BoughtPositions
<1>10. OrderInv'
  <2>1. row.status # "pending"
        BY <1>3
  <2> QED BY <1>3, <1>4, <1>5, <1>9, <2>1, BoughtOrders
<1>11. CallOK' /\ call'.mint = m /\ call'.order = o /\ \A s : At(s)' => s = "entry_mark"
  <2>1. PlanOK(<<"entry_mark">> \o call.plan, FALSE)
        BY <1>2, PlanPushed DEF CallOK, At
  <2>2. <<"entry_mark">> \o call.plan \in Seq(Steps)
        BY <2>1 DEF PlanOK
  <2>3. Head(<<"entry_mark">> \o call.plan) = "entry_mark"
        BY CallFields
  <2>4. /\ call' \in CallType /\ call'.plan = <<"entry_mark">> \o call.plan
        /\ call'.resuming = FALSE /\ call'.mint = m /\ call'.order = o
        BY <1>1, <1>2, <1>7, <2>2, CallFields DEF CallOK, CallType, Steps, CancelSides
  <2> QED BY <2>1, <2>3, <2>4 DEF CallOK, At
<1>12. UNCHANGED <<season, opened, locked, starting, unresolved, quarantined>>
       BY DEF portfolioVars
<1>13. FlagsTyped' /\ SeasonTyped'
       BY <1>5, <1>12 DEF FlagsTyped, SeasonTyped
<1>14. EntryMarkOK'
  <2>1. o \in DOMAIN orders' /\ orders'[o].status = "filled"
        BY <1>3, <1>5, PutFacts
  <2> QED BY <1>9, <1>11, <2>1 DEF EntryMarkOK
<1>15. NoSeasonIsEmpty'
       BY <1>1, <1>12 DEF NoSeasonIsEmpty
<1>16. EntriesCancelled'
  <2>1. PendingOn("buy") # {} /\ ~At("cancel_pending_orders") /\ ~At("cancel_pending_buys")
        BY DEF At
  <2>2. WriteMayFail \/ running
        BY <2>1 DEF EntriesCancelled
  <2> QED BY <1>5, <1>11, <1>12, <2>2 DEF EntriesCancelled, WriteMayFail
<1>17. BrokerInv'
       BY <1>9, <1>10, <1>11, <1>13, <1>14, <1>15, <1>16 DEF BrokerInv
<1> QED BY <1>9, <1>17, KeptHoldings DEF StepOK

LEMMA FillBuy ==
    ASSUME BrokerInv, fill_buy
    PROVE  StepOK
<1>1. PICK o \in PendingOn("buy") :
          /\ Due(o)
          /\ \/ /\ Resolve(o, "failed", call.now)
                /\ UNCHANGED <<positions, positions_db, bookVars>>
             \/ \E required \in RequiredAtFill(o), total \in BuyTotals, aged \in SUBSET DOMAIN positions :
                  /\ FillFunded(required, total, aged)
                  /\ \/ /\ StillPending(o) /\ call.mint \notin DOMAIN positions_db
                        /\ CommitBuy(o, total)
                        /\ UNCHANGED pending
                     \/ /\ Unwind
                        /\ UNCHANGED <<orders, pending, positions, positions_db, bookVars>>
      BY DEF fill_buy
<1>2. At("fill") /\ UNCHANGED portfolioVars /\ ~AtRest /\ ~At("entry_mark")
      BY DEF fill_buy, At, AtRest
<1>3. CASE Resolve(o, "failed", call.now) /\ UNCHANGED <<positions, positions_db, bookVars>>
  <2>1. o \in DOMAIN pending /\ call.now \in Times
        BY CallFields DEF PendingOn, BrokerInv
  <2> QED BY <1>2, <1>3, <2>1, ResolveStep
<1>4. ASSUME NEW required, NEW total \in BuyTotals, NEW aged, FillFunded(required, total, aged),
             StillPending(o), call.mint \notin DOMAIN positions_db,
             CommitBuy(o, total), UNCHANGED pending
      PROVE  StepOK
      BY <1>1, <1>2, <1>4, CommitBuyStep
<1>5. CASE Unwind /\ UNCHANGED <<orders, pending, positions, positions_db, bookVars>>
      BY <1>2, <1>5, UnwindStep
<1> QED BY <1>1, <1>3, <1>4, <1>5

-----------------------------------------------------------------------------
(* The calls.                                                               *)

\* A call is taken up: it plans its steps, and may start or stop the engine.
LEMMA StartStep ==
    ASSUME BrokerInv, AtRest, call' \in CallType, call'.plan \in OpeningPlans,
           call'.resuming => call'.plan = <<"each">>,
           UNCHANGED <<orders, positions_db, positions, pending, bookVars,
                       season, opened, starting, unresolved, quarantined>>,
           locked' \in BOOLEAN, running' \in BOOLEAN, trading_enabled' \in BOOLEAN,
           running' => running \/ season # 0,
           running' \/ running' = running \/ call'.plan = <<"cancel_pending_orders">>
    PROVE  StepOK
<1> USE DEF BrokerInv
<1>1. UNCHANGED <<fills, traded_mints, ledger, realized_pnl>>
      BY DEF bookVars
<1>2. CallOK' /\ ~At("entry_mark")' /\ ~At("freeze")'
      BY CallStarts
<1>3. PositionInv' /\ MarksKept /\ PositionsKept
      BY <1>1, SamePositions DEF PositionsSame
<1>4. OrderInv'
      BY <1>1, SameOrders DEF OrdersSame
<1>5. FlagsTyped'
      BY Zenon DEF FlagsTyped
<1>6. SeasonTyped'
      BY DEF SeasonTyped
<1>7. EntryMarkOK'
      BY <1>2 DEF EntryMarkOK
<1>8. NoSeasonIsEmpty'
  <2>1. ASSUME season = 0 PROVE ~running'
        BY <2>1 DEF NoSeasonIsEmpty
  <2> QED BY <1>1, <2>1 DEF NoSeasonIsEmpty
<1>9. EntriesCancelled'
  <2>1. ~WriteMayFail /\ ~running => PendingOn("buy") = {}
        BY RestAtNothing DEF EntriesCancelled
  <2>2. call'.plan = <<"cancel_pending_orders">> => At("cancel_pending_orders")'
        BY DEF At
  <2>3. ASSUME ~WriteMayFail, ~running', PendingOn("buy") # {}
        PROVE  At("cancel_pending_orders")'
        BY <2>1, <2>2, <2>3
  <2>4. (WriteMayFail' <=> WriteMayFail) /\ PendingOn("buy")' = PendingOn("buy")
        BY DEF WriteMayFail, PendingOn
  <2> QED BY <1>2, <2>3, <2>4 DEF EntriesCancelled
<1>10. BrokerInv'
       BY <1>2, <1>3, <1>4, <1>5, <1>6, <1>7, <1>8, <1>9 DEF BrokerInv
<1> QED BY <1>3, <1>10, KeptHoldings DEF StepOK, PositionsKept

\* What a call that only plans leaves alone.
LEMMA PlanningStep ==
    ASSUME BrokerInv, AtRest, UNCHANGED <<running, trading_enabled, brokerVars>>,
           call' \in CallType, call'.plan \in OpeningPlans, ~call'.resuming
    PROVE  StepOK
<1>1. /\ UNCHANGED <<orders, positions_db, positions, pending, bookVars,
                     season, opened, starting, unresolved, quarantined>>
      /\ UNCHANGED locked
      BY DEF brokerVars, portfolioVars
<1>2. locked' \in BOOLEAN /\ running' \in BOOLEAN /\ trading_enabled' \in BOOLEAN
      BY <1>1 DEF BrokerInv, FlagsTyped
<1> QED BY <1>1, <1>2, StartStep

\* A call starts from the idle one.
LEMMA PlanTyped ==
    ASSUME NEW plan \in OpeningPlans
    PROVE  plan \in Seq({"mark", "exit", "fill", "entry_mark", "expire", "each", "freeze",
                         "profile_exits"} \cup DOMAIN CancelSides)
<1>1. plan \in Seq(Steps)
      BY OpeningsOK DEF PlanOK
<1>2. Steps = {"mark", "exit", "fill", "entry_mark", "expire", "each", "freeze", "profile_exits"}
              \cup DOMAIN CancelSides
      BY DEF Steps, CancelSides
<1> QED BY <1>1, <1>2

LEMMA FromIdle ==
    ASSUME NEW plan \in OpeningPlans,
           \/ call' = [Idle EXCEPT !.plan = plan]
           \/ \E now \in Times : call' = [Idle EXCEPT !.plan = plan, !.now = now, !.clock = now]
           \/ \E now \in Times, rest \in SUBSET Mints :
                call' = [Idle EXCEPT !.plan = plan, !.now = now, !.clock = now, !.rest = rest]
           \/ \E mint \in Mints, now \in Times, reserve \in Times, route \in Routes :
                call' = [Idle EXCEPT !.plan = plan, !.mint = mint, !.now = now, !.clock = now,
                                     !.reserve = reserve, !.route = route]
    PROVE  call' \in CallType /\ call'.plan = plan /\ call'.resuming = FALSE
<1>1. CASE call' = [Idle EXCEPT !.plan = plan]
      BY <1>1, PlanTyped, IdleOK DEF CallType
<1>2. ASSUME NEW now \in Times, call' = [Idle EXCEPT !.plan = plan, !.now = now, !.clock = now]
      PROVE  call' \in CallType /\ call'.plan = plan /\ call'.resuming = FALSE
      BY <1>2, PlanTyped, IdleOK DEF CallType
<1>3. ASSUME NEW now \in Times, NEW rest \in SUBSET Mints,
             call' = [Idle EXCEPT !.plan = plan, !.now = now, !.clock = now, !.rest = rest]
      PROVE  call' \in CallType /\ call'.plan = plan /\ call'.resuming = FALSE
      BY <1>3, PlanTyped, IdleOK DEF CallType
<1>4. ASSUME NEW mint \in Mints, NEW now \in Times, NEW reserve \in Times, NEW route \in Routes,
             call' = [Idle EXCEPT !.plan = plan, !.mint = mint, !.now = now, !.clock = now,
                                  !.reserve = reserve, !.route = route]
      PROVE  call' \in CallType /\ call'.plan = plan /\ call'.resuming = FALSE
      BY <1>4, PlanTyped, IdleOK DEF CallType
<1> QED BY <1>1, <1>2, <1>3, <1>4

LEMMA TrackedMints ==
    ASSUME BrokerInv
    PROVE  Tracked \subseteq Mints /\ DOMAIN positions \subseteq Mints
BY DEF BrokerInv, Tracked, PositionInv, PositionsTyped, OrderInv, OrdersTyped, PartialFunction,
       OrderType

LEMMA MarketStates ==
    ASSUME BrokerInv, on_market_state \/ observe_market_state
    PROVE  StepOK
<1>1. PICK m \in Mints, now \in Times, route \in Routes, reserve \in Times, plan \in OpeningPlans :
          call' = [Idle EXCEPT !.plan = plan, !.mint = m, !.now = now, !.clock = now,
                               !.reserve = reserve, !.route = route]
  <2>0. \A now \in Times : 1..now \subseteq Times
        BY BrokerAssumption DEF Times
  <2>1. CASE on_market_state
    <3>1. <<"mark", "exit", "fill", "expire">> \in OpeningPlans
          BY DEF OpeningPlans
    <3> QED BY <2>0, <2>1, <3>1, TrackedMints DEF on_market_state
  <2>2. CASE observe_market_state
    <3>1. <<"mark">> \in OpeningPlans
          BY DEF OpeningPlans
    <3> QED BY <2>0, <2>2, <3>1, TrackedMints DEF observe_market_state
  <2> QED BY <2>1, <2>2
<1>2. call' \in CallType /\ call'.plan = plan /\ call'.resuming = FALSE
      BY <1>1, FromIdle
<1> QED BY <1>2, PlanningStep DEF on_market_state, observe_market_state

LEMMA HeartbeatTick ==
    ASSUME BrokerInv, heartbeat_tick
    PROVE  StepOK
<1>1. PICK now \in Times, plan \in OpeningPlans :
          call' = [Idle EXCEPT !.plan = plan, !.now = now, !.clock = now, !.rest = Tracked]
  <2>1. <<"each", "expire">> \in OpeningPlans /\ <<"expire">> \in OpeningPlans
        BY DEF OpeningPlans
  <2> QED BY <2>1 DEF heartbeat_tick
<1>2. call' \in CallType /\ call'.plan = plan /\ call'.resuming = FALSE
      BY <1>1, FromIdle, TrackedMints
<1> QED BY <1>2, PlanningStep DEF heartbeat_tick

LEMMA ProfileCalls ==
    ASSUME BrokerInv, request_season_profile \/ profile_transition_tick
    PROVE  StepOK
<1>1. PICK plan \in OpeningPlans :
          \/ call' = [Idle EXCEPT !.plan = plan]
          \/ \E now \in Times : call' = [Idle EXCEPT !.plan = plan, !.now = now, !.clock = now]
  <2>1. /\ <<"cancel_pending_buys", "freeze">> \in OpeningPlans
        /\ <<"cancel_pending_sells">> \in OpeningPlans /\ <<"profile_exits">> \in OpeningPlans
        BY DEF OpeningPlans
  <2> QED BY <2>1 DEF request_season_profile, profile_transition_tick
<1>2. call' \in CallType /\ call'.plan = plan /\ call'.resuming = FALSE
      BY <1>1, FromIdle
<1> QED BY <1>2, PlanningStep DEF request_season_profile, profile_transition_tick

LEMMA ResumeTrading ==
    ASSUME BrokerInv, resume_trading
    PROVE  StepOK
<1> USE DEF resume_trading
<1>1. PICK now \in Times :
          call' = [Idle EXCEPT !.plan = <<"each">>, !.now = now, !.clock = now,
                               !.rest = DOMAIN positions, !.resuming = TRUE]
      OBVIOUS
<1>2. <<"each">> \in OpeningPlans
      BY DEF OpeningPlans
<1>3. call' \in CallType /\ call'.plan = <<"each">>
      BY <1>1, <1>2, TrackedMints, PlanTyped, IdleOK DEF CallType
<1>4. locked' \in BOOLEAN /\ running' \in BOOLEAN /\ trading_enabled' \in BOOLEAN
      BY Zenon
<1> QED BY <1>2, <1>3, <1>4, StartStep

LEMMA PauseTrading ==
    ASSUME BrokerInv, pause_trading
    PROVE  StepOK
<1> USE DEF pause_trading
<1>1. <<"cancel_pending_orders">> \in OpeningPlans
      BY DEF OpeningPlans
<1>2. /\ call' \in CallType /\ call'.plan = <<"cancel_pending_orders">>
      /\ call'.resuming = FALSE
      BY <1>1, FromIdle
<1>3. /\ UNCHANGED <<orders, positions_db, positions, pending, bookVars,
                     season, opened, starting, unresolved, quarantined>>
      /\ UNCHANGED locked
      BY DEF brokerVars, portfolioVars
<1>4. locked' \in BOOLEAN /\ running' \in BOOLEAN /\ trading_enabled' \in BOOLEAN
      BY <1>3, Zenon DEF BrokerInv, FlagsTyped
<1>5. ~running'
      OBVIOUS
<1> QED BY <1>1, <1>2, <1>3, <1>4, <1>5, StartStep

LEMMA FreezeEntries ==
    ASSUME BrokerInv, freeze_entries
    PROVE  StepOK
<1> USE DEF BrokerInv, freeze_entries
<1>1. /\ UNCHANGED <<orders, pending, positions, positions_db, fills, traded_mints, ledger,
                     realized_pnl>>
      /\ UNCHANGED <<season, opened, locked, starting, unresolved, quarantined>>
      BY DEF brokerVars, portfolioVars, bookVars
<1>2. CallOK' /\ \A s : ~At(s)'
      BY CallEnds, RestAtNothing DEF AtRest, At
<1>3. PositionInv' /\ MarksKept /\ PositionsKept
      BY <1>1, SamePositions DEF PositionsSame
<1>4. OrderInv'
      BY <1>1, SameOrders DEF OrdersSame
<1>5. FlagsTyped'
      BY <1>1, Zenon DEF FlagsTyped
<1>6. SeasonTyped' /\ EntryMarkOK' /\ NoSeasonIsEmpty'
      BY <1>1, <1>2 DEF SeasonTyped, EntryMarkOK, NoSeasonIsEmpty
<1>7. EntriesCancelled'
      BY <1>1, <1>2 DEF EntriesCancelled, WriteMayFail, PendingOn
<1>8. BrokerInv'
      BY <1>2, <1>3, <1>4, <1>5, <1>6, <1>7 DEF BrokerInv
<1> QED BY <1>3, <1>8, KeptHoldings DEF StepOK, PositionsKept

LEMMA SubmitDecision ==
    ASSUME BrokerInv, submit_decision_with_reason
    PROVE  StepOK
<1> USE DEF BrokerInv, submit_decision_with_reason
<1>1. PICK m \in Mints, now \in Times, required \in Costs, aged \in SUBSET DOMAIN positions,
           o \in FreshOrders :
          LET new == NewOrder(m, "buy", now, EntryLatency, required)
          IN  /\ EntryAllowed(m, required, aged)
              /\ pending' = Put(pending, o, new)
              /\ \/ orders' = Put(orders, o, new) /\ UNCHANGED <<call, running, trading_enabled>>
                 \/ UNCHANGED orders /\ Raise
      OBVIOUS
<1>2. /\ UNCHANGED <<positions, positions_db, fills, traded_mints, ledger, realized_pnl>>
      /\ UNCHANGED <<season, opened, locked, starting, unresolved, quarantined>>
      BY DEF bookVars, portfolioVars
<1> DEFINE row == NewOrder(m, "buy", now, EntryLatency, required)
<1>3. row \in OrderType /\ row.mint = m /\ row.side = "buy" /\ row.status = "pending"
  <2>1. EntryLatency \in Nat /\ required \in Nat /\ "buy" \in {"buy", "sell"}
        BY BrokerAssumption
  <2> QED BY <2>1, NewRow
<1>4. m \notin traded_mints /\ \A q \in DOMAIN pending : pending[q].mint # m
  <2>1. m \notin traded_mints /\ ~has_pending_for(m, {"buy", "sell"})
        BY <1>1 DEF EntryAllowed
  <2>2. \A q \in DOMAIN pending : pending[q].side \in {"buy", "sell"}
        BY DEF OrderInv, OrdersTyped, PartialFunction, OrderType
  <2> QED BY <2>1, <2>2 DEF has_pending_for
<1>5. /\ pending' = Put(pending, o, row)
      /\ orders' = Put(orders, o, row) \/ orders' = orders
      BY <1>1
<1> HIDE DEF row
<1>6. OrderInv'
      BY <1>2, <1>3, <1>4, <1>5, NewOrders
<1>7. PositionInv' /\ MarksKept /\ PositionsKept
      BY <1>2, SamePositions DEF PositionsSame
<1>8. UNCHANGED <<call, running, trading_enabled>> \/ (WriteMayFail /\ Unwind)
      BY <1>1 DEF Raise
<1>9. CallOK' /\ \A s : ~At(s)'
  <2>1. CASE UNCHANGED call
        BY <2>1, RestAtNothing DEF CallOK, At, AtRest
  <2>2. CASE Unwind
    <3>1. call' = Idle
          BY <2>2 DEF Unwind
    <3> QED BY <3>1, CallEnds, RestAtNothing DEF AtRest, At
  <2> QED BY <1>8, <2>1, <2>2
<1>10. FlagsTyped'
  <2>1. CASE UNCHANGED <<running, trading_enabled>>
        BY <1>2, <2>1 DEF FlagsTyped
  <2>2. CASE Unwind
    <3>1. /\ running' = (running /\ ~call.resuming)
          /\ trading_enabled' \in {trading_enabled, trading_enabled /\ ~call.resuming}
          BY <2>2 DEF Unwind
    <3> QED BY <1>2, <3>1, Zenon DEF FlagsTyped
  <2> QED BY <1>8, <2>1, <2>2
<1>11. SeasonTyped' /\ EntryMarkOK' /\ NoSeasonIsEmpty'
       BY <1>2, <1>9 DEF SeasonTyped, EntryMarkOK, NoSeasonIsEmpty
<1>12. EntriesCancelled'
       BY <1>2, <1>8, <1>9 DEF EntriesCancelled, WriteMayFail
<1>13. BrokerInv'
       BY <1>6, <1>7, <1>9, <1>10, <1>11, <1>12 DEF BrokerInv
<1> QED BY <1>7, <1>13, KeptHoldings DEF StepOK, PositionsKept

LEMMA MintPushed ==
    ASSUME NEW plan, NEW resuming, plan # <<>>, PlanOK(plan, resuming), Head(plan) = "each"
    PROVE  /\ PlanOK(<<"mark", "exit">> \o plan, resuming)
           /\ ~resuming => PlanOK(<<"mark", "exit", "fill">> \o plan, resuming)
<1> USE DEF PlanOK
<1>1. Len(plan) \in Nat \ {0} /\ plan[1] = "each" /\ plan \in Seq(Steps)
      OBVIOUS
<1>2. \A i \in 1..Len(plan) : plan[i] # "entry_mark" /\ plan[i] # "freeze"
  <2> SUFFICES ASSUME NEW i \in 1..Len(plan)
               PROVE  plan[i] # "entry_mark" /\ plan[i] # "freeze"
      OBVIOUS
  <2>1. CASE i = 1
        BY <1>1, <2>1
  <2>2. CASE i # 1
    <3>1. i \in 2..Len(plan)
          BY <1>1, <2>2
    <3> QED BY <1>1, <3>1
  <2> QED BY <2>1, <2>2
<1>3. "mark" \in Steps /\ "exit" \in Steps /\ "fill" \in Steps
      BY DEF Steps
<1>4. PlanOK(<<"mark", "exit">> \o plan, resuming)
  <2> DEFINE next == <<"mark", "exit">> \o plan
  <2>1. next \in Seq(Steps) /\ Len(next) = Len(plan) + 2 /\ next[1] = "mark" /\ next[2] = "exit"
        BY <1>1, <1>3
  <2>2. \A i \in 3..Len(next) : next[i] = plan[i - 2] /\ i - 2 \in 1..Len(plan)
        BY <1>1, <2>1
  <2> HIDE DEF next
  <2>3. \A i \in 1..Len(next) : i = 1 \/ i = 2 \/ i \in 3..Len(next)
        BY <1>1, <2>1
  <2>4. \A i \in 1..Len(next) : next[i] # "entry_mark" /\ next[i] # "freeze"
        BY <1>2, <2>1, <2>2, <2>3
  <2>5. resuming => \A i \in 1..Len(next) : next[i] \in {"each", "mark", "exit"}
        BY <2>1, <2>2, <2>3
  <2>6. \A i \in 2..Len(next) : i \in 1..Len(next)
        BY <1>1, <2>1
  <2>7. PlanOK(next, resuming)
        BY <2>1, <2>4, <2>5, <2>6
  <2> QED BY <2>7 DEF next
<1>5. ASSUME ~resuming
      PROVE  PlanOK(<<"mark", "exit", "fill">> \o plan, resuming)
  <2> DEFINE next == <<"mark", "exit", "fill">> \o plan
  <2>1. /\ next \in Seq(Steps) /\ Len(next) = Len(plan) + 3
        /\ next[1] = "mark" /\ next[2] = "exit" /\ next[3] = "fill"
        BY <1>1, <1>3
  <2>2. \A i \in 4..Len(next) : next[i] = plan[i - 3] /\ i - 3 \in 1..Len(plan)
        BY <1>1, <2>1
  <2> HIDE DEF next
  <2>3. \A i \in 2..Len(next) : i = 2 \/ i = 3 \/ i \in 4..Len(next)
        BY <1>1, <2>1
  <2>4. \A i \in 2..Len(next) : next[i] # "entry_mark" /\ next[i] # "freeze"
        BY <1>2, <2>1, <2>2, <2>3
  <2>5. PlanOK(next, resuming)
        BY <1>5, <2>1, <2>4
  <2> QED BY <2>5 DEF next
<1> QED BY <1>4, <1>5

LEMMA NextMint ==
    ASSUME BrokerInv, next_mint
    PROVE  StepOK
<1>1. /\ At("each") /\ ~AtRest /\ ~At("entry_mark")
      /\ ~At("cancel_pending_orders") /\ ~At("cancel_pending_buys")
      /\ UNCHANGED brokerVars
      BY DEF next_mint, At, AtRest
<1>2. /\ UNCHANGED <<orders, pending, positions, positions_db, portfolioVars, bookVars>>
      /\ UNCHANGED <<fills, traded_mints, ledger, realized_pnl>>
      /\ UNCHANGED <<season, opened, locked, starting, unresolved, quarantined>>
      BY <1>1 DEF brokerVars, portfolioVars, bookVars
<1>3. CASE Continue
      BY <1>1, <1>2, <1>3, ContinueStep
<1>4. ASSUME NEW m \in call.rest, NEW route \in Routes, NEW reserve \in Times, NEW known \in BOOLEAN,
             call' = [call EXCEPT
                 !.plan = IF ~known THEN @
                          ELSE IF call.resuming THEN <<"mark", "exit">> \o @
                          ELSE <<"mark", "exit", "fill">> \o @,
                 !.rest = @ \ {m}, !.mint = m, !.route = route, !.reserve = reserve,
                 !.now = IF ~call.resuming /\ reserve > call.clock THEN reserve ELSE call.clock],
             UNCHANGED <<running, trading_enabled>>
      PROVE  StepOK
  <2> USE DEF BrokerInv
  <2> DEFINE plan == IF ~known THEN call.plan
                     ELSE IF call.resuming THEN <<"mark", "exit">> \o call.plan
                     ELSE <<"mark", "exit", "fill">> \o call.plan
             now == IF ~call.resuming /\ reserve > call.clock THEN reserve ELSE call.clock
  <2>1. call.plan \in Seq(Steps) /\ call.plan # <<>> /\ Head(call.plan) = "each"
        BY <1>1, CallFields DEF At
  <2>2. PlanOK(plan, call.resuming)
    <3>1. PlanOK(call.plan, call.resuming)
          BY DEF CallOK
    <3>2. /\ PlanOK(<<"mark", "exit">> \o call.plan, call.resuming)
          /\ ~call.resuming => PlanOK(<<"mark", "exit", "fill">> \o call.plan, call.resuming)
          BY <2>1, <3>1, MintPushed
    <3> QED BY <3>1, <3>2
  <2>3. plan \in Seq(Steps) /\ plan # <<>> /\ Head(plan) \in {"each", "mark"}
    <3>0. \/ plan = call.plan
          \/ plan = <<"mark", "exit">> \o call.plan
          \/ plan = <<"mark", "exit", "fill">> \o call.plan
          OBVIOUS
    <3> HIDE DEF plan
    <3>1. CASE plan = call.plan
          BY <2>1, <3>1
    <3>2. CASE plan = <<"mark", "exit">> \o call.plan
          BY <2>1, <2>2, <3>2 DEF PlanOK
    <3>3. CASE plan = <<"mark", "exit", "fill">> \o call.plan
          BY <2>1, <2>2, <3>3 DEF PlanOK
    <3> QED BY <3>0, <3>1, <3>2, <3>3
  <2>4. now \in Times /\ m \in Mints /\ call.rest \ {m} \in SUBSET Mints
        BY CallFields
  <2>5. call' = [call EXCEPT !.plan = plan, !.rest = call.rest \ {m}, !.mint = m,
                             !.route = route, !.reserve = reserve, !.now = now]
        BY <1>4
  <2> HIDE DEF plan, now
  <2>6. /\ call' \in CallType /\ call'.plan = plan /\ call'.resuming = call.resuming
        BY <2>3, <2>4, <2>5, CallFields DEF CallOK, CallType, Steps, CancelSides
  <2>7. CallOK' /\ ~At("entry_mark")' /\ ~At("freeze")'
        BY <2>2, <2>3, <2>6 DEF CallOK, At
  <2>8. PositionInv' /\ MarksKept /\ PositionsKept
        BY <1>2, SamePositions DEF PositionsSame
  <2>9. OrderInv'
        BY <1>2, SameOrders DEF OrdersSame
  <2>10. FlagsTyped'
        BY <1>2, <1>4 DEF FlagsTyped
  <2>11. SeasonTyped' /\ EntryMarkOK' /\ NoSeasonIsEmpty'
        BY <1>2, <1>4, <2>7 DEF SeasonTyped, EntryMarkOK, NoSeasonIsEmpty
  <2>12. EntriesCancelled'
        BY <1>1, <1>2, <1>4, <2>7 DEF EntriesCancelled, WriteMayFail, PendingOn
  <2>13. BrokerInv'
        BY <2>7, <2>8, <2>9, <2>10, <2>11, <2>12 DEF BrokerInv
  <2> QED BY <2>8, <2>13, KeptHoldings DEF StepOK, PositionsKept
<1> QED BY <1>3, <1>4 DEF next_mint

-----------------------------------------------------------------------------
(* Seasons and restarts.                                                    *)

LEMMA RestingCall ==
    ASSUME CallOK, AtRest, UNCHANGED call
    PROVE  CallOK' /\ \A s : ~At(s)'
BY RestAtNothing DEF CallOK, At, AtRest

LEMMA Initialize ==
    ASSUME BrokerInv, initialize
    PROVE  StepOK
<1> USE DEF BrokerInv, initialize
<1>1. CallOK' /\ \A s : ~At(s)'
      BY RestingCall
<1>2. DOMAIN positions = {} /\ DOMAIN positions_db = {} /\ DOMAIN pending = {}
      BY DEF NoSeasonIsEmpty, PositionInv, PositionsMatch
<1>3. PICK start \in Bankrolls : starting' = start /\ ledger' = Funded(start)
      OBVIOUS
<1>4. start \in Nat
      BY BrokerAssumption
<1>5. PositionInv'
      BY <1>2, <1>3, <1>4, ClearedPositions
<1>6. OrderInv'
      BY SameOrders DEF OrdersSame
<1>7. FlagsTyped'
      BY Zenon DEF FlagsTyped
<1>8. SeasonTyped'
      BY <1>3, <1>4, BrokerAssumption DEF SeasonTyped
<1>9. EntryMarkOK' /\ NoSeasonIsEmpty' /\ EntriesCancelled'
      BY <1>1, <1>2, BrokerAssumption
      DEF EntryMarkOK, NoSeasonIsEmpty, EntriesCancelled, PendingOn, SeasonTyped
<1>10. BrokerInv'
      BY <1>1, <1>5, <1>6, <1>7, <1>8, <1>9 DEF BrokerInv
<1> QED BY <1>2, <1>10 DEF StepOK, InventoryStep, MarkStep

LEMMA Reconfigure ==
    ASSUME BrokerInv, reconfigure_unstarted
    PROVE  StepOK
<1> USE DEF BrokerInv, reconfigure_unstarted
<1>0. UNCHANGED <<running, quarantined, positions, pending, traded_mints>>
      BY DEF memory
<1>1. CallOK' /\ \A s : ~At(s)'
      BY RestingCall
<1>3. PICK start \in Bankrolls : starting' = start /\ ledger' = Funded(start)
      OBVIOUS
<1>4. start \in Nat
      BY BrokerAssumption
<1>5. PositionInv'
      BY <1>0, <1>3, <1>4, ClearedPositions
<1>6. OrderInv'
      BY <1>0, SameOrders DEF OrdersSame
<1>7. FlagsTyped'
      BY <1>0 DEF FlagsTyped
<1>8. SeasonTyped'
      BY <1>3, <1>4 DEF SeasonTyped
<1>9. EntryMarkOK' /\ NoSeasonIsEmpty' /\ EntriesCancelled'
      BY <1>0, <1>1 DEF EntryMarkOK, NoSeasonIsEmpty, EntriesCancelled, PendingOn
<1>10. BrokerInv'
      BY <1>1, <1>5, <1>6, <1>7, <1>8, <1>9 DEF BrokerInv
<1> QED BY <1>10 DEF StepOK, InventoryStep, MarkStep

\* What was open is archived with its season.
LEMMA Archived ==
    ASSUME BrokerInv, season # 0, ArchiveAndClear,
           NEW start \in Nat, ledger' \in {EmptyBooks, Funded(start)}
    PROVE  /\ PositionInv' /\ OrderInv' /\ InventoryStep /\ MarkStep
           /\ unresolved' \subseteq (1..MaxSeasons) \X Mints
           /\ DOMAIN positions' = {} /\ DOMAIN pending' = {} /\ fills' = {}
<1> USE DEF BrokerInv, ArchiveAndClear
<1>1. DOMAIN positions' = {} /\ DOMAIN positions_db' = {} /\ DOMAIN pending' = {}
      BY NothingFacts
<1>2. PositionInv'
      BY <1>1, ClearedPositions
<1>3. OrderInv'
      BY ClearedOrders
<1>4. unresolved' \subseteq (1..MaxSeasons) \X Mints
  <2>1. season \in 1..MaxSeasons
        BY BrokerAssumption DEF SeasonTyped
  <2> QED BY <2>1, TrackedMints DEF SeasonTyped
<1>5. \A m \in DOMAIN positions_db : <<season, m>> \in unresolved'
      BY DEF PositionInv, PositionsMatch
<1> QED BY <1>1, <1>2, <1>3, <1>4, <1>5 DEF InventoryStep, MarkStep

LEMMA Reset ==
    ASSUME BrokerInv, reset
    PROVE  StepOK
<1> USE DEF BrokerInv, reset
<1>1. CallOK' /\ \A s : ~At(s)'
      BY RestingCall
<1>2. /\ PositionInv' /\ OrderInv' /\ InventoryStep /\ MarkStep
      /\ unresolved' \subseteq (1..MaxSeasons) \X Mints
      /\ DOMAIN positions' = {} /\ DOMAIN pending' = {} /\ fills' = {}
      BY Archived
<1>3. FlagsTyped'
      BY Zenon DEF FlagsTyped
<1>4. SeasonTyped'
      BY <1>2 DEF SeasonTyped
<1>5. EntryMarkOK' /\ NoSeasonIsEmpty' /\ EntriesCancelled'
      BY <1>1, <1>2 DEF EntryMarkOK, NoSeasonIsEmpty, EntriesCancelled, PendingOn
<1>6. BrokerInv'
      BY <1>1, <1>2, <1>3, <1>4, <1>5 DEF BrokerInv
<1> QED BY <1>2, <1>6 DEF StepOK

LEMMA Rollover ==
    ASSUME BrokerInv, rollover
    PROVE  StepOK
<1> USE DEF BrokerInv, rollover
<1>1. CallOK' /\ \A s : ~At(s)'
      BY RestingCall
<1>2. PICK start \in Bankrolls : starting' = start /\ ledger' = Funded(start)
      OBVIOUS
<1>3. start \in Nat
      BY BrokerAssumption
<1>4. /\ PositionInv' /\ OrderInv' /\ InventoryStep /\ MarkStep
      /\ unresolved' \subseteq (1..MaxSeasons) \X Mints
      /\ DOMAIN positions' = {} /\ DOMAIN pending' = {} /\ fills' = {}
      BY <1>2, <1>3, Archived
<1>5. FlagsTyped'
  <2>1. locked' \in BOOLEAN /\ running' \in BOOLEAN /\ trading_enabled' \in BOOLEAN
        BY Zenon
  <2> QED BY <2>1 DEF FlagsTyped
<1>6. SeasonTyped' /\ season' # 0
      BY <1>2, <1>3, <1>4, BrokerAssumption DEF SeasonTyped
<1>7. EntryMarkOK' /\ NoSeasonIsEmpty' /\ EntriesCancelled'
      BY <1>1, <1>4, <1>6 DEF EntryMarkOK, NoSeasonIsEmpty, EntriesCancelled, PendingOn
<1>8. BrokerInv'
      BY <1>1, <1>4, <1>5, <1>6, <1>7 DEF BrokerInv
<1> QED BY <1>4, <1>8 DEF StepOK

\* The process dies anywhere, and the next one loads the database.
LEMMA Crash ==
    ASSUME BrokerInv, CrashRestart
    PROVE  StepOK
<1> USE DEF BrokerInv, CrashRestart
<1>1. PICK transition \in BOOLEAN :
          /\ running' = (~transition /\ trading_enabled /\ season # 0 /\ chronology_issues = {})
          /\ call' = IF running' THEN Idle
                     ELSE [Idle EXCEPT !.plan = IF transition THEN <<"cancel_pending_buys">>
                                                ELSE <<"cancel_pending_orders">>]
      OBVIOUS
<1>2. UNCHANGED <<season, opened, locked, starting, realized_pnl, orders, positions_db, fills,
                  ledger, unresolved>>
      OBVIOUS
<1>3. running' \in BOOLEAN /\ trading_enabled' \in BOOLEAN /\ quarantined' \in BOOLEAN
      BY <1>1, Zenon
<1>4. PositionInv' /\ MarksKept /\ PositionsKept
      BY <1>2, LoadedPositions
<1>5. OrderInv' /\ \A o \in DOMAIN pending' : o \in DOMAIN pending
  <2>1. traded_mints' = EntriesOf(fills) /\ pending' = Recovered
        BY DEF EntriesOf
  <2> QED BY <1>2, <1>4, <2>1, LoadedOrders DEF PositionsKept
<1>6. /\ CallOK' /\ ~At("entry_mark")' /\ ~At("freeze")'
      /\ ~running' => At("cancel_pending_orders")' \/ At("cancel_pending_buys")'
  <2>1. CASE running'
    <3>1. call' = Idle
          BY <1>1, <2>1
    <3> QED BY <2>1, <3>1, CallEnds, RestAtNothing DEF AtRest, At
  <2>2. CASE ~running'
    <3>1. PICK plan \in {<<"cancel_pending_buys">>, <<"cancel_pending_orders">>} :
              call' = [Idle EXCEPT !.plan = plan]
          BY <1>1, <2>2
    <3>2. plan \in OpeningPlans
          BY DEF OpeningPlans
    <3>3. call' \in CallType /\ call'.plan = plan /\ call'.resuming = FALSE
          BY <3>1, <3>2, FromIdle
    <3>4. CallOK' /\ ~At("entry_mark")' /\ ~At("freeze")'
          BY <3>2, <3>3, CallStarts
    <3> QED BY <3>3, <3>4 DEF At
  <2> QED BY <2>1, <2>2
<1>7. FlagsTyped'
      BY <1>2, <1>3 DEF FlagsTyped
<1>8. SeasonTyped' /\ EntryMarkOK'
      BY <1>2, <1>6 DEF SeasonTyped, EntryMarkOK
<1>9. NoSeasonIsEmpty'
  <2>1. season = 0 => ~running'
        BY <1>1
  <2> QED BY <1>2, <1>4, <1>5, <2>1 DEF NoSeasonIsEmpty, PositionsKept
<1>10. EntriesCancelled'
      BY <1>6 DEF EntriesCancelled
<1>11. BrokerInv'
      BY <1>4, <1>5, <1>6, <1>7, <1>8, <1>9, <1>10 DEF BrokerInv
<1> QED BY <1>4, <1>11, KeptHoldings DEF StepOK, PositionsKept

-----------------------------------------------------------------------------
(* Every step keeps the invariant.                                          *)

LEMMA BrokerInitially == Init => BrokerInv
<1> SUFFICES ASSUME Init PROVE BrokerInv
    OBVIOUS
<1> USE DEF Init
<1>1. CallOK /\ \A s : ~At(s)
  <2>1. PlanOK(<<>>, FALSE)
        BY OpeningsOK
  <2> QED BY <2>1, IdleOK, RestAtNothing DEF CallOK, AtRest
<1>2. DOMAIN positions = {} /\ DOMAIN positions_db = {} /\ DOMAIN orders = {} /\ DOMAIN pending = {}
      BY NothingFacts
<1>3. FlagsTyped
      BY Zenon DEF FlagsTyped
<1>4. SeasonTyped
      BY BrokerAssumption DEF SeasonTyped
<1>5. PositionInv
  <2>1. /\ ledger \in [Accounts -> Int] /\ ledger["cash"] >= 0
        /\ \A m \in Mints : ledger[m] = 0
        BY NewBooks
  <2> QED BY <1>2, <2>1
          DEF PositionInv, PositionsTyped, PartialFunction, PositionsMatch, BooksTyped,
              InventoryAtBook, CashNeverNegative, cash_lamports
<1>6. OrderInv
      BY <1>2
      DEF OrderInv, OrdersTyped, PartialFunction, EntriesKnown, EntriesOf, OneEntryPerMint,
          FilledRowsClosed, RowsMatch, EntriesFresh, OneExitInFlight, PendingOn
<1>7. EntryMarkOK /\ NoSeasonIsEmpty /\ EntriesCancelled
      BY <1>1, <1>2 DEF EntryMarkOK, NoSeasonIsEmpty, EntriesCancelled, PendingOn
<1> QED BY <1>1, <1>3, <1>4, <1>5, <1>6, <1>7 DEF BrokerInv

LEMMA BrokerNext == BrokerInv /\ [Next]_vars => StepOK
<1>1. ASSUME BrokerInv, UNCHANGED vars PROVE StepOK
  <2>1. UNCHANGED <<season, opened, locked, trading_enabled, starting, realized_pnl, orders,
                    positions_db, fills, ledger, unresolved, running, quarantined, positions,
                    pending, traded_mints, call>>
        BY <1>1 DEF vars, durable, memory
  <2>2. PositionInv' /\ MarksKept /\ PositionsKept
        BY <1>1, <2>1, SamePositions DEF BrokerInv, PositionsSame
  <2>3. OrderInv'
        BY <1>1, <2>1, SameOrders DEF BrokerInv, OrdersSame
  <2>4. \A s : At(s)' <=> At(s)
        BY <2>1 DEF At
  <2>5. BrokerInv'
        BY <1>1, <2>1, <2>2, <2>3, <2>4
        DEF BrokerInv, FlagsTyped, SeasonTyped, CallOK, EntryMarkOK, NoSeasonIsEmpty,
            EntriesCancelled, WriteMayFail, PendingOn
  <2> QED BY <2>2, <2>5, KeptHoldings DEF StepOK, PositionsKept
<1>2. ASSUME BrokerInv, Next PROVE StepOK
      BY Zenon, <1>2, MarkPosition, ScheduleExit, ExpireStuckOrders, CancelPending, FillBuy,
         EntryMark, FillSell, FillDone, SubmitDecision, MarketStates, HeartbeatTick, NextMint,
         ResumeTrading, PauseTrading, ProfileCalls, FreezeEntries, ProfileExits, Initialize,
         Reconfigure, Reset, Rollover, Crash
      DEF Next
<1> QED BY <1>1, <1>2

\* Whatever is interleaved, crashes or raises, the invariant holds.
THEOREM BrokerInvariant == Spec => []BrokerInv
<1>1. Init => BrokerInv
      BY BrokerInitially
<1>2. BrokerInv /\ [Next]_vars => BrokerInv'
      BY BrokerNext DEF StepOK
<1> QED BY <1>1, <1>2, PTL DEF Spec

\* Every record has its type, no mint is entered twice in a season and no position has two
\* exits in flight, whatever is retried, expired or recovered (broker.py 296-420, 1640-1860).
THEOREM OrdersAlwaysUnique == Spec => []OrdersAreUnique
<1>1. BrokerInv => OrdersAreUnique
  <2> SUFFICES ASSUME BrokerInv PROVE OrdersAreUnique
      OBVIOUS
  <2> USE DEF BrokerInv
  <2>1. BrokerTypeOK
        BY DEF FlagsTyped, SeasonTyped, PositionInv, PositionsTyped, BooksTyped, OrderInv,
               OrdersTyped, CallOK, BrokerTypeOK
  <2> QED BY <2>1 DEF OrderInv, OrdersAreUnique
<1> QED BY <1>1, BrokerInvariant, PTL

\* Inventory is carried at book and cash is never overdrawn, also when the price moved between
\* the reservation and the fill (broker.py 1081-1250, 1697-1720).
THEOREM InventoryAlwaysAtBook == Spec => [](InventoryAtBook /\ CashNeverNegative)
<1>1. BrokerInv => InventoryAtBook /\ CashNeverNegative
      BY DEF BrokerInv, PositionInv
<1> QED BY <1>1, BrokerInvariant, PTL

\* Between calls memory is what a restart would load, up to orders only memory knows, after
\* every crash and every failed write (broker.py 296-420, 2069-2118).
THEOREM MemoryAlwaysFollowsDatabase == Spec => []MemoryFollowsDatabase
<1>1. BrokerInv => MemoryFollowsDatabase
      BY DEF BrokerInv, PositionInv, PositionsMatch, OrderInv, EntriesKnown, EntriesOf,
             RowsMatch, Recovered, MemoryFollowsDatabase
<1> QED BY <1>1, BrokerInvariant, PTL

\* While writes succeed a stopped engine has no entry waiting, even if it died between saving
\* that it stops and cancelling (orchestrator.py 7335-7424, broker.py 2120-2208).
THEOREM StoppedNeverHasEntry == Spec => []StoppedHasNoEntry
<1>1. BrokerInv => StoppedHasNoEntry
      BY RestAtNothing DEF BrokerInv, EntriesCancelled, StoppedHasNoEntry
<1> QED BY <1>1, BrokerInvariant, PTL

\* What is held neither vanishes nor moves back in time (broker.py 1482-1520, 2120-2208;
\* database.py 4649-4707).
THEOREM HoldingsAlwaysEndure == Spec => HoldingsEndure
<1>1. BrokerInv /\ [Next]_vars => [InventoryStep]_vars /\ [MarkStep]_vars
      BY BrokerNext DEF StepOK
<1>2. Spec => [][InventoryStep]_vars /\ [][MarkStep]_vars
      BY <1>1, BrokerInvariant, PTL DEF Spec
<1>3. HoldingsEndure <=> [][InventoryStep]_vars /\ [][MarkStep]_vars
      BY DEF HoldingsEndure, InventoryNeverLost, MarksNeverRegress, InventoryStep, MarkStep
<1> QED BY <1>2, <1>3

-----------------------------------------------------------------------------
(* The audit of the fills, in a season whose writes succeed.                *)

\* What chronology_issues asks of one fill.
FillSound(f) ==
    /\ f.order \in DOMAIN orders
    /\ orders[f.order].mint = f.mint /\ orders[f.order].side = f.side
    /\ orders[f.order].status = "filled" /\ orders[f.order].filled = f.at
    /\ ~(f.at < orders[f.order].created) /\ ~(f.at < orders[f.order].after)
    /\ ~(f.reserve > f.at)
    /\ f.side = "sell" =>
           \E e \in fills : e.side = "buy" /\ e.mint = f.mint /\ e.at = f.opened /\ e.at <= f.at

LEMMA CleanIsSound == FillsAuditClean <=> \A f \in fills : FillSound(f)
BY DEF FillsAuditClean, chronology_issues, FillSound

\* A fill stays sound as long as its row is not written again.
LEMMA SoundFills ==
    ASSUME FillsAuditClean, fills \subseteq fills',
           \A f \in fills : f.order \in DOMAIN orders' /\ orders'[f.order] = orders[f.order]
    PROVE  \A f \in fills : FillSound(f)'
BY CleanIsSound DEF FillSound

LEMMA SoundIsClean ==
    ASSUME \A f \in fills' : FillSound(f)'
    PROVE  FillsAuditClean'
<1>1. FillsAuditClean' <=> \A f \in fills' : FillSound(f)'
      BY DEF FillsAuditClean, chronology_issues, FillSound
<1> QED BY <1>1

LEMMA AllOpen ==
    ASSUME Audited, ~At("entry_mark")
    PROVE  \A o \in DOMAIN pending : StillPending(o)
BY DEF Audited, PendingAreOpen

\* Nothing is filled and no row is written.
LEMMA QuietAudit ==
    ASSUME Audited, UNCHANGED <<orders, fills>>,
           \A o \in DOMAIN pending' : StillPending(o),
           \A m \in DOMAIN positions' :
               m \in DOMAIN positions /\ positions'[m].opened = positions[m].opened
    PROVE  Audited'
<1>1. FillsAuditClean'
      BY SoundFills, SoundIsClean, CleanIsSound DEF Audited, FillSound
<1>2. PendingAreOpen'
      BY DEF PendingAreOpen, StillPending
<1>3. PositionsWereEntered'
      BY DEF Audited, PositionsWereEntered
<1> QED BY <1>1, <1>2, <1>3 DEF Audited

\* A row is written that no fill has: a new order, or one that failed or was cancelled.
LEMMA RowAudit ==
    ASSUME Audited, OrderInv, NEW o, o \in DOMAIN orders => orders[o].status = "pending",
           NEW row, orders' = Put(orders, o, row), UNCHANGED <<fills, positions>>,
           \A q \in DOMAIN pending' :
               (q = o /\ row.status = "pending") \/ (q # o /\ StillPending(q))
    PROVE  Audited'
<1>1. /\ \A q : q \in DOMAIN orders' <=> q \in DOMAIN orders \/ q = o
      /\ \A q : q \in DOMAIN orders /\ q # o => orders'[q] = orders[q]
      /\ orders'[o] = row
      BY PutFacts
<1>2. \A f \in fills : f.order \in DOMAIN orders' /\ orders'[f.order] = orders[f.order]
      BY <1>1 DEF OrderInv, FilledRowsClosed
<1>3. FillsAuditClean'
      BY <1>2, SoundFills, SoundIsClean DEF Audited
<1>4. PendingAreOpen'
      BY <1>1 DEF PendingAreOpen, StillPending
<1>5. PositionsWereEntered'
      BY DEF Audited, PositionsWereEntered
<1> QED BY <1>3, <1>4, <1>5 DEF Audited

\* An entry or a sell is committed: the new fill is sound, and the others' rows are not touched.
LEMMA FillAudit ==
    ASSUME Audited, OrderInv, NEW o, StillPending(o),
           NEW row, orders' = Put(orders, o, row), NEW f, fills' = fills \cup {f},
           FillSound(f)',
           \A q \in DOMAIN pending' : (q # o /\ StillPending(q)) \/ (q = o /\ At("entry_mark")' /\ call'.order = o),
           \A m \in DOMAIN positions' :
               \/ m \in DOMAIN positions /\ positions'[m].opened = positions[m].opened
               \/ f.side = "buy" /\ f.mint = m /\ f.at = positions'[m].opened
    PROVE  Audited'
<1>1. /\ \A q : q \in DOMAIN orders' <=> q \in DOMAIN orders \/ q = o
      /\ \A q : q \in DOMAIN orders /\ q # o => orders'[q] = orders[q]
      BY PutFacts
<1>2. \A g \in fills : g.order \in DOMAIN orders' /\ orders'[g.order] = orders[g.order]
      BY <1>1 DEF OrderInv, FilledRowsClosed, StillPending
<1>3. FillsAuditClean'
      BY <1>2, SoundFills, SoundIsClean DEF Audited
<1>4. PendingAreOpen'
      BY <1>1 DEF PendingAreOpen, StillPending
<1>5. PositionsWereEntered'
      BY DEF Audited, PositionsWereEntered
<1> QED BY <1>3, <1>4, <1>5 DEF Audited

\* A season begins with nothing to audit.
LEMMA EmptyAudit ==
    ASSUME DOMAIN pending' = {}, DOMAIN positions' = {}, fills' = {}
    PROVE  Audited'
BY DEF Audited, PendingAreOpen, PositionsWereEntered, FillsAuditClean, chronology_issues

LEMMA QuietStep ==
    ASSUME Audited, ~At("entry_mark"), UNCHANGED <<orders, fills, pending, positions>>
    PROVE  Audited'
BY AllOpen, QuietAudit

LEMMA CallsAudited ==
    ASSUME Audited,
           \/ on_market_state \/ observe_market_state \/ heartbeat_tick \/ next_mint
           \/ resume_trading \/ pause_trading \/ request_season_profile \/ freeze_entries
           \/ profile_transition_tick \/ fill_done \/ reconfigure_unstarted
    PROVE  Audited'
<1>1. ~At("entry_mark")
      BY DEF At, AtRest, on_market_state, observe_market_state, heartbeat_tick, next_mint,
             resume_trading, pause_trading, request_season_profile, freeze_entries,
             profile_transition_tick, fill_done, reconfigure_unstarted
<1>2. UNCHANGED <<orders, fills, pending, positions>>
      BY DEF brokerVars, portfolioVars, bookVars, memory, on_market_state, observe_market_state,
             heartbeat_tick, next_mint, resume_trading, pause_trading, request_season_profile,
             freeze_entries, profile_transition_tick, fill_done, reconfigure_unstarted
<1> QED BY <1>1, <1>2, QuietStep

LEMMA MarkAudited ==
    ASSUME BrokerInv, Audited, mark_position
    PROVE  Audited'
<1> USE DEF BrokerInv, mark_position
<1>1. ~At("entry_mark") /\ UNCHANGED <<orders, fills, pending>>
      BY DEF At, bookVars
<1>2. CASE UNCHANGED positions
      BY <1>1, <1>2, QuietStep
<1>3. CASE ~UNCHANGED positions
  <2>1. MarkAllowed(call.mint, call.reserve)
        BY <1>3
  <2>2. PICK p \in Marks(positions[call.mint], call.reserve, call.route) :
            positions' = Put(positions, call.mint, p)
        BY <2>1
  <2>3. /\ call.mint \in DOMAIN positions /\ positions[call.mint] \in PositionType
        /\ call.reserve \in 0..MaxTime /\ call.reserve >= positions[call.mint].marked
        BY <2>1, CallFields DEF MarkAllowed, PositionInv, PositionsTyped, PartialFunction, Times
  <2>4. p.opened = positions[call.mint].opened
        BY <2>2, <2>3, MarksFacts
  <2>5. \A m \in DOMAIN positions' :
            m \in DOMAIN positions /\ positions'[m].opened = positions[m].opened
        BY <2>2, <2>3, <2>4, PutFacts
  <2> QED BY <1>1, <2>5, AllOpen, QuietAudit
<1> QED BY <1>2, <1>3

LEMMA EntryMarkAudited ==
    ASSUME BrokerInv, Audited, ~WriteMayFail, entry_mark
    PROVE  Audited'
<1> USE DEF BrokerInv, entry_mark
<1>1. UNCHANGED <<orders, fills>>
      BY DEF bookVars
<1>2. PICK p \in Marks(positions[call.mint], call.now, call.route) :
          positions' = Put(positions, call.mint, p) /\ pending' = Drop(pending, call.order)
      BY DEF Raise
<1>3. /\ call.mint \in DOMAIN positions /\ positions[call.mint] \in PositionType
      /\ call.now \in 0..MaxTime /\ call.now >= positions[call.mint].marked
      BY CallFields, BrokerAssumption
      DEF EntryMarkOK, PositionInv, PositionsTyped, PartialFunction, Times
<1>4. p.opened = positions[call.mint].opened
      BY <1>2, <1>3, MarksFacts
<1>5. \A m \in DOMAIN positions' :
          m \in DOMAIN positions /\ positions'[m].opened = positions[m].opened
      BY <1>2, <1>3, <1>4, PutFacts
<1>6. \A o \in DOMAIN pending' : StillPending(o)
      BY <1>2, DropFacts DEF Audited, PendingAreOpen
<1> QED BY <1>1, <1>5, <1>6, QuietAudit

\* The orders that are created.
LEMMA NewAudited ==
    ASSUME BrokerInv, Audited, ~At("entry_mark"), NEW o \in FreshOrders, NEW m, NEW side, NEW now,
           NEW latency, NEW reserved,
           pending' = Put(pending, o, NewOrder(m, side, now, latency, reserved)),
           orders' = Put(orders, o, NewOrder(m, side, now, latency, reserved)),
           UNCHANGED <<fills, positions>>
    PROVE  Audited'
<1> DEFINE row == NewOrder(m, side, now, latency, reserved)
<1>1. row.status = "pending"
      BY DEF NewOrder
<1>2. o \notin DOMAIN orders /\ o \notin DOMAIN pending
      BY DEF FreshOrders
<1> HIDE DEF row
<1>3. pending' = Put(pending, o, row) /\ orders' = Put(orders, o, row)
      BY DEF row
<1>4. \A q \in DOMAIN pending' :
          (q = o /\ row.status = "pending") \/ (q # o /\ StillPending(q))
      BY <1>1, <1>2, <1>3, AllOpen, PutFacts
<1> QED BY <1>2, <1>3, <1>4, RowAudit DEF BrokerInv

LEMMA OrdersAudited ==
    ASSUME BrokerInv, Audited, ~WriteMayFail,
           \/ schedule_exit_if_needed \/ schedule_profile_transition_exits
           \/ submit_decision_with_reason
    PROVE  Audited'
<1>1. ~At("entry_mark") /\ UNCHANGED <<fills, positions>>
      BY DEF At, AtRest, bookVars, schedule_exit_if_needed, schedule_profile_transition_exits,
             submit_decision_with_reason
<1>2. CASE UNCHANGED <<orders, pending>>
      BY <1>1, <1>2, QuietStep
<1>3. CASE \E o \in FreshOrders, m \in Mints \cup DOMAIN positions \cup {call.mint},
              side \in {"buy", "sell"}, now \in Times \cup {call.now},
              latency \in {EntryLatency, ExitLatency}, reserved \in Costs \cup {0} :
                 /\ pending' = Put(pending, o, NewOrder(m, side, now, latency, reserved))
                 /\ orders' = Put(orders, o, NewOrder(m, side, now, latency, reserved))
      BY <1>1, <1>3, NewAudited
<1>4. schedule_exit_if_needed =>
        \/ UNCHANGED <<orders, pending>>
        \/ \E o \in FreshOrders :
             /\ pending' = Put(pending, o, NewOrder(call.mint, "sell", call.now, ExitLatency, 0))
             /\ orders' = Put(orders, o, NewOrder(call.mint, "sell", call.now, ExitLatency, 0))
      BY DEF schedule_exit_if_needed, Raise
<1>5. schedule_profile_transition_exits =>
        \/ UNCHANGED <<orders, pending>>
        \/ \E m \in DOMAIN positions, o \in FreshOrders :
             /\ pending' = Put(pending, o, NewOrder(m, "sell", call.now, ExitLatency, 0))
             /\ orders' = Put(orders, o, NewOrder(m, "sell", call.now, ExitLatency, 0))
      BY DEF schedule_profile_transition_exits, Raise
<1>6. submit_decision_with_reason =>
        \E m \in Mints, now \in Times, required \in Costs, o \in FreshOrders :
             /\ pending' = Put(pending, o, NewOrder(m, "buy", now, EntryLatency, required))
             /\ orders' = Put(orders, o, NewOrder(m, "buy", now, EntryLatency, required))
      BY DEF submit_decision_with_reason, Raise
<1> QED BY <1>2, <1>3, <1>4, <1>5, <1>6

\* The orders that fail or are cancelled.
LEMMA ResolveAudited ==
    ASSUME BrokerInv, Audited, ~WriteMayFail, ~At("entry_mark"), NEW o \in DOMAIN pending,
           NEW status, NEW t, Resolve(o, status, t), UNCHANGED <<fills, positions>>
    PROVE  Audited'
<1> DEFINE row == [pending[o] EXCEPT !.status = status, !.filled = t]
<1>1. orders' = Put(orders, o, row) /\ pending' = Drop(pending, o)
      BY DEF Resolve, Raise
<1> HIDE DEF row
<1>2. \A q \in DOMAIN pending : StillPending(q)
      BY AllOpen
<1>3. \A q \in DOMAIN pending' : q # o /\ StillPending(q)
      BY <1>1, <1>2, DropFacts
<1>4. o \in DOMAIN orders => orders[o].status = "pending"
      BY <1>2 DEF StillPending
<1> QED BY <1>1, <1>3, <1>4, RowAudit DEF BrokerInv

LEMMA CancelAudited ==
    ASSUME BrokerInv, Audited, ~WriteMayFail, expire_stuck_orders \/ cancel_pending
    PROVE  Audited'
<1>1. UNCHANGED <<fills, positions>>
      BY DEF expire_stuck_orders, cancel_pending, bookVars
<1>2. ~At("entry_mark")
      BY DEF expire_stuck_orders, cancel_pending, At, CancelSides
<1>3. CASE UNCHANGED <<orders, pending>>
      BY <1>1, <1>2, <1>3, QuietStep
<1>4. ASSUME NEW o \in DOMAIN pending, NEW status, NEW t, Resolve(o, status, t)
      PROVE  Audited'
      BY <1>1, <1>2, <1>4, ResolveAudited
<1>5. CASE expire_stuck_orders
      BY <1>3, <1>4, <1>5 DEF expire_stuck_orders
<1>6. CASE cancel_pending
      BY <1>3, <1>4, <1>6 DEF cancel_pending
<1> QED BY <1>5, <1>6

\* The row and the fill a commit writes agree, and are not before the order or its latency.
LEMMA CommittedFill ==
    ASSUME BrokerInv, NEW o \in DOMAIN pending, Due(o),
           orders' = Put(orders, o, [pending[o] EXCEPT !.status = "filled", !.filled = call.now]),
           NEW f, f.order = o, f.mint = call.mint, f.side = pending[o].side, f.at = call.now,
           f.reserve = call.reserve,
           f.side = "sell" =>
               \E e \in fills' : e.side = "buy" /\ e.mint = f.mint /\ e.at = f.opened /\ e.at <= f.at
    PROVE  FillSound(f)'
<1> DEFINE row == [pending[o] EXCEPT !.status = "filled", !.filled = call.now]
<1>1. pending[o] \in OrderType /\ pending[o].mint = call.mint
      BY DEF BrokerInv, OrderInv, OrdersTyped, PartialFunction, Due
<1>2. /\ row.status = "filled" /\ row.filled = call.now
      /\ row.mint = pending[o].mint /\ row.side = pending[o].side
      /\ row.created = pending[o].created /\ row.after = pending[o].after
      BY <1>1 DEF OrderType
<1> HIDE DEF row
<1>3. o \in DOMAIN orders' /\ orders'[o] = row
      BY PutFacts DEF row
<1>4. call.now \in Int /\ call.reserve \in Int
      BY CallFields, BrokerAssumption DEF BrokerInv, Times
<1>5. pending[o].created \in Int /\ pending[o].after \in Int
      BY <1>1 DEF OrderType, Times
<1>6. ~(f.at < row.created) /\ ~(f.at < row.after) /\ ~(f.reserve > f.at)
      BY <1>2, <1>4, <1>5 DEF Due
<1> QED BY <1>1, <1>2, <1>3, <1>6 DEF FillSound

LEMMA BuyAudited ==
    ASSUME BrokerInv, Audited, At("fill"), NEW o \in PendingOn("buy"), Due(o), StillPending(o),
           NEW total, CommitBuy(o, total), UNCHANGED pending
    PROVE  Audited'
<1> DEFINE m == call.mint
           row == [pending[o] EXCEPT !.status = "filled", !.filled = call.now]
<1>1. PICK f : f = [order |-> o, mint |-> m, side |-> "buy", at |-> call.now,
                    reserve |-> call.reserve, opened |-> call.now]
      OBVIOUS
<1>2. /\ f.order = o /\ f.mint = m /\ f.side = "buy" /\ f.at = call.now
      /\ f.reserve = call.reserve /\ OpenedPosition(total).opened = call.now
      BY <1>1 DEF OpenedPosition
<1>3. /\ orders' = Put(orders, o, row) /\ fills' = fills \cup {f}
      /\ positions' = Put(positions, m, OpenedPosition(total))
      BY <1>1 DEF CommitBuy
<1>4. o \in DOMAIN pending /\ pending[o].side = "buy"
      BY DEF PendingOn
<1>5. FillSound(f)'
      BY <1>2, <1>3, <1>4, CommittedFill
<1>6. At("entry_mark")' /\ call'.order = o
  <2>1. call.plan \in Seq(Steps) /\ call \in CallType
        BY CallFields DEF BrokerInv, CallOK
  <2>2. call' = [call EXCEPT !.plan = <<"entry_mark">> \o call.plan, !.order = o]
        BY DEF CommitBuy
  <2>3. /\ <<"entry_mark">> \o call.plan # <<>>
        /\ Head(<<"entry_mark">> \o call.plan) = "entry_mark"
        BY <2>1
  <2>4. call'.plan = <<"entry_mark">> \o call.plan /\ call'.order = o
        BY <2>1, <2>2 DEF CallType
  <2> QED BY <2>3, <2>4 DEF At
<1> HIDE DEF row
<1>7. \A q \in DOMAIN pending' :
          (q # o /\ StillPending(q)) \/ (q = o /\ At("entry_mark")' /\ call'.order = o)
  <2>1. ~At("entry_mark")
        BY DEF At
  <2> QED BY <1>6, <2>1, AllOpen
<1>8. \A x \in DOMAIN positions' :
          \/ x \in DOMAIN positions /\ positions'[x].opened = positions[x].opened
          \/ f.side = "buy" /\ f.mint = x /\ f.at = positions'[x].opened
      BY <1>2, <1>3, PutFacts
<1> QED BY <1>3, <1>5, <1>7, <1>8, FillAudit DEF BrokerInv

LEMMA SellAudited ==
    ASSUME BrokerInv, Audited, At("fill"), NEW o \in PendingOn("sell"), Due(o), StillPending(o),
           call.mint \in DOMAIN positions, NEW gross, CommitSell(o, gross)
    PROVE  Audited'
<1> DEFINE m == call.mint
           row == [pending[o] EXCEPT !.status = "filled", !.filled = call.now]
<1>1. PICK f : f = [order |-> o, mint |-> m, side |-> "sell", at |-> call.now,
                    reserve |-> call.reserve, opened |-> positions[m].opened]
      OBVIOUS
<1>2. /\ f.order = o /\ f.mint = m /\ f.side = "sell" /\ f.at = call.now
      /\ f.reserve = call.reserve /\ f.opened = positions[m].opened
      BY <1>1
<1>3. /\ orders' = Put(orders, o, row) /\ fills' = fills \cup {f}
      /\ positions' = Drop(positions, m) /\ pending' = Drop(pending, o)
      BY <1>1 DEF CommitSell
<1>4. o \in DOMAIN pending /\ pending[o].side = "sell"
      BY DEF PendingOn
<1>5. \E e \in fills' : e.side = "buy" /\ e.mint = f.mint /\ e.at = f.opened /\ e.at <= f.at
  <2>1. PICK e \in fills : e.side = "buy" /\ e.mint = m /\ e.at = positions[m].opened
        BY DEF Audited, PositionsWereEntered
  <2>2. call.now >= positions[m].opened
        BY <1>4 DEF Due
  <2>3. call.now \in Int /\ positions[m].opened \in Int
        BY CallFields
        DEF BrokerInv, PositionInv, PositionsTyped, PartialFunction, PositionType, Times
  <2>4. e.at <= call.now
        BY <2>1, <2>2, <2>3
  <2> QED BY <1>2, <1>3, <2>1, <2>4
<1>6. FillSound(f)'
      BY <1>2, <1>3, <1>4, <1>5, CommittedFill
<1> HIDE DEF row
<1>7. \A q \in DOMAIN pending' : q # o /\ StillPending(q)
  <2>1. ~At("entry_mark")
        BY DEF At
  <2> QED BY <1>3, <2>1, AllOpen, DropFacts
<1>8. \A x \in DOMAIN positions' :
          x \in DOMAIN positions /\ positions'[x].opened = positions[x].opened
      BY <1>3, DropFacts
<1> QED BY <1>3, <1>6, <1>7, <1>8, FillAudit DEF BrokerInv

LEMMA FillsAudited ==
    ASSUME BrokerInv, Audited, ~WriteMayFail, fill_buy \/ fill_sell
    PROVE  Audited'
<1>1. At("fill") /\ ~At("entry_mark")
      BY DEF fill_buy, fill_sell, At
<1>2. ASSUME NEW o \in DOMAIN pending, Resolve(o, "failed", call.now), UNCHANGED <<positions, bookVars>>
      PROVE  Audited'
  <2>1. UNCHANGED <<fills, positions>>
        BY <1>2 DEF bookVars
  <2> QED BY <1>1, <1>2, <2>1, ResolveAudited
<1>3. CASE UNCHANGED <<orders, pending, positions, bookVars>>
      BY <1>1, <1>3, QuietStep DEF bookVars
<1>4. CASE fill_buy
  <2>1. PICK o \in PendingOn("buy") :
            /\ Due(o)
            /\ \/ Resolve(o, "failed", call.now) /\ UNCHANGED <<positions, bookVars>>
               \/ UNCHANGED <<orders, pending, positions, bookVars>>
               \/ /\ StillPending(o) /\ UNCHANGED pending
                  /\ \E total \in BuyTotals : CommitBuy(o, total)
        BY <1>4 DEF fill_buy
  <2>2. o \in DOMAIN pending
        BY DEF PendingOn
  <2> QED BY <1>1, <1>2, <1>3, <2>1, <2>2, BuyAudited
<1>5. CASE fill_sell
  <2>1. PICK o \in PendingOn("sell") :
            /\ Due(o)
            /\ \/ Resolve(o, "failed", call.now) /\ UNCHANGED <<positions, bookVars>>
               \/ UNCHANGED <<orders, pending, positions, bookVars>>
               \/ /\ StillPending(o) /\ call.mint \in DOMAIN positions
                  /\ \E gross \in SellGross : CommitSell(o, gross)
        BY <1>5 DEF fill_sell
  <2>2. o \in DOMAIN pending
        BY DEF PendingOn
  <2> QED BY <1>1, <1>2, <1>3, <2>1, <2>2, SellAudited
<1> QED BY <1>4, <1>5

LEMMA CrashAudited ==
    ASSUME BrokerInv, Audited, CrashRestart
    PROVE  Audited'
<1> USE DEF BrokerInv, CrashRestart
<1>1. PositionsKept
      BY LoadedPositions
<1>2. \A o \in DOMAIN pending' : StillPending(o)
  <2>1. traded_mints' = EntriesOf(fills) /\ pending' = Recovered /\ UNCHANGED <<orders, fills>>
        BY DEF EntriesOf
  <2>2. \A o \in DOMAIN pending' : StillPending(o)'
        BY <1>1, <2>1, LoadedOrders DEF PositionsKept
  <2> QED BY <2>1, <2>2 DEF StillPending
<1>3. \A m \in DOMAIN positions' :
          m \in DOMAIN positions /\ positions'[m].opened = positions[m].opened
      BY <1>1 DEF PositionsKept, PositionInv, PositionsMatch
<1> QED BY <1>2, <1>3, QuietAudit

LEMMA AuditNext == BrokerInv /\ AuditInv /\ [Next]_vars => AuditInv'
<1>1. ASSUME AuditInv, UNCHANGED vars PROVE AuditInv'
      BY <1>1 DEF vars, durable, memory, AuditInv, Audited, PendingAreOpen, PositionsWereEntered,
         FillsAuditClean, chronology_issues, WriteMayFail, StillPending, At
<1>2. ASSUME BrokerInv, initialize \/ reset \/ rollover PROVE AuditInv'
  <2>1. DOMAIN pending' = {} /\ DOMAIN positions' = {} /\ fills' = {}
        BY <1>2, NothingFacts
        DEF BrokerInv, NoSeasonIsEmpty, initialize, reset, rollover, ArchiveAndClear
  <2> QED BY <2>1, EmptyAudit DEF AuditInv
<1>3. ASSUME BrokerInv, AuditInv, Next, ~(initialize \/ reset \/ rollover) PROVE AuditInv'
  <2>1. season' = season
        BY <1>3 DEF Next, brokerVars, portfolioVars, mark_position, schedule_exit_if_needed,
           expire_stuck_orders, cancel_pending, fill_buy, entry_mark, fill_sell, fill_done,
           submit_decision_with_reason, on_market_state, observe_market_state, heartbeat_tick,
           next_mint, resume_trading, pause_trading, request_season_profile, freeze_entries,
           profile_transition_tick, schedule_profile_transition_exits, reconfigure_unstarted,
           CrashRestart
  <2>2. ASSUME ~WriteMayFail PROVE Audited'
    <3>1. Audited
          BY <1>3, <2>2 DEF AuditInv
    <3> QED BY Zenon, <1>3, <2>2, <3>1, CallsAudited, MarkAudited, EntryMarkAudited, OrdersAudited,
               CancelAudited, FillsAudited, CrashAudited DEF Next
  <2> QED BY <2>1, <2>2 DEF AuditInv, WriteMayFail
<1> QED BY <1>1, <1>2, <1>3

\* In a season whose writes succeed the audit never finds a fill it would report, after any
\* crash and restart: rows, fills, latencies and entries agree (orchestrator.py's quarantine is
\* never the broker's own doing).
THEOREM FillsAlwaysAuditClean == Spec => [](~WriteMayFail => FillsAuditClean)
<1>1. Init => AuditInv
  <2> SUFFICES ASSUME Init PROVE AuditInv
      OBVIOUS
  <2>1. DOMAIN pending = {} /\ DOMAIN positions = {} /\ fills = {}
        BY NothingFacts DEF Init
  <2> QED BY <2>1
          DEF AuditInv, Audited, PendingAreOpen, PositionsWereEntered, FillsAuditClean,
              chronology_issues
<1>2. BrokerInv /\ AuditInv /\ [Next]_vars => AuditInv'
      BY AuditNext
<1>3. AuditInv => (~WriteMayFail => FillsAuditClean)
      BY DEF AuditInv, Audited
<1> QED BY <1>1, <1>2, <1>3, BrokerInvariant, PTL DEF Spec

----------------------------------------------------------------------------
(* The books as sums: cash, the cost of what is held and the double-entry   *)
(* ledger agree, and what the waiting entries reserve is there.             *)

Invested == SumFunction([m \in DOMAIN positions_db |-> positions_db[m].cost])
MoneyAgrees ==
    /\ cash_lamports = starting + realized_pnl - Invested
    /\ SumFunction(ledger) = 0

----------------------------------------------------------------------------
(* The cost of what is held.                                               *)

CostsOf(db) == [m \in DOMAIN db |-> db[m].cost]

LEMMA HeldCosts ==
    \A db : PartialFunction(db, Mints, PositionType) =>
        /\ IsFiniteSet(DOMAIN db) /\ DOMAIN CostsOf(db) = DOMAIN db
        /\ \A m \in DOMAIN db : CostsOf(db)[m] = db[m].cost /\ CostsOf(db)[m] \in Nat
        /\ SumFunction(CostsOf(db)) \in Nat
<1> SUFFICES ASSUME NEW db, PartialFunction(db, Mints, PositionType)
             PROVE  /\ IsFiniteSet(DOMAIN db) /\ DOMAIN CostsOf(db) = DOMAIN db
                    /\ \A m \in DOMAIN db : CostsOf(db)[m] = db[m].cost /\ CostsOf(db)[m] \in Nat
                    /\ SumFunction(CostsOf(db)) \in Nat
  OBVIOUS
<1>1. IsFiniteSet(DOMAIN db)
  <2>1. DOMAIN db \subseteq Mints
    BY DEF PartialFunction
  <2> QED BY <2>1, BrokerAssumption, FS_Subset
<1>2. \A m \in DOMAIN db : CostsOf(db)[m] = db[m].cost /\ CostsOf(db)[m] \in Nat
  BY DEF CostsOf, PartialFunction, PositionType
<1>3. DOMAIN CostsOf(db) = DOMAIN db
  BY DEF CostsOf
<1>4. SumFunction(CostsOf(db)) \in Nat
  <2> HIDE DEF CostsOf
  <2>1. SumFunctionOnSet(CostsOf(db), DOMAIN db) \in Nat
    BY <1>1, <1>2, SumType
  <2> QED BY <2>1, <1>3 DEF SumFunction
<1> QED BY <1>1, <1>2, <1>3, <1>4

\* A position rewritten at its cost changes nothing.
LEMMA CostsKept ==
    \A db, db2 :
        DOMAIN db2 = DOMAIN db /\ (\A m \in DOMAIN db : db2[m].cost = db[m].cost)
        => CostsOf(db2) = CostsOf(db)
BY DEF CostsOf

\* A new position adds its cost.
LEMMA CostAdded ==
    \A db, m, p :
        PartialFunction(db, Mints, PositionType) /\ m \in Mints /\ m \notin DOMAIN db /\ p \in PositionType
        => SumFunction(CostsOf(Put(db, m, p))) = SumFunction(CostsOf(db)) + p.cost
<1> SUFFICES ASSUME NEW db, NEW m, NEW p, PartialFunction(db, Mints, PositionType),
                    m \in Mints, m \notin DOMAIN db, p \in PositionType
             PROVE  SumFunction(CostsOf(Put(db, m, p))) = SumFunction(CostsOf(db)) + p.cost
  OBVIOUS
<1> DEFINE new == Put(db, m, p)
           f == CostsOf(db)
           g == CostsOf(new)
<1>1. DOMAIN new = DOMAIN db \cup {m} /\ PartialFunction(new, Mints, PositionType)
  BY PutTyped DEF Put
<1>2. new[m] = p /\ \A x \in DOMAIN db : new[x] = db[x]
  BY PutFacts
<1> HIDE DEF new
<1>3. /\ IsFiniteSet(DOMAIN db) /\ DOMAIN f = DOMAIN db
      /\ \A x \in DOMAIN db : f[x] = db[x].cost /\ f[x] \in Nat
  BY HeldCosts
<1>4. DOMAIN g = DOMAIN new /\ \A x \in DOMAIN new : g[x] = new[x].cost /\ g[x] \in Nat
  BY <1>1, HeldCosts
<1> HIDE DEF f, g
<1>5. g[m] = p.cost /\ g[m] \in Int
  BY <1>1, <1>2, <1>4
<1>6. \A x \in DOMAIN db : g[x] = f[x]
  BY <1>1, <1>2, <1>3, <1>4
<1>7. SumFunctionOnSet(g, DOMAIN db \cup {m}) = SumFunctionOnSet(f, DOMAIN db) + g[m]
  <2>1. IsFiniteSet(DOMAIN db) /\ \A x \in DOMAIN db : f[x] \in Int
    BY <1>3
  <2> QED BY <1>5, <1>6, <2>1, SumAdd
<1> QED BY <1>1, <1>3, <1>4, <1>5, <1>7 DEF SumFunction, f, g, new

\* A position sold takes its cost out.
LEMMA CostRemoved ==
    \A db, m :
        PartialFunction(db, Mints, PositionType) /\ m \in DOMAIN db
        => SumFunction(CostsOf(db)) = SumFunction(CostsOf(Drop(db, m))) + db[m].cost
<1> SUFFICES ASSUME NEW db, NEW m, PartialFunction(db, Mints, PositionType), m \in DOMAIN db
             PROVE  SumFunction(CostsOf(db)) = SumFunction(CostsOf(Drop(db, m))) + db[m].cost
  OBVIOUS
<1> DEFINE rest == Drop(db, m)
           back == Put(rest, m, db[m])
<1>1. PartialFunction(rest, Mints, PositionType) /\ m \notin DOMAIN rest
  BY DropTyped, DropFacts
<1>2. m \in Mints /\ db[m] \in PositionType
  BY DEF PartialFunction
<1>3. CostsOf(db) = CostsOf(back)
  <2>1. DOMAIN back = DOMAIN db /\ \A x \in DOMAIN db : back[x] = db[x]
    BY DEF Put, Drop
  <2> HIDE DEF back
  <2> QED BY <2>1, CostsKept
<1>4. SumFunction(CostsOf(back)) = SumFunction(CostsOf(rest)) + db[m].cost
  <2> HIDE DEF rest
  <2> QED BY <1>1, <1>2, CostAdded
<1> QED BY <1>3, <1>4

LEMMA NothingCosts == SumFunction(CostsOf(Nothing)) = 0
<1>1. DOMAIN CostsOf(Nothing) = {}
  BY NothingFacts DEF CostsOf
<1>2. \A f : SumFunctionOnSet(f, {}) = 0
  BY FS_EmptySet, SumStep
<1> QED BY <1>1, <1>2 DEF SumFunction

----------------------------------------------------------------------------
(* The ledger.                                                             *)

LEMMA AccountsFinite == IsFiniteSet(Accounts)
<1>1. IsFiniteSet(BookAccounts)
  <2>1. IsFiniteSet({})
    BY FS_EmptySet
  <2>2. \A S, x : IsFiniteSet(S) => IsFiniteSet(S \cup {x})
    BY FS_AddElement
  <2>3. BookAccounts = ((((({} \cup {"cash"}) \cup {"capital"}) \cup {"network_expense"})
                          \cup {"exit_expense"}) \cup {"realized_gain"}) \cup {"realized_loss"}
    BY DEF BookAccounts
  <2> QED BY <2>1, <2>2, <2>3, Zenon
<1> QED BY <1>1, BrokerAssumption, FS_Union DEF Accounts

LEMMA LedgerSum == \A f \in [Accounts -> Int] : SumFunction(f) \in Int
<1> SUFFICES ASSUME NEW f \in [Accounts -> Int] PROVE SumFunction(f) \in Int
  OBVIOUS
<1>1. SumFunctionOnSet(f, Accounts) \in Int
  BY AccountsFinite, SumType
<1> QED BY <1>1 DEF SumFunction

\* One account moves: the sum moves as much.
LEMMA AccountMoves ==
    \A f, g, a, d :
        /\ f \in [Accounts -> Int] /\ g \in [Accounts -> Int] /\ a \in Accounts /\ d \in Int
        /\ g[a] = f[a] + d /\ \A x \in Accounts \ {a} : g[x] = f[x]
        => SumFunction(g) = SumFunction(f) + d
<1> SUFFICES ASSUME NEW f, NEW g, NEW a, NEW d, f \in [Accounts -> Int], g \in [Accounts -> Int],
                    a \in Accounts, d \in Int, g[a] = f[a] + d, \A x \in Accounts \ {a} : g[x] = f[x]
             PROVE  SumFunction(g) = SumFunction(f) + d
  OBVIOUS
<1>1. DOMAIN f = Accounts /\ DOMAIN g = Accounts /\ g[a] \in Int /\ \A x \in Accounts : f[x] \in Int
  OBVIOUS
<1>2. SumFunctionOnSet(g, Accounts) + f[a] = SumFunctionOnSet(f, Accounts) + g[a]
  BY <1>1, AccountsFinite, SumChange
<1>3. SumFunction(g) + f[a] = SumFunction(f) + g[a]
  BY <1>1, <1>2 DEF SumFunction
<1>4. SumFunction(f) \in Int /\ SumFunction(g) \in Int /\ f[a] \in Int
  BY <1>1, LedgerSum
<1> QED BY <1>3, <1>4

\* A buy moves its total from cash to the mint's account and to the expenses.
LEMMA BuyBalances ==
    ASSUME ledger \in [Accounts -> Int], NEW m \in Mints, NEW total \in BuyTotals
    PROVE  SumFunction(BuyEntries(m, total)) = SumFunction(ledger)
<1> DEFINE fee == "network_expense"
           l1 == [a \in Accounts |-> IF a = m THEN ledger[m] + (total - NetworkFee) ELSE ledger[a]]
           l2 == [a \in Accounts |-> IF a = fee THEN ledger[fee] + NetworkFee ELSE l1[a]]
           l3 == BuyEntries(m, total)
<1>1. total \in Int /\ NetworkFee \in Int
  BY BrokerAssumption
<1>2. /\ m \in Accounts /\ fee \in Accounts /\ "cash" \in Accounts
      /\ m # fee /\ m # "cash" /\ fee # "cash"
  BY AccountsApart DEF BookAccounts
<1>3. \A a \in Accounts : ledger[a] \in Int
  OBVIOUS
<1>4. l1 \in [Accounts -> Int]
  BY <1>1, <1>2, <1>3
<1>5. l2 \in [Accounts -> Int]
  <2> HIDE DEF l1
  <2> QED BY <1>1, <1>2, <1>3, <1>4
<1>6. /\ l3 \in [Accounts -> Int] /\ l3["cash"] = ledger["cash"] - total
      /\ \A a \in Accounts \ {"cash"} : l3[a] = l2[a]
  BY <1>1, <1>2, <1>3 DEF BuyEntries
<1>7. l1[m] = ledger[m] + (total - NetworkFee) /\ \A a \in Accounts \ {m} : l1[a] = ledger[a]
  BY <1>2
<1>8. l2[fee] = ledger[fee] + NetworkFee /\ \A a \in Accounts \ {fee} : l2[a] = l1[a]
  BY <1>2
<1> HIDE DEF l1, l2, l3
<1>9. total - NetworkFee \in Int /\ -total \in Int
  BY <1>1
<1>10. SumFunction(l1) = SumFunction(ledger) + (total - NetworkFee)
  BY <1>2, <1>4, <1>7, <1>9, AccountMoves
<1>11. l2[fee] = l1[fee] + NetworkFee
  BY <1>2, <1>7, <1>8
<1>12. SumFunction(l2) = SumFunction(l1) + NetworkFee
  BY <1>1, <1>2, <1>4, <1>5, <1>8, <1>11, AccountMoves
<1>13. l3["cash"] = l2["cash"] + (-total)
  BY <1>1, <1>2, <1>3, <1>6, <1>7, <1>8
<1>14. SumFunction(l3) = SumFunction(l2) + (-total)
  BY <1>2, <1>5, <1>6, <1>9, <1>13, AccountMoves
<1>15. SumFunction(ledger) \in Int
  BY LedgerSum
<1> QED BY <1>1, <1>10, <1>12, <1>14, <1>15 DEF l3

\* A sell spreads the proceeds and the book value over cash, expenses, gain and loss.
LEMMA SellBalances ==
    ASSUME ledger \in [Accounts -> Int], NEW m \in Mints, NEW gross \in SellGross,
           positions[m].book \in Nat
    PROVE  SumFunction(SellEntries(m, gross)) = SumFunction(ledger)
<1> DEFINE book == positions[m].book
           gain == IF gross >= book THEN gross - book ELSE 0
           loss == IF gross >= book THEN 0 ELSE book - gross
           l1 == [a \in Accounts |-> IF a = "cash" THEN ledger["cash"] + (gross - ExitFees)
                                     ELSE ledger[a]]
           l2 == [a \in Accounts |-> IF a = "exit_expense" THEN ledger["exit_expense"] + ExitFees
                                     ELSE l1[a]]
           l3 == [a \in Accounts |-> IF a = m THEN ledger[m] - book ELSE l2[a]]
           l4 == [a \in Accounts |-> IF a = "realized_gain" THEN ledger["realized_gain"] - gain
                                     ELSE l3[a]]
           l5 == SellEntries(m, gross)
<1>1. /\ gross \in Int /\ ExitFees \in Int /\ book \in Int
      /\ gain \in Int /\ loss \in Int /\ gross + loss = gain + book
  BY BrokerAssumption
<1>2. /\ m \in Accounts /\ "cash" \in Accounts /\ "exit_expense" \in Accounts
      /\ "realized_gain" \in Accounts /\ "realized_loss" \in Accounts
      /\ m # "cash" /\ m # "exit_expense" /\ m # "realized_gain" /\ m # "realized_loss"
  BY AccountsApart DEF BookAccounts
<1>3. \A a \in Accounts : ledger[a] \in Int
  OBVIOUS
<1>4. SellEntries(m, gross) =
          [ledger EXCEPT !["cash"] = @ + (gross - ExitFees),
                         !["exit_expense"] = @ + ExitFees,
                         ![m] = @ - book,
                         !["realized_gain"] = @ - gain,
                         !["realized_loss"] = @ + loss]
  BY DEF SellEntries
<1> HIDE DEF book, gain, loss
<1>5. /\ l1 \in [Accounts -> Int] /\ l1["cash"] = ledger["cash"] + (gross - ExitFees)
      /\ \A a \in Accounts \ {"cash"} : l1[a] = ledger[a]
  BY <1>1, <1>2, <1>3
<1>6. /\ l5 \in [Accounts -> Int] /\ l5["realized_loss"] = ledger["realized_loss"] + loss
      /\ \A a \in Accounts \ {"realized_loss"} : l5[a] = l4[a]
  BY <1>1, <1>2, <1>3, <1>4
<1> HIDE DEF l1, l5
<1>7. /\ l2 \in [Accounts -> Int] /\ l2["exit_expense"] = ledger["exit_expense"] + ExitFees
      /\ \A a \in Accounts \ {"exit_expense"} : l2[a] = l1[a]
  BY <1>1, <1>2, <1>3, <1>5
<1> HIDE DEF l2
<1>8. /\ l3 \in [Accounts -> Int] /\ l3[m] = ledger[m] - book
      /\ \A a \in Accounts \ {m} : l3[a] = l2[a]
  BY <1>1, <1>2, <1>3, <1>7
<1> HIDE DEF l3
<1>9. /\ l4 \in [Accounts -> Int] /\ l4["realized_gain"] = ledger["realized_gain"] - gain
      /\ \A a \in Accounts \ {"realized_gain"} : l4[a] = l3[a]
  BY <1>1, <1>2, <1>3, <1>8
<1> HIDE DEF l4
<1>10. gross - ExitFees \in Int /\ -book \in Int /\ -gain \in Int
  BY <1>1
<1>11. SumFunction(l1) = SumFunction(ledger) + (gross - ExitFees)
  BY <1>2, <1>5, <1>10, AccountMoves
<1>12. l2["exit_expense"] = l1["exit_expense"] + ExitFees
  BY <1>2, <1>5, <1>7
<1>13. SumFunction(l2) = SumFunction(l1) + ExitFees
  BY <1>1, <1>2, <1>5, <1>7, <1>12, AccountMoves
<1>14. l3[m] = l2[m] + (-book)
  BY <1>1, <1>2, <1>3, <1>5, <1>7, <1>8
<1>15. SumFunction(l3) = SumFunction(l2) + (-book)
  BY <1>2, <1>7, <1>8, <1>10, <1>14, AccountMoves
<1>16. l4["realized_gain"] = l3["realized_gain"] + (-gain)
  BY <1>1, <1>2, <1>3, <1>5, <1>7, <1>8, <1>9
<1>17. SumFunction(l4) = SumFunction(l3) + (-gain)
  BY <1>2, <1>8, <1>9, <1>10, <1>16, AccountMoves
<1>18. l5["realized_loss"] = l4["realized_loss"] + loss
  BY <1>2, <1>5, <1>6, <1>7, <1>8, <1>9
<1>19. SumFunction(l5) = SumFunction(l4) + loss
  BY <1>1, <1>2, <1>6, <1>9, <1>18, AccountMoves
<1>20. SumFunction(ledger) \in Int
  BY LedgerSum
<1>21. SumFunction(l5) = SumFunction(ledger)
  BY <1>1, <1>11, <1>13, <1>15, <1>17, <1>19, <1>20
<1> QED BY <1>21 DEF l5

LEMMA OpeningBalances ==
    ASSUME NEW start \in Nat, NEW books \in {EmptyBooks, Funded(start)}
    PROVE  SumFunction(books) = 0
<1>1. "cash" \in Accounts /\ "capital" \in Accounts /\ "cash" # "capital"
  BY AccountsApart DEF BookAccounts
<1>2. EmptyBooks \in [Accounts -> Int] /\ SumFunction(EmptyBooks) = 0
  <2>1. DOMAIN EmptyBooks = Accounts /\ \A a \in Accounts : EmptyBooks[a] = 0
    BY DEF EmptyBooks
  <2>2. EmptyBooks \in [Accounts -> Int]
    BY DEF EmptyBooks
  <2>3. SumFunctionOnSet(EmptyBooks, Accounts) = 0
    BY <2>1, AccountsFinite, SumType
  <2> QED BY <2>1, <2>2, <2>3 DEF SumFunction
<1>3. SumFunction(Funded(start)) = 0
  <2> DEFINE l1 == [a \in Accounts |-> IF a = "cash" THEN start ELSE EmptyBooks[a]]
             l2 == Funded(start)
  <2>1. /\ l1 \in [Accounts -> Int] /\ l1["cash"] = start /\ l1["capital"] = 0
        /\ \A a \in Accounts \ {"cash"} : l1[a] = EmptyBooks[a]
    BY <1>1 DEF EmptyBooks
  <2>2. /\ l2 \in [Accounts -> Int] /\ l2["capital"] = -start
        /\ \A a \in Accounts \ {"capital"} : l2[a] = l1[a]
    BY <1>1 DEF EmptyBooks, Funded
  <2>3. EmptyBooks["cash"] = 0
    BY <1>1 DEF EmptyBooks
  <2> HIDE DEF l1, l2
  <2>4. l1["cash"] = EmptyBooks["cash"] + start
    BY <2>1, <2>3
  <2>5. SumFunction(l1) = SumFunction(EmptyBooks) + start
    BY <1>1, <1>2, <2>1, <2>4, AccountMoves
  <2> DEFINE owed == -start
  <2>6. owed \in Int /\ l2["capital"] = l1["capital"] + owed
    BY <2>1, <2>2
  <2>7. SumFunction(l2) = SumFunction(l1) + owed
    <3>1. /\ l1 \in [Accounts -> Int] /\ l2 \in [Accounts -> Int]
          /\ \A a \in Accounts \ {"capital"} : l2[a] = l1[a]
      BY <2>1, <2>2
    <3> HIDE DEF owed
    <3> QED BY <1>1, <2>6, <3>1, AccountMoves
  <2> QED BY <1>2, <2>5, <2>7 DEF l2
<1> QED BY <1>2, <1>3

----------------------------------------------------------------------------
(* The books at every step.                                                *)

\* Nothing is bought, sold or funded.
LEMMA MoneyKept ==
    ASSUME MoneyAgrees, CostsOf(positions_db)' = CostsOf(positions_db),
           UNCHANGED <<ledger, realized_pnl, starting>>
    PROVE  MoneyAgrees'
BY DEF MoneyAgrees, Invested, CostsOf, cash_lamports

LEMMA QuietMoney ==
    ASSUME MoneyAgrees,
           \/ expire_stuck_orders \/ cancel_pending \/ fill_done \/ submit_decision_with_reason
           \/ on_market_state \/ observe_market_state \/ heartbeat_tick \/ next_mint
           \/ resume_trading \/ pause_trading \/ request_season_profile \/ freeze_entries
           \/ profile_transition_tick \/ schedule_profile_transition_exits \/ CrashRestart
    PROVE  MoneyAgrees'
<1>1. UNCHANGED <<positions_db, ledger, realized_pnl, starting>>
  BY DEF brokerVars, portfolioVars, bookVars, expire_stuck_orders, cancel_pending, fill_done,
         submit_decision_with_reason, on_market_state, observe_market_state, heartbeat_tick,
         next_mint, resume_trading, pause_trading, request_season_profile, freeze_entries,
         profile_transition_tick, schedule_profile_transition_exits, CrashRestart
<1> QED BY <1>1, MoneyKept DEF CostsOf

\* A position is written again, at the cost it had.
LEMMA RewrittenMoney ==
    ASSUME BrokerInv, MoneyAgrees, NEW m \in DOMAIN positions, NEW p, p.cost = positions[m].cost,
           positions_db' = Put(positions_db, m, p) \/ positions_db' = positions_db,
           UNCHANGED <<ledger, realized_pnl, starting>>
    PROVE  MoneyAgrees'
<1>1. m \in DOMAIN positions_db /\ p.cost = positions_db[m].cost
  BY DEF BrokerInv, PositionInv, PositionsMatch
<1>2. /\ DOMAIN positions_db' = DOMAIN positions_db
      /\ \A x \in DOMAIN positions_db : positions_db'[x].cost = positions_db[x].cost
  <2>1. CASE positions_db' = positions_db
    BY <2>1
  <2>2. CASE positions_db' = Put(positions_db, m, p)
    <3>1. \A x : x \in DOMAIN positions_db' <=> x \in DOMAIN positions_db
      BY <1>1, <2>2, PutFacts
    <3>2. \A x \in DOMAIN positions_db : positions_db'[x].cost = positions_db[x].cost
      BY <1>1, <2>2, PutFacts
    <3>3. DOMAIN positions_db' = DOMAIN positions_db
      BY <3>1
    <3> QED BY <3>2, <3>3
  <2> QED BY <2>1, <2>2
<1>3. CostsOf(positions_db)' = CostsOf(positions_db)
  BY <1>2 DEF CostsOf
<1> QED BY <1>3, MoneyKept

LEMMA MarkedMoney ==
    ASSUME BrokerInv, MoneyAgrees, mark_position \/ schedule_exit_if_needed \/ entry_mark
    PROVE  MoneyAgrees'
<1> USE DEF BrokerInv
<1>1. UNCHANGED <<ledger, realized_pnl, starting>>
  BY DEF mark_position, schedule_exit_if_needed, entry_mark, portfolioVars, bookVars
<1>2. CASE UNCHANGED positions_db
  BY <1>1, <1>2, MoneyKept DEF CostsOf
<1>3. CASE mark_position /\ ~UNCHANGED positions_db
  <2>1. MarkAllowed(call.mint, call.reserve)
    BY <1>3 DEF mark_position
  <2>2. PICK p \in Marks(positions[call.mint], call.reserve, call.route) :
            positions_db' = Put(positions_db, call.mint, p)
    BY <1>3, <2>1 DEF mark_position
  <2>3. /\ call.mint \in DOMAIN positions /\ positions[call.mint] \in PositionType
        /\ call.reserve \in 0..MaxTime /\ call.reserve >= positions[call.mint].marked
    BY <2>1, CallFields DEF MarkAllowed, PositionInv, PositionsTyped, PartialFunction, Times
  <2>4. p.cost = positions[call.mint].cost
    BY <2>2, <2>3, MarksFacts
  <2> QED BY <1>1, <2>2, <2>3, <2>4, RewrittenMoney
<1>4. CASE schedule_exit_if_needed /\ ~UNCHANGED positions_db
  <2>1. /\ call.mint \in DOMAIN positions
        /\ positions_db' = Put(positions_db, call.mint, positions[call.mint])
    BY <1>4 DEF schedule_exit_if_needed, ExitDue
  <2> QED BY <1>1, <2>1, RewrittenMoney
<1>5. CASE entry_mark /\ ~UNCHANGED positions_db
  <2>1. PICK p \in Marks(positions[call.mint], call.now, call.route) :
            positions_db' = Put(positions_db, call.mint, p)
    BY <1>5 DEF entry_mark
  <2>2. /\ call.mint \in DOMAIN positions /\ positions[call.mint] \in PositionType
        /\ call.now \in 0..MaxTime /\ call.now >= positions[call.mint].marked
    BY <1>5, CallFields, BrokerAssumption
    DEF entry_mark, EntryMarkOK, PositionInv, PositionsTyped, PartialFunction, Times
  <2>3. p.cost = positions[call.mint].cost
    BY <2>1, <2>2, MarksFacts
  <2> QED BY <1>1, <2>1, <2>2, <2>3, RewrittenMoney
<1> QED BY <1>2, <1>3, <1>4, <1>5

LEMMA BuyMoney ==
    ASSUME BrokerInv, MoneyAgrees, NEW o, NEW total \in BuyTotals, CommitBuy(o, total),
           call.mint \in Mints, call.mint \notin DOMAIN positions_db, UNCHANGED portfolioVars
    PROVE  MoneyAgrees'
<1> DEFINE m == call.mint
           p == OpenedPosition(total)
<1> USE DEF BrokerInv, PositionInv
<1>1. /\ ledger' = BuyEntries(m, total) /\ positions_db' = Put(positions_db, m, p)
      /\ UNCHANGED <<realized_pnl, starting>>
  BY DEF CommitBuy, portfolioVars
<1>2. p \in PositionType /\ p.cost = total
  <2>1. total \in Nat /\ total - NetworkFee \in Nat /\ call.now \in Times /\ 0 \in 0..MaxTime
    BY CallFields, BrokerAssumption
  <2> QED BY <2>1 DEF OpenedPosition, PositionType
<1>3. /\ SumFunction(BuyEntries(m, total)) = SumFunction(ledger)
      /\ BuyEntries(m, total)["cash"] = ledger["cash"] - total
  BY BuyBooks, BuyBalances DEF BooksTyped
<1>4. Invested' = Invested + total
  <2>1. SumFunction(CostsOf(Put(positions_db, m, p))) = SumFunction(CostsOf(positions_db)) + p.cost
    <3> HIDE DEF p
    <3> QED BY <1>2, CostAdded DEF PositionsTyped
  <2> HIDE DEF p
  <2> QED BY <1>1, <1>2, <2>1 DEF Invested, CostsOf
<1>5. Invested \in Int /\ realized_pnl \in Int /\ starting \in Int /\ total \in Int
  BY HeldCosts, BrokerAssumption DEF PositionsTyped, BooksTyped, SeasonTyped, Invested, CostsOf
<1>6. cash_lamports' = cash_lamports - total /\ cash_lamports \in Int
  BY <1>1, <1>3, AccountsApart DEF cash_lamports, BooksTyped, BookAccounts
<1>7. cash_lamports' = starting' + realized_pnl' - Invested'
  BY <1>1, <1>4, <1>5, <1>6 DEF MoneyAgrees
<1> QED BY <1>1, <1>3, <1>7 DEF MoneyAgrees

LEMMA SellMoney ==
    ASSUME BrokerInv, MoneyAgrees, NEW o, NEW gross \in SellGross, CommitSell(o, gross),
           call.mint \in DOMAIN positions, UNCHANGED portfolioVars
    PROVE  MoneyAgrees'
<1> DEFINE m == call.mint
<1> USE DEF BrokerInv, PositionInv
<1>1. /\ ledger' = SellEntries(m, gross) /\ positions_db' = Drop(positions_db, m)
      /\ realized_pnl' = realized_pnl + (gross - ExitFees) - positions[m].cost
      /\ UNCHANGED starting
  BY DEF CommitSell, portfolioVars
<1>2. /\ m \in Mints /\ m \in DOMAIN positions_db /\ positions[m].book \in Nat
      /\ positions[m].cost = positions_db[m].cost /\ positions[m].cost \in Int
  BY DEF PositionsTyped, PositionsMatch, PartialFunction, PositionType
<1>3. /\ SumFunction(SellEntries(m, gross)) = SumFunction(ledger)
      /\ SellEntries(m, gross)["cash"] = ledger["cash"] + (gross - ExitFees)
  BY <1>2, SellBooks, SellBalances DEF BooksTyped
<1>4. Invested = Invested' + positions[m].cost
  BY <1>1, <1>2, CostRemoved DEF PositionsTyped, Invested, CostsOf
<1>5. Invested \in Int /\ Invested' \in Int /\ realized_pnl \in Int /\ starting \in Int
      /\ gross - ExitFees \in Int
  <2>1. PartialFunction(positions_db, Mints, PositionType) /\ PartialFunction(positions_db', Mints, PositionType)
    BY <1>1, DropTyped DEF PositionsTyped
  <2>2. SumFunction(CostsOf(positions_db)) \in Nat /\ SumFunction(CostsOf(positions_db')) \in Nat
    BY <2>1, HeldCosts
  <2> QED BY <2>2, BrokerAssumption DEF BooksTyped, SeasonTyped, Invested, CostsOf
<1>6. cash_lamports' = cash_lamports + (gross - ExitFees) /\ cash_lamports \in Int
  BY <1>1, <1>3, AccountsApart DEF cash_lamports, BooksTyped, BookAccounts
<1>7. cash_lamports' = starting' + realized_pnl' - Invested'
  BY <1>1, <1>2, <1>4, <1>5, <1>6 DEF MoneyAgrees
<1> QED BY <1>1, <1>3, <1>7 DEF MoneyAgrees

LEMMA FilledMoney ==
    ASSUME BrokerInv, MoneyAgrees, fill_buy \/ fill_sell
    PROVE  MoneyAgrees'
<1>1. UNCHANGED portfolioVars /\ UNCHANGED starting
  BY DEF fill_buy, fill_sell, portfolioVars
<1>2. CASE UNCHANGED <<positions_db, bookVars>>
  BY <1>1, <1>2, MoneyKept DEF CostsOf, bookVars
<1>3. CASE fill_buy /\ ~UNCHANGED <<positions_db, bookVars>>
  <2>1. PICK o \in PendingOn("buy") :
            /\ Due(o) /\ call.mint \notin DOMAIN positions_db
            /\ \E total \in BuyTotals : CommitBuy(o, total)
    BY <1>3 DEF fill_buy
  <2>2. call.mint \in Mints
    BY <2>1 DEF PendingOn, Due, BrokerInv, OrderInv, OrdersTyped, PartialFunction, OrderType
  <2> QED BY <1>1, <2>1, <2>2, BuyMoney
<1>4. CASE fill_sell /\ ~UNCHANGED <<positions_db, bookVars>>
  <2>1. PICK o \in PendingOn("sell") :
            /\ call.mint \in DOMAIN positions
            /\ \E gross \in SellGross : CommitSell(o, gross)
    BY <1>4 DEF fill_sell
  <2> QED BY <1>1, <2>1, SellMoney
<1> QED BY <1>2, <1>3, <1>4

LEMMA SeasonMoney ==
    ASSUME BrokerInv, initialize \/ reconfigure_unstarted \/ reset \/ rollover
    PROVE  MoneyAgrees'
<1>1. Invested' = 0
  <2>1. DOMAIN positions_db' = {}
    BY NothingFacts
    DEF BrokerInv, PositionInv, PositionsMatch, NoSeasonIsEmpty, initialize, reconfigure_unstarted,
        reset, rollover, ArchiveAndClear
  <2>2. DOMAIN CostsOf(positions_db') = {}
    BY <2>1 DEF CostsOf
  <2>3. \A f : SumFunctionOnSet(f, {}) = 0
    BY FS_EmptySet, SumStep
  <2> QED BY <2>2, <2>3 DEF Invested, SumFunction, CostsOf
<1>2. realized_pnl' = 0
  BY DEF initialize, reconfigure_unstarted, reset, rollover, ArchiveAndClear
<1>3. \E start \in Nat : starting' = start /\ ledger' \in {EmptyBooks, Funded(start)}
                         /\ cash_lamports' = start
  <2>1. "cash" \in Accounts /\ "cash" # "capital"
    BY AccountsApart DEF BookAccounts
  <2>2. CASE reset
    BY <2>1, <2>2 DEF reset, EmptyBooks, cash_lamports
  <2>3. CASE ~reset
    <3>1. PICK start \in Bankrolls : starting' = start /\ ledger' = Funded(start)
      BY <2>3 DEF initialize, reconfigure_unstarted, rollover
    <3>2. Funded(start)["cash"] = start
      BY <2>1 DEF Funded, EmptyBooks
    <3>3. start \in Nat
      BY BrokerAssumption
    <3> QED BY <3>1, <3>2, <3>3 DEF cash_lamports
  <2> QED BY <2>2, <2>3
<1> QED BY <1>1, <1>2, <1>3, OpeningBalances DEF MoneyAgrees

\* The money is right and enough whatever is bought, sold, marked, recovered or reset, for any
\* prices, fees and bankrolls (broker.py 1081-1323; database.py 4502-4707).
THEOREM FundsAlwaysReconcile == Spec => []FundsReconcile
<1>1. Init => MoneyAgrees
  <2> SUFFICES ASSUME Init PROVE MoneyAgrees
    OBVIOUS
  <2>1. Invested = 0
    <3>1. CostsOf(positions_db) = CostsOf(Nothing)
      BY DEF Init
    <3> QED BY <3>1, NothingCosts DEF Invested, CostsOf
  <2>2. cash_lamports = 0 /\ starting = 0 /\ realized_pnl = 0
    BY AccountsApart DEF Init, cash_lamports, EmptyBooks, BookAccounts
  <2>3. SumFunction(ledger) = 0
    <3>1. 0 \in Nat /\ ledger = EmptyBooks
      BY DEF Init
    <3> QED BY <3>1, OpeningBalances
  <2> QED BY <2>1, <2>2, <2>3 DEF MoneyAgrees
<1>2. BrokerInv /\ MoneyAgrees /\ [Next]_vars => MoneyAgrees'
  <2>1. ASSUME MoneyAgrees, UNCHANGED vars PROVE MoneyAgrees'
    BY <2>1, MoneyKept DEF vars, durable, CostsOf
  <2>2. ASSUME BrokerInv, MoneyAgrees, Next PROVE MoneyAgrees'
    BY Zenon, <2>2, QuietMoney, MarkedMoney, FilledMoney, SeasonMoney DEF Next
  <2> QED BY <2>1, <2>2
<1>3. BrokerInv /\ MoneyAgrees => FundsReconcile
  BY DEF BrokerInv, PositionInv, MoneyAgrees, Invested, FundsReconcile, BooksReconcile
<1> QED BY <1>1, <1>2, <1>3, BrokerInvariant, PTL DEF Spec

\* The double-entry books agree with the portfolio at every transaction boundary: cash is the
\* bankroll plus the realised result less the cost of what is held, inventory is at book and
\* the accounts sum to zero (database.py 4502-4707, broker.py 1251-1323).
THEOREM BooksAlwaysReconcile == Spec => []BooksReconcile
BY FundsAlwaysReconcile, PTL DEF FundsReconcile

----------------------------------------------------------------------------
(* Reservations.  In a SOL book, where an order costs at its fill what it  *)
(* reserved, what is reserved for the entries that still wait is in cash.  *)

\* An entry being marked has been paid.
Waiting == {o \in PendingOn("buy") : ~(At("entry_mark") /\ o = call.order)}
PricesIn(rows) == [o \in OrderIds |-> IF o \in DOMAIN rows THEN rows[o].reserved ELSE 0]
Prices == PricesIn(pending)
WaitingFunded == SumFunctionOnSet(Prices, Waiting) <= cash_lamports

\* The row on disk reserves what memory reserves.
RowsReserve == \A o \in DOMAIN pending \cap DOMAIN orders : orders[o].reserved = pending[o].reserved
ReserveInv == RowsReserve /\ (~WriteMayFail => WaitingFunded)

LEMMA PricesTyped ==
    ASSUME BrokerInv
    PROVE  /\ IsFiniteSet(Waiting) /\ Waiting \subseteq OrderIds
           /\ \A o \in OrderIds : Prices[o] \in Nat
           /\ SumFunctionOnSet(Prices, Waiting) \in Int
<1>1. Waiting \subseteq OrderIds
  BY DEF Waiting, PendingOn, BrokerInv, OrderInv, OrdersTyped, PartialFunction
<1>2. IsFiniteSet(Waiting)
  BY <1>1, BrokerAssumption, FS_Subset
<1>3. \A o \in OrderIds : Prices[o] \in Nat
  BY DEF Prices, PricesIn, BrokerInv, OrderInv, OrdersTyped, PartialFunction, OrderType
<1>4. SumFunctionOnSet(Prices, Waiting) \in Int
  BY <1>1, <1>2, <1>3, SumType
<1> QED BY <1>1, <1>2, <1>3, <1>4

\* Between calls the waiting entries are the pending ones.
LEMMA ReservedIsWaiting ==
    ASSUME BrokerInv, ~At("entry_mark")
    PROVE  Reserved = SumFunctionOnSet(Prices, Waiting) /\ Waiting = PendingOn("buy")
<1> DEFINE f == [q \in DOMAIN pending |-> pending[q].reserved]
<1>1. Waiting = PendingOn("buy")
  BY DEF Waiting
<1>2. \A q \in Waiting : f[q] = Prices[q]
  BY <1>1, PricesTyped DEF Prices, PricesIn, PendingOn
<1> HIDE DEF f
<1>3. SumFunctionOnSet(f, Waiting) = SumFunctionOnSet(Prices, Waiting)
  BY <1>2, PricesTyped, SumAgrees
<1> QED BY <1>1, <1>3 DEF Reserved, f

\* An order is closed, in memory, on disk or in both.
LEMMA ClosedReserved ==
    ASSUME BrokerInv, RowsReserve, NEW o \in DOMAIN pending, NEW status, NEW t,
           \/ orders' = orders
           \/ orders' = Put(orders, o, [pending[o] EXCEPT !.status = status, !.filled = t]),
           pending' = pending \/ pending' = Drop(pending, o)
    PROVE  RowsReserve'
<1> DEFINE row == [pending[o] EXCEPT !.status = status, !.filled = t]
<1>1. pending[o] \in OrderType
  BY DEF BrokerInv, OrderInv, OrdersTyped, PartialFunction
<1>2. row.reserved = pending[o].reserved
  BY <1>1 DEF OrderType
<1> HIDE DEF row
<1>3. orders' = orders \/ orders' = Put(orders, o, row)
  BY DEF row
<1>4. ASSUME NEW q \in DOMAIN pending' \cap DOMAIN orders'
      PROVE  orders'[q].reserved = pending'[q].reserved
  <2>1. q \in DOMAIN pending /\ pending'[q] = pending[q]
    BY <1>4, DropFacts
  <2> QED BY <1>2, <1>3, <1>4, <2>1, PutFacts DEF RowsReserve
<1> QED BY <1>4 DEF RowsReserve

\* An order is created, in memory and perhaps on disk.
LEMMA NewReserved ==
    ASSUME RowsReserve, NEW o \in FreshOrders, NEW row,
           pending' = Put(pending, o, row),
           orders' = orders \/ orders' = Put(orders, o, row)
    PROVE  RowsReserve'
<1>1. o \notin DOMAIN orders /\ o \notin DOMAIN pending
  BY DEF FreshOrders
<1>2. ASSUME NEW q \in DOMAIN pending' \cap DOMAIN orders'
      PROVE  orders'[q].reserved = pending'[q].reserved
  BY <1>1, <1>2, PutFacts DEF RowsReserve
<1> QED BY <1>2 DEF RowsReserve

\* What the waiting entries need, when there are no more of them and cash did not shrink.
LEMMA FewerWaiting ==
    ASSUME BrokerInv, WaitingFunded, Waiting' \subseteq Waiting,
           \A o \in Waiting' : pending'[o].reserved = pending[o].reserved,
           cash_lamports' >= cash_lamports, cash_lamports' \in Int
    PROVE  WaitingFunded'
<1> DEFINE f == Prices
           g == Prices'
<1>1. IsFiniteSet(Waiting') /\ Waiting' \subseteq OrderIds
  BY PricesTyped, FS_Subset
<1>2. \A o \in Waiting' : f[o] = g[o]
  <2>1. \A o \in Waiting' : o \in DOMAIN pending /\ o \in DOMAIN pending'
    BY DEF Waiting, PendingOn
  <2> QED BY <1>1, <2>1 DEF Prices, PricesIn
<1>3. \A o \in Waiting : f[o] \in Nat
  BY PricesTyped
<1>4. SumFunctionOnSet(Prices, Waiting) <= cash_lamports
  BY DEF WaitingFunded
<1>5. cash_lamports \in Int
  BY AccountsApart DEF BrokerInv, PositionInv, BooksTyped, cash_lamports, BookAccounts
<1> HIDE DEF f, g
<1>6. SumFunctionOnSet(f, Waiting') = SumFunctionOnSet(g, Waiting')
  BY <1>1, <1>2, SumAgrees
<1>7. SumFunctionOnSet(f, Waiting') <= SumFunctionOnSet(f, Waiting)
  BY <1>3, PricesTyped, SumMonotone
<1>8. SumFunctionOnSet(f, Waiting') \in Int /\ SumFunctionOnSet(f, Waiting) \in Int
  <2>1. \A o \in Waiting' : f[o] \in Nat
    BY <1>3
  <2> QED BY <1>1, <1>3, <2>1, PricesTyped, SumType
<1>9. SumFunctionOnSet(f, Waiting) <= cash_lamports
  BY <1>4 DEF f
<1>10. SumFunctionOnSet(g, Waiting') <= cash_lamports'
  BY <1>5, <1>6, <1>7, <1>8, <1>9
<1> QED BY <1>10 DEF WaitingFunded, g

LEMMA CashTyped == BrokerInv => cash_lamports \in Int
BY AccountsApart DEF BrokerInv, PositionInv, BooksTyped, cash_lamports, BookAccounts

LEMMA NoNewEntries ==
    ASSUME BrokerInv, WaitingFunded, ~At("entry_mark"),
           PendingOn("buy")' \subseteq PendingOn("buy"),
           \A o \in PendingOn("buy")' : pending'[o].reserved = pending[o].reserved,
           UNCHANGED ledger
    PROVE  WaitingFunded'
<1>1. Waiting' \subseteq Waiting /\ Waiting' \subseteq PendingOn("buy")'
  BY DEF Waiting
<1>2. cash_lamports' = cash_lamports /\ cash_lamports \in Int
  BY CashTyped DEF cash_lamports
<1> QED BY <1>1, <1>2, FewerWaiting

LEMMA NothingWaits ==
    ASSUME DOMAIN pending' = {}, cash_lamports' >= 0
    PROVE  WaitingFunded'
<1>1. Waiting' = {}
  BY DEF Waiting, PendingOn
<1>2. \A f : SumFunctionOnSet(f, {}) = 0
  BY FS_EmptySet, SumStep
<1> QED BY <1>1, <1>2 DEF WaitingFunded

\* The steps that leave the orders alone.
LEMMA QuietReserve ==
    ASSUME BrokerInv, ReserveInv,
           \/ mark_position \/ on_market_state \/ observe_market_state \/ heartbeat_tick \/ next_mint
           \/ resume_trading \/ pause_trading \/ request_season_profile \/ freeze_entries
           \/ profile_transition_tick \/ fill_done
    PROVE  ReserveInv'
<1>1. UNCHANGED <<season, orders, pending, ledger>>
  BY DEF brokerVars, portfolioVars, bookVars, mark_position, on_market_state,
         observe_market_state, heartbeat_tick, next_mint, resume_trading, pause_trading,
         request_season_profile, freeze_entries, profile_transition_tick, fill_done
<1>2. ~At("entry_mark")
  BY DEF At, AtRest, mark_position, on_market_state, observe_market_state, heartbeat_tick,
         next_mint, resume_trading, pause_trading, request_season_profile, freeze_entries,
         profile_transition_tick, fill_done
<1>3. RowsReserve'
  BY <1>1 DEF ReserveInv, RowsReserve
<1>4. WaitingFunded => WaitingFunded'
  BY <1>1, <1>2, NoNewEntries DEF PendingOn
<1> QED BY <1>1, <1>3, <1>4 DEF ReserveInv, WriteMayFail

\* The orders that fail or are cancelled.
LEMMA ResolvedReserve ==
    ASSUME BrokerInv, ReserveInv, ~At("entry_mark"), NEW o \in DOMAIN pending,
           NEW status, NEW t, Resolve(o, status, t), UNCHANGED <<season, ledger>>
    PROVE  ReserveInv'
<1>1. /\ \/ orders' = orders
         \/ orders' = Put(orders, o, [pending[o] EXCEPT !.status = status, !.filled = t])
      /\ pending' = pending \/ pending' = Drop(pending, o)
  BY DEF Resolve
<1>2. RowsReserve'
  BY <1>1, ClosedReserved DEF ReserveInv
<1>3. /\ PendingOn("buy")' \subseteq PendingOn("buy")
      /\ \A q \in PendingOn("buy")' : pending'[q].reserved = pending[q].reserved
  BY <1>1, DropFacts DEF PendingOn
<1>4. WaitingFunded => WaitingFunded'
  BY <1>3, NoNewEntries
<1> QED BY <1>2, <1>4 DEF ReserveInv, WriteMayFail

LEMMA CancelledReserve ==
    ASSUME BrokerInv, ReserveInv, expire_stuck_orders \/ cancel_pending
    PROVE  ReserveInv'
<1>1. UNCHANGED <<season, ledger>>
  BY DEF expire_stuck_orders, cancel_pending, portfolioVars, bookVars
<1>2. ~At("entry_mark")
  BY DEF expire_stuck_orders, cancel_pending, At, CancelSides
<1>3. CASE UNCHANGED <<orders, pending>>
  <2>1. RowsReserve'
    BY <1>3 DEF ReserveInv, RowsReserve
  <2>2. WaitingFunded => WaitingFunded'
    BY <1>1, <1>2, <1>3, NoNewEntries DEF PendingOn
  <2> QED BY <1>1, <2>1, <2>2 DEF ReserveInv, WriteMayFail
<1>4. ASSUME NEW o \in DOMAIN pending, NEW status, NEW t, Resolve(o, status, t)
      PROVE  ReserveInv'
  BY <1>1, <1>2, <1>4, ResolvedReserve
<1>5. CASE expire_stuck_orders
  BY <1>3, <1>4, <1>5 DEF expire_stuck_orders
<1>6. CASE cancel_pending
  BY <1>3, <1>4, <1>6 DEF cancel_pending
<1> QED BY <1>5, <1>6

\* The exits that are ordered reserve nothing.
LEMMA ExitReserve ==
    ASSUME BrokerInv, ReserveInv,
           schedule_exit_if_needed \/ schedule_profile_transition_exits
    PROVE  ReserveInv'
<1>1. UNCHANGED <<season, ledger>> /\ ~At("entry_mark")
  BY DEF schedule_exit_if_needed, schedule_profile_transition_exits, portfolioVars, bookVars, At
<1>2. CASE UNCHANGED <<orders, pending>>
  <2>1. RowsReserve'
    BY <1>2 DEF ReserveInv, RowsReserve
  <2>2. WaitingFunded => WaitingFunded'
    BY <1>1, <1>2, NoNewEntries DEF PendingOn
  <2> QED BY <1>1, <2>1, <2>2 DEF ReserveInv, WriteMayFail
<1>3. ASSUME NEW o \in FreshOrders, NEW m,
             pending' = Put(pending, o, NewOrder(m, "sell", call.now, ExitLatency, 0)),
             \/ orders' = orders
             \/ orders' = Put(orders, o, NewOrder(m, "sell", call.now, ExitLatency, 0))
      PROVE  ReserveInv'
  <2>1. RowsReserve'
    BY <1>3, NewReserved DEF ReserveInv
  <2>2. /\ PendingOn("buy")' \subseteq PendingOn("buy")
        /\ \A q \in PendingOn("buy")' : pending'[q].reserved = pending[q].reserved
    <3>1. NewOrder(m, "sell", call.now, ExitLatency, 0).side = "sell"
      BY DEF NewOrder
    <3> QED BY <1>3, <3>1, PutFacts DEF PendingOn
  <2>3. WaitingFunded => WaitingFunded'
    BY <1>1, <2>2, NoNewEntries
  <2> QED BY <1>1, <2>1, <2>3 DEF ReserveInv, WriteMayFail
<1>4. schedule_exit_if_needed =>
        \/ UNCHANGED <<orders, pending>>
        \/ \E o \in FreshOrders :
             /\ pending' = Put(pending, o, NewOrder(call.mint, "sell", call.now, ExitLatency, 0))
             /\ \/ orders' = orders
                \/ orders' = Put(orders, o, NewOrder(call.mint, "sell", call.now, ExitLatency, 0))
  BY DEF schedule_exit_if_needed
<1>5. schedule_profile_transition_exits =>
        \/ UNCHANGED <<orders, pending>>
        \/ \E m \in DOMAIN positions, o \in FreshOrders :
             /\ pending' = Put(pending, o, NewOrder(m, "sell", call.now, ExitLatency, 0))
             /\ \/ orders' = orders
                \/ orders' = Put(orders, o, NewOrder(m, "sell", call.now, ExitLatency, 0))
  BY DEF schedule_profile_transition_exits
<1> QED BY <1>2, <1>3, <1>4, <1>5

\* An entry is taken only when its price is left.
LEMMA SubmittedReserve ==
    ASSUME BrokerInv, ReserveInv, submit_decision_with_reason
    PROVE  ReserveInv'
<1>1. PICK m \in Mints, now \in Times, required \in Costs, aged \in SUBSET DOMAIN positions,
           o \in FreshOrders :
          LET new == NewOrder(m, "buy", now, EntryLatency, required)
          IN  /\ EntryAllowed(m, required, aged)
              /\ pending' = Put(pending, o, new)
              /\ \/ orders' = Put(orders, o, new)
                 \/ orders' = orders /\ WriteMayFail
  BY DEF submit_decision_with_reason, Raise
<1>2. UNCHANGED <<season, ledger>> /\ ~At("entry_mark")
  BY DEF submit_decision_with_reason, portfolioVars, bookVars, At, AtRest
<1>3. RowsReserve'
  BY <1>1, NewReserved DEF ReserveInv
<1>4. ASSUME WaitingFunded PROVE WaitingFunded'
  <2> DEFINE new == NewOrder(m, "buy", now, EntryLatency, required)
             f == Prices
             g == Prices'
             W == Waiting
             now_waiting == W \cup {o}
  <2>1. new.reserved = required /\ required \in Nat
    BY BrokerAssumption DEF NewOrder
  <2>2. o \in OrderIds /\ o \notin DOMAIN pending
    BY DEF FreshOrders
  <2>3. o \notin W
    BY <2>2 DEF Waiting, PendingOn
  <2>4. IsFiniteSet(W) /\ W \subseteq OrderIds /\ W \subseteq DOMAIN pending
    BY PricesTyped DEF Waiting, PendingOn
  <2> HIDE DEF new
  <2>5. pending' = Put(pending, o, new)
    BY <1>1 DEF new
  <2>6. g[o] = required
    BY <2>1, <2>2, <2>5, PutFacts DEF Prices, PricesIn
  <2>7. \A q \in W : g[q] = f[q]
    BY <2>3, <2>4, <2>5, PutFacts DEF Prices, PricesIn
  <2>8. \A q \in W : f[q] \in Nat /\ g[q] \in Nat
    BY <2>4, <2>7, PricesTyped
  <2>9. Reserved = SumFunctionOnSet(f, W)
    BY <1>2, ReservedIsWaiting
  <2>10. Waiting' \subseteq now_waiting
    <3>1. PendingOn("buy")' \subseteq PendingOn("buy") \cup {o}
      BY <2>5, PutFacts DEF PendingOn
    <3>2. W = PendingOn("buy")
      BY <1>2, ReservedIsWaiting
    <3> HIDE DEF W
    <3> QED BY <3>1, <3>2 DEF Waiting
  <2> HIDE DEF f, g, W
  <2>11. SumFunctionOnSet(g, now_waiting) = SumFunctionOnSet(f, W) + required
    <3>1. \A q \in W : f[q] \in Int
      BY <2>8
    <3>2. g[o] \in Int
      BY <2>1, <2>6
    <3>3. SumFunctionOnSet(g, W \cup {o}) = SumFunctionOnSet(f, W) + g[o]
      <4>1. IsFiniteSet(W) /\ o \notin W /\ \A q \in W : g[q] = f[q]
        BY <2>3, <2>4, <2>7
      <4> QED BY <3>1, <3>2, <4>1, SumAdd
    <3> QED BY <2>6, <3>3
  <2>12. SumFunctionOnSet(f, W) \in Int
    BY <2>4, <2>8, SumType
  <2>13. IsFiniteSet(now_waiting) /\ \A q \in now_waiting : g[q] \in Nat
    BY <2>1, <2>4, <2>6, <2>8, FS_AddElement
  <2>14. required <= cash_lamports - Reserved
    BY <1>1 DEF EntryAllowed
  <2>15. cash_lamports' = cash_lamports /\ cash_lamports \in Int
    BY <1>2, CashTyped DEF cash_lamports
  <2> HIDE DEF now_waiting
  <2>16. SumFunctionOnSet(g, now_waiting) <= cash_lamports'
    BY <2>1, <2>9, <2>11, <2>12, <2>14, <2>15
  <2>17. SumFunctionOnSet(g, Waiting') <= SumFunctionOnSet(g, now_waiting)
    BY <2>10, <2>13, SumMonotone
  <2>18. SumFunctionOnSet(g, Waiting') \in Int /\ SumFunctionOnSet(g, now_waiting) \in Int
    <3>1. IsFiniteSet(Waiting') /\ \A q \in Waiting' : g[q] \in Nat
      BY <2>10, <2>13, FS_Subset
    <3> QED BY <2>13, <3>1, SumType
  <2>19. SumFunctionOnSet(g, Waiting') <= cash_lamports'
    BY <2>15, <2>16, <2>17, <2>18
  <2> QED BY <2>19 DEF WaitingFunded, g
<1> QED BY <1>2, <1>3, <1>4 DEF ReserveInv, WriteMayFail

LEMMA EntryMarkReserve ==
    ASSUME BrokerInv, ReserveInv, entry_mark
    PROVE  ReserveInv'
<1>1. /\ UNCHANGED <<season, orders, ledger>> /\ At("entry_mark")
      /\ pending' = Drop(pending, call.order) \/ (pending' = pending /\ WriteMayFail)
  BY DEF entry_mark, portfolioVars, bookVars, Raise
<1>2. RowsReserve'
  BY <1>1, DropFacts DEF ReserveInv, RowsReserve
<1>3. ASSUME ~WriteMayFail, WaitingFunded PROVE WaitingFunded'
  <2>1. /\ Waiting' \subseteq Waiting
        /\ \A o \in Waiting' : pending'[o].reserved = pending[o].reserved
    BY <1>1, <1>3, DropFacts DEF Waiting, PendingOn
  <2>2. cash_lamports' = cash_lamports /\ cash_lamports \in Int
    BY <1>1, CashTyped DEF cash_lamports
  <2> QED BY <1>3, <2>1, <2>2, FewerWaiting
<1> QED BY <1>1, <1>2, <1>3 DEF ReserveInv, WriteMayFail

\* A fill at no more than the order reserved frees at least what it takes.
LEMMA BuyReserve ==
    ASSUME BrokerInv, ReserveInv, At("fill"), NEW o \in PendingOn("buy"), Due(o),
           NEW total \in BuyTotals, total <= pending[o].reserved, CommitBuy(o, total),
           UNCHANGED <<season, pending>>
    PROVE  ReserveInv'
<1> USE DEF BrokerInv
<1>1. RowsReserve'
  <2>1. /\ o \in DOMAIN pending
        /\ orders' = Put(orders, o, [pending[o] EXCEPT !.status = "filled", !.filled = call.now])
    BY DEF CommitBuy, PendingOn
  <2> QED BY <2>1, ClosedReserved DEF ReserveInv
<1>2. At("entry_mark")' /\ call'.order = o
  <2>1. call.plan \in Seq(Steps) /\ call \in CallType
    BY CallFields DEF CallOK
  <2>2. call' = [call EXCEPT !.plan = <<"entry_mark">> \o call.plan, !.order = o]
    BY DEF CommitBuy
  <2>3. /\ <<"entry_mark">> \o call.plan # <<>>
        /\ Head(<<"entry_mark">> \o call.plan) = "entry_mark"
    BY <2>1
  <2>4. call'.plan = <<"entry_mark">> \o call.plan /\ call'.order = o
    BY <2>1, <2>2 DEF CallType
  <2> QED BY <2>3, <2>4 DEF At
<1>3. ASSUME WaitingFunded PROVE WaitingFunded'
  <2>1. Waiting = PendingOn("buy") /\ o \in Waiting
    BY DEF Waiting, At
  <2>2. Waiting' = Waiting \ {o}
    BY <1>2, <2>1 DEF Waiting, PendingOn
  <2> DEFINE f == Prices
             W == Waiting
             c == pending[o].reserved
  <2>3. IsFiniteSet(W) /\ o \in W /\ \A q \in W : f[q] \in Nat
    BY <2>1, PricesTyped
  <2>4. f[o] = c /\ c \in Nat
    <3>1. o \in OrderIds /\ o \in DOMAIN pending
      BY PricesTyped, <2>1 DEF PendingOn
    <3>2. f[o] = c
      BY <3>1 DEF Prices, PricesIn
    <3> QED BY <2>3, <3>2
  <2>5. Prices' = f /\ Waiting' = W \ {o}
    BY <2>2 DEF Prices, PricesIn
  <2>9. SumFunctionOnSet(f, W) <= cash_lamports /\ total <= c
    BY <1>3 DEF WaitingFunded
  <2> HIDE DEF f, W, c
  <2>10. SumFunctionOnSet(f, W) = f[o] + SumFunctionOnSet(f, W \ {o})
    <3>1. \A q \in W : f[q] \in Int
      BY <2>3
    <3> QED BY <2>3, <3>1, SumRemove
  <2>6. SumFunctionOnSet(f, W \ {o}) \in Int
    <3>1. IsFiniteSet(W \ {o}) /\ \A q \in W \ {o} : f[q] \in Int
      BY <2>3, FS_RemoveElement
    <3> QED BY <3>1, SumType
  <2>7. cash_lamports' = cash_lamports - total /\ cash_lamports \in Int /\ total \in Int
    <3>1. ledger' = BuyEntries(call.mint, total) /\ call.mint \in Mints
      BY DEF CommitBuy, Due, PendingOn, OrderInv, OrdersTyped, PartialFunction, OrderType
    <3> QED BY <3>1, BuyBooks, CashTyped, BrokerAssumption
            DEF cash_lamports, PositionInv, BooksTyped
  <2>8. SumFunctionOnSet(f, W \ {o}) <= cash_lamports'
    BY <2>4, <2>6, <2>7, <2>9, <2>10
  <2> QED BY <2>5, <2>8 DEF WaitingFunded
<1> QED BY <1>1, <1>3 DEF ReserveInv, WriteMayFail

LEMMA SellReserve ==
    ASSUME BrokerInv, ReserveInv, At("fill"), NEW o \in PendingOn("sell"), Due(o),
           call.mint \in DOMAIN positions, NEW gross \in SellGross, CommitSell(o, gross),
           UNCHANGED season
    PROVE  ReserveInv'
<1> USE DEF BrokerInv
<1>1. /\ o \in DOMAIN pending /\ pending' = Drop(pending, o)
      /\ orders' = Put(orders, o, [pending[o] EXCEPT !.status = "filled", !.filled = call.now])
  BY DEF CommitSell, PendingOn
<1>2. RowsReserve'
  BY <1>1, ClosedReserved DEF ReserveInv
<1>3. /\ Waiting' \subseteq Waiting
      /\ \A q \in Waiting' : pending'[q].reserved = pending[q].reserved
  <2>1. /\ PendingOn("buy")' \subseteq PendingOn("buy") /\ ~At("entry_mark")
        /\ \A q \in PendingOn("buy")' : pending'[q].reserved = pending[q].reserved
    BY <1>1, DropFacts DEF PendingOn, At
  <2> QED BY <2>1 DEF Waiting
<1>4. cash_lamports' >= cash_lamports /\ cash_lamports' \in Int
  <2>1. /\ ledger' = SellEntries(call.mint, gross) /\ call.mint \in Mints
        /\ positions[call.mint].book \in Nat
    BY DEF CommitSell, PositionInv, PositionsTyped, PartialFunction, PositionType
  <2>2. cash_lamports' = cash_lamports + (gross - ExitFees)
    BY <2>1, SellBooks DEF cash_lamports, PositionInv, BooksTyped
  <2>3. gross - ExitFees \in Nat /\ cash_lamports \in Int
    BY CashTyped, BrokerAssumption
  <2> QED BY <2>2, <2>3
<1>5. WaitingFunded => WaitingFunded'
  BY <1>3, <1>4, FewerWaiting
<1> QED BY <1>2, <1>5 DEF ReserveInv, WriteMayFail

LEMMA FilledReserve ==
    ASSUME ~Repriced, BrokerInv, ReserveInv, fill_buy \/ fill_sell
    PROVE  ReserveInv'
<1>1. UNCHANGED season /\ At("fill") /\ ~At("entry_mark")
  BY DEF fill_buy, fill_sell, portfolioVars, At
<1>2. ASSUME NEW o \in DOMAIN pending, Resolve(o, "failed", call.now), UNCHANGED bookVars
      PROVE  ReserveInv'
  BY <1>1, <1>2, ResolvedReserve DEF bookVars
<1>3. CASE UNCHANGED <<orders, pending, bookVars>>
  <2>1. RowsReserve'
    BY <1>3 DEF ReserveInv, RowsReserve
  <2>2. WaitingFunded => WaitingFunded'
    BY <1>1, <1>3, NoNewEntries DEF PendingOn, bookVars
  <2> QED BY <1>1, <2>1, <2>2 DEF ReserveInv, WriteMayFail
<1>4. CASE fill_buy
  <2>1. PICK o \in PendingOn("buy") :
            /\ Due(o)
            /\ \/ Resolve(o, "failed", call.now) /\ UNCHANGED bookVars
               \/ UNCHANGED <<orders, pending, bookVars>>
               \/ /\ UNCHANGED pending
                  /\ \E total \in BuyTotals :
                        total <= pending[o].reserved /\ CommitBuy(o, total)
    BY <1>4 DEF fill_buy, FillFunded, RequiredAtFill
  <2>2. o \in DOMAIN pending
    BY DEF PendingOn
  <2> QED BY <1>1, <1>2, <1>3, <2>1, <2>2, BuyReserve
<1>5. CASE fill_sell
  <2>1. PICK o \in PendingOn("sell") :
            /\ Due(o)
            /\ \/ Resolve(o, "failed", call.now) /\ UNCHANGED bookVars
               \/ UNCHANGED <<orders, pending, bookVars>>
               \/ /\ call.mint \in DOMAIN positions
                  /\ \E gross \in SellGross : CommitSell(o, gross)
    BY <1>5 DEF fill_sell
  <2>2. o \in DOMAIN pending
    BY DEF PendingOn
  <2> QED BY <1>1, <1>2, <1>3, <2>1, <2>2, SellReserve
<1> QED BY <1>4, <1>5

\* A restart waits for what disk waits for, and not for the entry that was paid.
LEMMA CrashReserve ==
    ASSUME BrokerInv, ReserveInv, CrashRestart
    PROVE  ReserveInv'
<1> USE DEF BrokerInv
<1>1. UNCHANGED <<season, orders, ledger>> /\ pending' = Recovered
  BY DEF CrashRestart
<1>2. RowsReserve'
  BY <1>1 DEF ReserveInv, RowsReserve, Recovered
<1>3. /\ Waiting' \subseteq Waiting
      /\ \A q \in Waiting' : pending'[q].reserved = pending[q].reserved
  <2> SUFFICES ASSUME NEW o \in Waiting'
               PROVE  o \in Waiting /\ pending'[o].reserved = pending[o].reserved
    OBVIOUS
  <2>1. /\ o \in DOMAIN orders /\ orders[o].status = "pending" /\ orders[o].side = "buy"
    BY <1>1 DEF Waiting, PendingOn, Recovered
  <2>2. o \in DOMAIN pending /\ pending[o].side = "buy"
    BY <2>1 DEF OrderInv, RowsMatch
  <2>3. ~(At("entry_mark") /\ o = call.order)
    BY <2>1 DEF EntryMarkOK
  <2>4. pending'[o].reserved = pending[o].reserved
    BY <1>1, <2>1, <2>2 DEF Recovered, ReserveInv, RowsReserve
  <2> QED BY <2>2, <2>3, <2>4 DEF Waiting, PendingOn
<1>4. cash_lamports' = cash_lamports /\ cash_lamports \in Int
  BY <1>1, CashTyped DEF cash_lamports
<1>5. WaitingFunded => WaitingFunded'
  BY <1>3, <1>4, FewerWaiting
<1> QED BY <1>1, <1>2, <1>5 DEF ReserveInv, WriteMayFail

LEMMA SeasonReserve ==
    ASSUME BrokerInv, ReserveInv,
           initialize \/ reconfigure_unstarted \/ reset \/ rollover
    PROVE  ReserveInv'
<1>1. DOMAIN pending' = {}
  BY NothingFacts
  DEF BrokerInv, NoSeasonIsEmpty, initialize, reconfigure_unstarted, reset, rollover,
      ArchiveAndClear, memory
<1>2. RowsReserve'
  BY <1>1 DEF RowsReserve
<1>3. cash_lamports' >= 0
  <2>1. BrokerInv'
    BY BrokerNext DEF Next, StepOK
  <2> QED BY <2>1 DEF BrokerInv, PositionInv, CashNeverNegative
<1> QED BY <1>1, <1>2, <1>3, NothingWaits DEF ReserveInv

\* In a SOL book, while writes succeed, what the waiting entries reserve is in cash between
\* calls, whatever their sizes and whatever fills, fails, expires or is recovered
\* (broker.py 640-720, 1697-1720, 2210-2217).
THEOREM ReservationsAlwaysFunded == Spec => []ReservationsFunded
<1>1. Init => ReserveInv
  <2> SUFFICES ASSUME Init PROVE ReserveInv
    OBVIOUS
  <2>1. DOMAIN orders = {} /\ DOMAIN pending = {} /\ cash_lamports = 0
    BY NothingFacts, AccountsApart DEF Init, cash_lamports, EmptyBooks, BookAccounts
  <2>2. Waiting = {}
    BY <2>1 DEF Waiting, PendingOn
  <2>3. \A f : SumFunctionOnSet(f, {}) = 0
    BY FS_EmptySet, SumStep
  <2> QED BY <2>1, <2>2, <2>3 DEF ReserveInv, RowsReserve, WaitingFunded
<1>2. ~Repriced /\ BrokerInv /\ ReserveInv /\ [Next]_vars => ReserveInv'
  <2>1. ASSUME ReserveInv, UNCHANGED vars PROVE ReserveInv'
    BY <2>1 DEF vars, durable, memory, ReserveInv, RowsReserve, WaitingFunded, Waiting,
       PendingOn, At, cash_lamports, WriteMayFail, Prices, PricesIn
  <2>2. ASSUME ~Repriced, BrokerInv, ReserveInv, Next PROVE ReserveInv'
    BY Zenon, <2>2, QuietReserve, CancelledReserve, ExitReserve, SubmittedReserve,
       EntryMarkReserve, FilledReserve, CrashReserve, SeasonReserve DEF Next
  <2> QED BY <2>1, <2>2
<1>3. BrokerInv /\ ReserveInv => ReservationsFunded
  <2> SUFFICES ASSUME BrokerInv, ReserveInv, ~WriteMayFail, AtRest
               PROVE  Reserved <= cash_lamports
    BY DEF ReservationsFunded
  <2>1. ~At("entry_mark")
    BY DEF At, AtRest
  <2> QED BY <2>1, ReservedIsWaiting DEF ReserveInv, WaitingFunded
<1>4. CASE Repriced
  <2>1. ReservationsFunded
    BY <1>4 DEF ReservationsFunded
  <2>2. []ReservationsFunded
    BY <2>1, PTL
  <2> QED BY <2>2
<1>5. CASE ~Repriced
  <2>1. BrokerInv /\ ReserveInv /\ [Next]_vars => ReserveInv'
    BY <1>2, <1>5
  <2> QED BY <1>1, <1>3, <2>1, BrokerInvariant, PTL DEF Spec
<1> QED BY <1>4, <1>5
=============================================================================
