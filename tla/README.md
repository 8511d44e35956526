# Signal Arcade: a TLA+ verification project

Signal Arcade is a Python service that watches a live token market, scores
tokens, trades them on paper through a simulated broker, and learns from the
outcomes. It is one process: an asyncio event loop, threads for SQLite work and
heartbeats, a dedicated diagnostics thread, and a SQLite database that must
survive a restart. This directory models the parts whose correctness depends on
interleavings, crashes, failed writes and rounding, checks them with TLC on
small instances and proves the central facts with TLAPS for every instance.

All paths below are relative to `src/backend/signal_arcade/`.

## 1. Inventory

| Part | State it keeps | Operations | What is hard |
|---|---|---|---|
| `event_queue.py` SeasonEventQueue | heap of rows, receipts of admitted events, dequeued receipts, waiting putters, boundary, parked rows | admit, put, put_nowait, get, get_nowait_before, promote_mint, task_done, begin/end_boundary, discard_queued | waits that are cancelled, wake-ups, a reserved slot, rows of two seasons |
| `orchestrator.py` event pipeline | event sequence, batches in flight, source fence, event lock | enqueue_event, _event_worker_loop, _finish_season_boundary, heartbeat idle check, set_demo_mode | loop against heartbeat thread, hand-over of a season in mid-stream |
| `paper/broker.py`, `database.py` | orders, positions, traded mints in memory; orders, fills, positions, ledger in SQLite | submit, fill, mark, exit, expire, cancel, initialize, reset, rollover, recovery | crash between transactions, a failing write, prices that move between reservation and fill |
| `orchestrator.py` engine control | running, trading_enabled, season profile, quarantine, journalled operation | resume, pause, request profile, transition tick, heartbeat tick, auto season | legal calls in an order nobody tested |
| `paper/curve_math.py` | none | quote_buy, quote_sell | rounding at every division |
| `orchestrator.py` continuity guard | stream gap, gap per token (bounded), last reconnect count, was-healthy, incident flag | mark gap, note loss, window complete, observe health | stale timestamps, health read before an await |
| `diagnostics*.py` | bounded deques of reports, groups and intervals, loss counters, one-slot mailbox, store watermark | event, optional_events, publication, collect, flush_one, stop; writer thread | two threads, failed saves, honest loss counting |
| `orchestrator.py` event order, `intelligence/features.py` | cursor (slot, sequence) per token, snapshot fence, reserves, pool, verified route | accept a row, apply and fence a snapshot, prune, confirm a route | late, duplicate and reordered rows; RPC answers decoded while rows arrive |
| `orchestrator.py`, `api.py` season operations | journalled operation with a stage, engine preference, season book | start, stop, profile change, reset, automatic replacement, upgrade, recovery | restart and failed write at every stage |
| `orchestrator.py` season clock | three timestamps, in memory and stored | heartbeat, pause, sell, checkpoint, restart, upgrade | time nobody watched |
| `orchestrator.py` watchdog, `terminal_evidence.py` | route probes per position | probe, confirm, write off | answers for a position that has been replaced |
| `orchestrator.py`, `database.py` storage maintenance | a pass with its categories and turns, request flags, the reserve request in flight | admit, delete chunks, retry, yield, upgrade | everything may be refused; answers thrown away |
| `quota.py`, `providers/http.py` | token bucket and monthly usage per provider, cool-down per endpoint | acquire, penalize, reconfigure, call, cancel | cancellation between check and count, reconfiguration during a call |
| `providers/solana.py` | generation, connected, last error, reconnects, fallback | run, configure, health | reconfiguration during an attempt |
| `intelligence/learning.py`, `training_job.py` training | requests, one private job, artifacts, tournament, champion | prepare, fit (thread), publish, release, promote, prune | a private fit published into a changed world |
| `learning.py` skill authority | active skills with the versions beside them, suspensions, retries | join, crown, suspend, recover, switch policy, restore | failed writes, staged grants, restarts |
| `learning.py` collection | observations, policy episodes, checkpoints, ledger of first entries | enter, take a value, expire, prune, reload | a mint that returns; answers outside their window |
| `learning.py` checkpoint turns | lane turn, order of routes | select, attempt | starvation |
| `coach.py`, `database.py` | studies per context, finished episodes | evaluate, ask, save, hand off, retain | reads in threads, a context that moves |
| `ai_lab.py` | queue, queued tokens, open outcomes, qualification cache, mode, model | enqueue, assess, save, resolve, qualify, switch, pause | cancelled saves, audits in another thread |
| scoring, exits, research, API, frontend | windows and derived numbers | | floating-point or display code |

How the parts interact. The stream provider calls `enqueue_event`; the worker
takes batches from the queue and, under `_event_lock`, updates features, decides,
calls the broker and feeds learning. The heartbeat takes the same lock every few
seconds, runs the broker's time-driven work on a thread, and may close a season:
it either finds the pipeline idle or begins a boundary that the worker completes.
The continuity guard is written by the worker, the producers and the heartbeat
and read when a decision is made. Learning pops training requests under the lock,
fits without it and publishes under it; storage maintenance and learning keep out of
each other's way through flags. A profile change or an upgrade stops the engine, the
lab and the cleanup in turn. Diagnostics are fed from the loop and written
by their own thread. `PROJECT.json` lists every component, with the reason where
it is not modelled, and every hazard with the properties aimed at it.

## 2. Modules

| Module | Models | Uses |
|---|---|---|
| `SeasonEventQueue` | `event_queue.py` | |
| `EventPipeline` | producers, worker, heartbeat tick, source switch | extends `SeasonEventQueue` |
| `EventPipelineProofs` | theorems | extends `EventPipeline` |
| `PaperBroker`, `PaperBrokerProofs` | broker, its transactions, engine control around it | |
| `CurveMath` | integer quotes | |
| `IntegrityWindow` | continuity guard, stream health | |
| `Diagnostics`, `DiagnosticsProofs` | recorder, writer thread, store watermark | |
| `ProviderCalls` | quota governor and the calls that pass it | |
| `StreamHealth` | what the continuity guard relies on: health as others see it | |
| `SolanaStream` | the chain stream | implements `StreamHealth` (`INSTANCE ... WITH`) |
| `EventOrder` | one token's rows, snapshots and route | |
| `SumTheorems` | no code: sums over finite sets, induction on numbers | used by the proofs of the broker and of diagnostics |
| `RouteProbes` | terminal evidence of a position | |
| `MarketProofs` | theorems | extends `SolanaStream`, `EventOrder`, `RouteProbes`, `CheckpointTurns`, `ProviderCalls`, `CurveMath` |
| `SeasonClock`, `SeasonOperations` | automatic seasons; journalled operations | |
| `OperationsProofs` | theorems | extends `SeasonClock`, `SeasonOperations`, `StorageMaintenance`, `AiLab` |
| `StorageMaintenance` | cleanup passes and the reserve request | |
| `TrainingPublication`, `SkillAuthority` | training and tournaments; who may act | |
| `LearningCollection`, `CheckpointTurns` | outcomes of a mint; whose turn it is | |
| `LearningProofs` | theorems | extends `IntegrityWindow`, `LearningCollection` |
| `EngineProofs` | theorems | extends `CoachStudies`, `TrainingPublication`, `SkillAuthority` |
| `CoachStudies`, `AiLab` | the Coach's studies; the local critic | |
| `MCMarket`, `MCOperations`, `MCLearning` | several components in one run | extend the above |
| other `MC*` | symmetry sets and small constants | |

`MCMarket`, `MCOperations` and `MCLearning` check components that do not share state
side by side: `part` is chosen initially, only that component takes steps, and the
others rest in their initial state. The states of the parts add up, and every
property is checked on all of them.

An operator whose comment begins with "Mutant:" is a plausible wrong version of the
definition that follows it. No specification uses it; it is there to show that the
property it breaks depends on the line it changes.

### SeasonEventQueue and EventPipeline

State variables carry the code's fields: `rows` (the heap; a row parked behind a
boundary has `later` = 1), `pending` and `dequeued` (the two receipt sets), `boundary`,
`putters` and `woken` (the queue's deque of futures). A method is one operator;
`EventPipeline` calls it inside an action. An action is what happens between two awaits.
Coroutines are therefore atomic towards each other (`LoopFree`) but not towards the
heartbeat tick, which runs on a thread: there each shared read is its own action
(`HeartbeatReadBatches`, `HeartbeatReadQueue`, ...). The sections of `enqueue_event` and
of the worker that the heartbeat thread can observe half-way are split in the same
places. Priority other than "this token has a pending AI outcome" is the environment's
choice. Handling an event is one action; what it does to features and broker is
`PaperBroker`'s subject.

### PaperBroker

Broker calls are serialised by `_event_lock`, so calls do not interleave. A call is
a plan: the list of steps it still has to take, each with at most one SQLite
transaction that matters. Between two steps the process may die (`CrashRestart`
rebuilds memory the way the constructors do), and in a season of `FaultySeasons` any
write may raise, which unwinds the call and leaves memory where the code leaves it. The
ledger is the real double entry, by account. Abstracted: prices are members of
`Costs`, `BuyTotals` and `SellGross`; refusals for drawdown, exposure, thesis or
market quality, and the decision to exit, are nondeterministic; a mark is its
time, staleness and executability; wall-clock ageing of a mark is the parameter
`aged`; the profile transition's callers are restricted only by `locked`.
Terminal write-offs are `RouteProbes`' subject.

### CurveMath

`quote_buy` and `quote_sell` in exact integers, with the input search of
`quote_buy` as the first affordable input at or below the starting guess. Paper
trades do not move the observed reserves, so the model lets a trader repeat quotes
against one observation and keeps a tally. Basis points are a constant `BPS`
(10 in the runs, any positive number in the proofs). The 127-bit sanity limit and
the displayed price impact are left out.

### IntegrityWindow

Time is a counter in seconds. `Decide` is `_integrity_learning_window_complete`'s
effect on the memory and `WindowComplete` its answer; `ObserveHealth`,
`IncidentRecorded` and `FinishObservation` are `_update_stream_incident`, split at
its await. `MaxLag` bounds how old a timestamp is when it is used: a decision uses
the receipt time of its event and the heartbeat the start of its tick. The ordered
dictionary of gaps is a function, because its entries are written with the current
time and so are always ordered by it; forgetting the oldest expired entries is
then forgetting all expired ones. `downAt`, `lostAt` and `contradicted` are history.

### Diagnostics

One action per recorder method; `collect` is split after it has read the loss
counters, because the writer thread may count in between. The writer's program
counter follows `_run`. An event is an identity, a kind (protected, ordinary or an
optional stream) and a scope. `append` saves, refuses, or raises before or after
its commit. Several reports passed to `optional_events` at once are a series of
single reports; cadence is the action `CadenceElapses`.

### ProviderCalls

A call is a small program: choose an endpoint, take the provider's lock, read the
month's usage, decide, count in a thread, send, answer. A caller may be cancelled in
any wait; its counting thread then commits later. `ChangeProviders` and
`Reconfigure` are the two halves of `configure_providers`, between which other
tasks run. Refill is in whole tokens.

### SolanaStream and StreamHealth

One task (`run`, `_run_once`, `_wait_retry`) against `configure` and a stop. What the
task remembers of the configuration it started with is `attempt`. `StreamHealth`
says in three lines what `IntegrityWindow` assumes of health and its reconnect
count; `HealthImplemented` checks that the stream refines it. Decoding and the
adaptive log filter are left out; an acknowledged subscription may notify or fail.

### EventOrder and RouteProbes

`EventOrder` follows one token: rows may arrive late, twice or out of order, an RPC
snapshot is asked for, decoded in a thread while rows arrive, applied and fenced.
`RouteProbes` follows one mint through successive positions: an answer carries the
position and time it was asked for, and ages bound what it may still prove.

### SeasonClock and SeasonOperations

The clock's timestamps are numbers; the host clock may step back, and the loop may
stall for longer than a heartbeat may. `SeasonOperations` takes one step per
database write; the lock it holds across them is `eventLock`, the API's own is
`ApiOpen`. A stop between two writes leaves what is stored and the next start
reconciles it. The broker's season calls are one step each here.

### StorageMaintenance

A pass goes through capacity, three history categories, retired tables, budget, an
optional category and capacity again; each may be refused. Rows are counted per
category in the smallest numbers that tell "some", "a chunk" and "none" apart.
Deferral ages, chunk sizes and clocks are free choices.

### TrainingPublication and SkillAuthority

The fit's result, scores and trials are free choices. `TrainingPublication` takes one
step per transaction of a publication and per boundary between lock and no lock.
`SkillAuthority` models skills in their order with the versions that each was joined
beside; a failed write is a step of its own, and a restart restores from the rows.

### LearningCollection and CheckpointTurns

One mint through several seasons of one cohort, with its observation and its episode;
a checkpoint is open, missing or the age at which its value was taken. `seen` and
`usable` are the count kept by the code and the one it should have.
`CheckpointTurns` selects from whatever is due; a route may become urgent at any time.

### CoachStudies and AiLab

Both are actors whose database work runs in threads: the read, the answer of the local
model, the save and the registration are separate steps, with the heartbeat,
retention or a mode switch in between. What evidence shows is a free choice. In
`AiLab`, models, modes and a maintenance pause change under queued and guarded
assessments; a worker may be cancelled at every await.

## 3. What the runs check

`PROJECT.json` has one sentence per run. Properties of one component that belong
together are named parts of one promise (`StreamIsCurrent` is the conjunction of
`ConnectedIsCurrent`, `WakeNotLost` and so on); each part has its own comment in the
module, and a mutant of its own in `PROJECT.json`. The properties, by subject:

**Pipeline** (`pipeline_safety`, `pipeline_liveness`).
`ReceiptsAccounted`: an admitted event is held exactly once, whatever is shed,
cancelled, discarded or parked. `ReservedCapacity`: parked rows never occupy the
room owed to old producers. `OldOnlyDequeued` and `HandoverIsOrdered`
(`OwedOnlyShrinks`, `WorkerHandoverComplete`): a boundary sees only old work,
finitely much of it, and the worker's hand-over comes after all of it. `PromotedInOrder`,
`SourceIsolation`. Liveness: `BoundaryDrains`, `CriticalAdmitted`.
Bounds: two producers, a queue of one or two rows and three or four events are
enough for a full queue with a waiting producer on each side of a boundary, a
cancelled wake-up and a batch across a switch.

**Broker** (`broker_crash`, `broker_faults`). `FundsReconcile`: ledger, cash,
inventory and realised profit agree (`BooksReconcile`) and cash pays for every fill.
`ReservationsFunded`; `OrdersAreUnique` (types, `OneEntryPerMint`, `OneExitInFlight`);
`FillsAuditClean`: the code's own chronology audit finds nothing;
`MemoryFollowsDatabase`; `StoppedHasNoEntry`; `HoldingsEndure`
(`InventoryNeverLost`, `MarksNeverRegress`). In `broker_crash`, a SOL book
(`Repriced` false: an order needs at its fill what it reserved), two mints compete for a
bankroll that covers a small and a large entry but not two large ones; fills come to less
than a large entry, so that two positions can be held, and to more than a small one, which
is then refused. Three orders allow an entry, its exit and a competitor; two time points
give order, latency and a late event. In a USDC book `ReservationsFunded` would be false:
an order priced higher at its fill takes what another reserved, and the recheck at that
other's own fill refuses it. `broker_faults` has one mint and two
seasons, the first with writes that may raise, the second (and what precedes the
first) with sound ones: faults in both seasons grow past what TLC can finish in
minutes. `StoppedHasNoEntry` is claimed of the sound season only; it does fail when the
cancelling write fails. Fill costs straddle the bankroll, so that the recheck at the
fill matters.

**Market evidence** (`market`).
*Calls*, `QuotaHonoured`: `GrantsWithinLimit`, with the reserve for critical calls;
`AdmittedUnderOwnPlan`, `CooldownsAreOwn`: nothing of an old configuration counts
against or for the new one; `PenaltyHonoured`. Two calls, three requests, one
reconfiguration.
*Stream*, `StreamIsCurrent`: `ConnectedIsCurrent`, `WakeNotLost`, `FallbackEarned`,
`NoStaleHandOff`; and `HealthImplemented`, the refinement. Two reconfigurations and two
failures reach the fallback, the capped back-off and a reconfiguration in each wait.
*Order*, `TokenFollowsChain`: `ShownNeverRegresses`, `SnapshotFencesQueue`,
`VerifiedIsProven`. Two slots, three rows, one snapshot, two pools.
*Probes*, `WriteOffsAreProven`: `WriteOffProven`, `CountIsEarned`, `ProofsAreOwn`. Two
positions in the mint, three probes, a reset.
*Quotes*. `NoFreeMoney`: no series of trades against unmoved reserves gains (a quote
never beats the spot price, `SpotBounds`). `MaximalInput`: the buy spends the largest
affordable input, against a brute-force definition. `VaultCovers`: a sell is paid from
the real vault. The instance is small because all are proved.
*Collection*, `EvidenceIsSound`: `ProofIsFirst`, `ValuesInWindow`,
`OutcomesCountedOnce`, `SavedOutcomesAreFinal`, over two seasons, a failed write and a
restart.
*Turns*, `TurnsAreFair`: `TurnsRotate`, `LanesShare`, with two routes in each lane and a
budget of two.

**Operations** (`operations`).
*Seasons*, `OperationsRecover`: `DrainIsFrozen`, `TransitionOutcome`,
`TransitionRestoresEngine`, `ReadyIsQuiet`, `EngineMatchesPreference`, with four
operations, one upgrade, one stop and one failed write, so that each can fall into any
other.
*Storage*, `CleanupCompletes`: `CleanupRemembered`, `RetainedIsExhausted`,
`UpgradeIsQuiet`, `OptionalYieldsToLearning`, `HistoryTurnsShared`.
*Lab*, `LabIsAccountable`: `QueuedMintsExact`, `OutcomesAwaited`, `OutcomesFinal`,
`VetoIsQualified`, `SettledLabIsQuiet`, with two tokens, two models, room for one entry
and two rows.

**Learning, and the season clock** (`learning`).
*Training*, `TrainingIsSound`: `TrainingNotWedged`, `TrainingNotForgotten`,
`CandidatesStored`, `PublishedIsCurrent`, `CrownIsEarned`: two cohorts, three versions,
one failed write, one stop.
*Authority*, `AuthorityIsProven`: `CompositionProven`, `EntryIsRoot`,
`AuthorityDurable`, `RecoveryEarned`: an entry skill and a contextual one, three crowns,
three joins, one failed write.
*Coach*, `StudiesAreSound`: `OneStudyPerContext`, `VerdictIsWhole`, `StudiesRemembered`,
`HandedOffIsSeeded`: two contexts that move twice (there and back), two studies.
*Continuity guard*: `NoLossInWindow`: an accepted window holds no lost event of its
token, up to `MaxLag`. `OutagesExcluded`: it holds no outage either, unless the observer
has concluded "healthy" while the stream was down, which is the one way an outage is
missed. A window of two seconds in four, two tokens and room for one gap reach pruning,
the limit's fall-back and an outage; the properties are proved for every size.
*Clock*, `CountdownIsHonest`: `CreditIsVerified`, `RolloverEarned`, `StoredNeverAhead`,
`DeadlineNeverExtended`. A grace of three units and a largest credited gap of one make
every credit and every pause decisive; two upgrades let one follow another that was
overtaken.

**Diagnostics** (`diagnostics_handoff`). `EventsAccounted`: every event is pending
(one per optional stream), on its way, saved, replaced, of unknown fate or counted
lost once. `LossesAdmitted` (`StoredHolesFlagged`, `LossesFlagged`): no loss goes
unmarked. `ProtectedLast`, and `WriterNeverStranded` (`NothingStranded`,
`StopWakesWriter`): no record stays behind an ended writer and no stop request is
lost between the writer's test and its wait. Deques of two, a queue of one
interval, three events and two intervals make every bound bite; a failure of the
reporting itself is tried once all events are in, and the reports of one stream
come in two scopes.

Runs say `CHECK_DEADLOCK FALSE` where the program may stop or a named bound ends
the behaviour (a stopped recorder, `MaxTime`, the last request of a part).

### Disagreements found

* `pipeline_handover`: the heartbeat's idle check does not see an event the worker
  has dequeued but not counted, so a season is handed over ahead of it.
* `broker_audit`: a failed position save right after a committed buy leaves the
  filled order pending in memory; resolving it overwrites the filled row.
* `broker_quarantine`: the quarantine of a season survives the profile transition
  that replaces it.
* `integrity_stale`: health read before the wait for the incident store is applied
  after it and hides an outage that began meanwhile.

Each is quoted with the comment or message it contradicts in `PROJECT.json`.

### Narrower observations

Properties state what the code does ensure; where that is less than one might expect,
a condition or a history variable in the module says so:

* `EventOrder`: while the AMM route of a migrated token is unverified, a late row of
  the curve in the same slot may overwrite its reserves (orchestrator.py 1289-1310).
* `RouteProbes`: a live stream row between two refusals does not reset the count.
* `SeasonClock` (`overtaken`): `begin_upgrade_preparation` (6988-7055) reads the
  remaining time without the event lock; what a heartbeat, a sell or a rollover does
  before it is written back is forgotten. It also credits the time since the last
  heartbeat without the continuity check.
* `SeasonOperations` (`halfFrozen`): a failed freeze gives the event lock back before
  the operation is marked failed (6607-6623). A heartbeat that rolls the season over in
  between has read the operation before it awaits the rollover (`tick`), and puts the engine
  back as that operation said, whatever became of it.
* `StorageMaintenance`: an upgrade declared between the check and the start of the
  maintenance task drops the request, until the resumed service asks again.
* `TrainingPublication` (`abandoned`): a job discarded while another cohort is current
  asks for a training of the current cohort only (learning.py 1297-1300).
* `SkillAuthority` (`halfDone`): a `set_participation` that fails half way leaves memory
  changed (learning.py 1443-1496).
* `LearningCollection`: when the ledger's write fails after the episode's, or an item
  finished only in memory, the disk lags until the next write or restart.
* `CoachStudies`: if the context moves after the last check and before the save, the
  study is filed under the context it was asked for.
* `AiLab` (`swapped`): a guarded assessment that waits for the model list answers
  with a model selected meanwhile; a qualification computed by the monitor thread can
  be published after the cache was invalidated and stay until it expires.

### Fairness

`EventPipeline` assumes weak fairness of each producer's steps once it has
an event, of the worker, of the heartbeat's steps and of the source switch's second
half, which is what an event loop and a running thread give, and strong fairness of
`FinishLock`, because `asyncio.Lock` serves its waiters in order. Nobody need
produce, cancel or start a switch. No other module states fairness: where the newer
ones speak of progress they do it as safety (a wake-up is pending, a request or a
job exists, a skipped turn is bounded), which needs no assumption on scheduling.

## 4. What is proved

The proofs hold for every value of the constants, under the named assumptions of
the modules. What they ask for is: capacities, windows and bounds are naturals (and
not zero where the code's are not); sets of mints and order ids are finite, which a
database's are, and hold no name of another sort (no mint is called `"cash"`, `NONE`
is no interval); prices and bankrolls are naturals. An invariant below is inductive:
it holds initially and every action keeps it, one lemma per action or group of
actions.

`EventPipelineProofs`
* `PipelineTypeCorrect`: types, and the queue within its capacity. Inductive as it
  stands; each queue method has a lemma.
* `ReceiptsNeverLeak` and `BoundaryHidesNewSeason`. `ReceiptsAccounted` is not
  inductive: `discard_queued` and `end_boundary` need to know that sequences are
  unique and that parked rows lie beyond the boundary. The invariant is
  `ReceiptInv`, the conjunction of `ReceiptsAccounted`, `FreshSequences` (numbered
  events are new), `ParkedBeyond` and `OldOnlyDequeued`.
* `SourcesNeverMix` (`SourceInv`): every sequence above the fence was issued by the
  source in force, and what the worker has in its batch was issued at all.
* `PromotionKeepsOrder` (`CriticalFirst`): the rows and arrivals of a mint whose outcome is
  pending all have the highest priority, so its sequence numbers alone decide.
* `CapacityStaysReserved` (`ReserveInv`): a producer whose number lies below the boundary and
  which has not been admitted yet finds no row parked (`EarlyNumbered`); otherwise nothing
  could be reserved for it. The counting uses the library's facts on cardinalities.
* `HandoverStaysOrdered` (`HandoverInv`, `LoopInv`): the second half has to hold over a wait
  for `_event_lock`, during which a source switch may take the boundary away and the
  heartbeat begin another.

`PaperBrokerProofs`
* `BrokerInvariant` (`BrokerInv`) carries the rest. Its parts: types of every record
  and season; the plan of the call in progress is one of those the code can be in
  (`CallOK`: an entry is marked only as the next step, entries are frozen right after
  they were cancelled, a resume neither fills nor cancels); `PositionInv`, inventory at
  book; `OrderInv`, that rows of memory and database agree up to orders only memory
  knows and that an entry that can still be committed is of a mint not entered yet
  (without it `OneEntryPerMint` is not inductive); `EntryMarkOK`, `NoSeasonIsEmpty` and
  `EntriesCancelled`. It is kept by every step, every failed write and every crash.
* From it: `OrdersAlwaysUnique`, `InventoryAlwaysAtBook`,
  `MemoryAlwaysFollowsDatabase`, `StoppedNeverHasEntry`, and the action property
  `HoldingsAlwaysEndure`.
* `FillsAlwaysAuditClean` (`AuditInv`) and `StoppedNeverHasEntry` are about seasons in
  which writes succeed; with a failed write the first is false, as `broker_audit` shows.
* `FundsAlwaysReconcile`, `BooksAlwaysReconcile`: `MoneyAgrees` states the ledger's sum and the cash
  identity; each transaction changes two or three accounts, and `SumChange` says what
  that does to a sum.
* `ReservationsAlwaysFunded`: for entries of any sizes in a SOL book. The invariant counts
  the entries that wait and the money they need also in the middle of a call, where an
  entry being marked has been paid, and says that the row on disk reserves what memory
  reserves, so that a restart asks for no more.

`DiagnosticsProofs`
* `WriterNeverStrandedAlways`: with `EndedIsStopping`, because only a stop or the
  last drain closes the mailbox.
* `LossesAlwaysAdmitted`: with `WatermarkBehind` (what `collect` remembered is never more
  than what was counted) and `IntervalsInOrder` (numbers rise from the store to the
  writer's hand, the mailbox and the queue, and no two intervals share one).
* `EventsAlwaysAccounted`: each action moves as many events as it takes from one place
  to another. `IntervalsInOrder` is what makes an interval lie in one place only, up to
  the copy the store has while the writer verifies. The lemmas `FlattenSplit`,
  `GroupsSplit`, `EventsSplit` and `PickedProperties` say that `_take_events` divides
  the deques into what it takes and what it leaves, and loses or repeats nothing.
* `ProtectedAlwaysLast`: `Victim` and `QueueVictim` choose a protected one only when
  all are.

`MarketProofs`
* `SpotBoundsHold`, `UnmovedQuoteNeverPays`, `VaultAlwaysCovers`: two lemmas on
  rounding (a ceiling times its divisor is at least the dividend) give the spot
  inequality of one buy and one sell; the tally's invariant adds them up; the
  round trip follows by cancelling the reserves.
* `LoopAlwaysFindsLargest`: the loop's first candidate is the budget divided by one and
  the fee, and whatever is affordable with its rounded-up fee lies below it
  (`StartCoversAffordable`), so counting down from there passes nothing over.
* `StreamAlwaysCurrent`: an attempt of an earlier generation may still run, but
  every flag that counts was set by the one in force.
* `StreamImplementsHealth`: refinement of `StreamHealth` under its mapping; each action
  of the stream is a step of it or a stutter.
* `TokenAlwaysFollowsChain` (`OrderInv`): nothing shown is newer than the features' newest
  slot, an applied snapshot is the newest thing they know until its second step, and the
  order boundary has reached the last snapshot (`FenceCovered`).
* `WriteOffsAlwaysProven` (`ProbeInv`): a count larger than zero stands on a run of equal
  outcomes at the end of the history, the first of which gave the probe its first time and
  slot, and a count of two on a later one (`RunFrom`); every record is of the position last
  opened and there are fewer of them than requests (`RecordsAreRecent`); what is retired is
  no longer held. `RunGrows` is the step that matters: a repeated answer leaves the run, a
  later one lengthens it, another outcome or route begins a new one.
* `TurnsAlwaysFair` (`TurnsInv`): a due mate that passed a waiting route has its last turn
  after it (`PassedIsLater`), so it cannot come before it in the lane; a waiting route that
  this call has had already was not passed by one the call still holds (`SettledInCall`).
  The shares of the lanes follow from the turn's place in the round of four.
* `QuotaAlwaysHonoured` (`QuotaInv`): a task that decides or counts is at the head of the
  lock's queue (`LockShared`), so between the read and the answer nobody else is admitted:
  what it read is no less than what was granted, and its own call still fits
  (`CountsAhead`), however many abandoned threads commit meanwhile. The plan differs from
  the generation exactly while the new configuration waits for the lock, and whoever is
  before it in the queue is of an older one (`PlansFollow`). `LockJoins`, `LockLeaves` and
  `HolderLeads` are the facts about the queue.

`LearningProofs`
* `LostEventsExcluded`: from `LossCovered`, which says for every lost event that
  it is older than any window that can still be asked about, or covered by the
  source-wide boundary, or by its token's own. `NoLossInWindow` alone is not
  inductive: it says nothing of gaps while the stream is down.
* `UncontradictedOutagesExcluded`: from `OutageCovered`, which says that an outage in
  progress is acknowledged or still visible in the reconnect count, and that a
  stream taken as healthy has its horizon after the last outage. The condition
  `~contradicted` cannot be dropped, as `integrity_stale` shows.
* `GapMemoryBounded`: from finiteness of the set of gaps.
* `EvidenceAlwaysSound` (`EvidenceInv`): the database is behind memory and never differs in
  what both have (`RowsBehind`), so an outcome on disk is final. No eligible row is earlier
  than the first entry, and the row that made it is there until it is finished, which takes
  time (`FirstIsEarliest`, `FirstStands`); hence an episode of the same season and moment
  is the same episode. Memory holds the ledger's entry or none, and the ledger is the first
  entry unless an episode was saved without its ledger row (`LedgerAgrees`); a restart
  that still finds that row brings the ledger back.

`EngineProofs`
* `StudiesAlwaysSound` (`CoachInv`) has two halves. What a study under test has enrolled is
  an initial segment of the episodes of its context, ending at its cursor unless it is full
  (`Enrolling`); `FirstsOrdered`, `FirstsFit` and `FirstsFill` count what a page holds and
  what still fits, and `EnrollingGrows` is the step: a row of the page is left out only when
  the study is full, and a deleted row beyond the cursor ends the study instead. Hence the
  prefix a verdict counts skips nothing. The other half is that the coach task needs a study
  under test and the heartbeat a supported one, so each compare-and-swap finds the row it
  read (`CoachHolds`, `BeatHolds`), and the one window in which memory is behind the row is
  that of the actor that wrote it (`MemoryFollows`).
* `TrainingAlwaysSound` (`TrainingInv`): `Jobs` says where the one job of the trainer can be
  while requests and outcomes come in and the context moves, so that a cohort that is due is
  requested, active or given up under another context (`abandoned`). `Stages` says that
  memory and disk hold the same artifacts, which include every version either refers to; that
  at most one candidate of a kind waits (hence two in all) and only a crowned tournament has a
  contender; and that a crown memory has and the disk lacks is the one a restart would give.
  The fence and the crown are action properties of the same invariant.
* `AuthorityAlwaysProven` (`AuthorityInv`) has three parts. `Sound`: who is active stands beside
  the very skills it joined and is not suspended; it survives because every change of a skill
  removes all that is downstream of it (`SoundRemoved`, `SoundActivated`). `Follows`: a row in
  the database is that of memory except where a revocation is still to be written, and an
  active map on disk is itself a composition, which is what lets a restart take it over
  (`RestoredFacts`, `RestoresAll`). `Clean`: outside a half-done settings change whoever acts
  does so under the entry and with its proof, and the disk knows the mode. Without the second
  half of `Follows` a restart after a failed revocation could restore a skill beside others.
  The proof corrected the property: with three crowns, a champion whose row could not be
  written is followed by one whose row could, and a restart then drops the skill that was
  active, because the active version is no longer the saved champion. `AuthorityDurable`
  now says what does hold: a restart restores nothing that does not act, and all of it when every
  active version is its skill's champion.

`SumTheorems` proves by the least-number principle what the library states with
operator parameters: a fold with `+` over a finite set takes any element first
(`SumRemove`), and a sum grows with its set (`SumMonotone`). It says nothing of
the code.

`OperationsProofs`
* `CountdownAlwaysHonest` (`ClockInv`): a running clock has counted no more than was verified
  plus the time since the last heartbeat, a paused one no more than was verified
  (`CountsNoMore`), and neither the last heartbeat nor the start of a pause is later than the
  history knows (`ClockRuns`), so whatever interval the history would discard as too long the
  code discards too (`ResumedCounts`, over the cases of the gap). The database is the clock as
  of its last checkpoint, which is no later. While an upgrade holds the remaining time, that
  remainder obeys the same bound (`UpgradeHolds`). The proof corrected the history: an
  overtaken upgrade taints the clock until it is thrown away, not only until the next upgrade
  reads it, and what an upgrade credits is no longer counted again by the next heartbeat.
* `OperationsAlwaysRecover` (`SeasonInv`): every caller, task and holder of the event lock
  belongs to the operation that runs (`CallersOwn`), so an action that ends an operation
  ends its own. A profile change draws on the season it began in until its boundary;
  between the boundary and its report the heartbeat waits for the database, and what it read
  before is still true of the operation, unless a failed freeze ended it in between
  (`TransitionDrains`). The engine differs from its stored preference only by the write under
  way (`EngineKnown`). That is what makes `Committed` decide correctly after a stop: a
  running transition committed exactly if the process stopped at the boundary. The proof
  corrected the model: with two failing writes a transition can fail while the heartbeat
  completes its boundary, and what the heartbeat writes then is what it had read (`tick`).
* `StorageAlwaysCompletes` (`StorageInv`): a pass that will not ask for another one has
  emptied what it has been through, and between passes nothing is left without a request
  (`PassRemembers`); optional work began beside an idle reserve worker (`OptionalAlone`);
  the rotating admission bounds how long a category is left out (`TurnsRotate`).
* `LabAlwaysAccountable` (`LabInv`): a token waits once and not while the worker has it
  (`QueuedOnce`), which is why freeing the worker's token or discarding the queue never frees
  another's. A task's row is its own, made until it is saved, open and not yet awaited until
  it is published (`RowsOwned`), so a save never meets a resolved row. Whatever a cache or an
  unfinished audit says of a model, some audit of that model found (`AuditsKnown`), and the
  guarded assessment keeps the model it was admitted for unless the owner switched it.

Only model-checked: liveness and fairness (outside the prover's reach).

## 5. Not modelled

Scoring, features, model fitting, replay and research tools: floating-point, their
results enter as nondeterministic choices. Request building and binary decoding, API
routes, configuration, redaction, timing and the frontend: no concurrent state of
their own. Enrichment's priorities and the cached dashboard snapshot: no decision
reads them. The event journal, migrations, display queries, chunk-size adaptation,
the single-model path of learning (7408-7508), the Coach's candidate construction and
history pruning: left out of the modules that border on them, as the components in
`PROJECT.json` say.

## 6. Plan

Done: every component with concurrent or durable state has a module; one refinement;
every safety property of every passing run is a theorem.
