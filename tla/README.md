# perp-arb in TLA+

A verification project for `perp-arb`, a bot that trades one perpetual future on two venues at once:
TLA+ modules that model its strategy and risk gates, the order paths and book feeds of its drivers,
what it records, its backtest and the life of its process; TLC configurations that check them on small
instances; and TLAPS proofs for every value of the constants.

Paths below are relative to `src/perp_arb/` of the repository. `PROJECT.json` lists, for every
definition, the lines it models (`map`), and for every hazard of the code the properties that watch
it (`hazards`).

Contents: [results](#results) · [the system](#the-system) · [TakerTaker](#takertaker-and-riskmanager) ·
[LighterOrders](#lighterorders) · [OrderWait](#orderwait) · [MarketFeed](#marketfeed) ·
[PersistenceGate](#persistencegate) · [SqliteRecorder](#sqliterecorder) · [Capture](#capture) ·
[Runbot](#runbot) · [Backtest](#backtest) · [runs](#runs) · [mutants](#mutants) · [proofs](#proofs) ·
[disagreements](#where-code-and-comments-disagree) · [not modelled](#not-modelled) · [plan](#plan)

## Results

* Between trades the two venues hold mirrored positions, neither passes `max_qty`, the strategy's
  provisional overlay is exact, and two asynchronous legs with failures, lost answers, snapshots and
  repairs implement a pair that trades atomically. All of this is proved, each part **in the roughest
  environment that allows it**: the overlay and the cap on leg a need orders that execute whole and in time
  and pushes that arrive before the next entry; the refinement also that reduce-only orders that cannot reduce are
  refused; the hedge and the cap also that the process is not killed.
* Without any of those assumptions it is still proved that a halted bot has no call out, that the failure and
  loss ratchets end in a halt, that a pending reconcile has its target and comes before any entry,
  and that the position cache is exact when no push is on its way, **unless the last push was lost in a reconnect that
  no snapshot followed** (on Aster; Lighter sends one), whatever the order of REST seeds, pushes, reconnects and late fills.
* On the Lighter order path it is proved that no nonce the client holds is ahead of the venue's,
  that orders are accepted in the order of their calls, that what a call reports stays true,
  through background re-signing, lost answers, refusals and reconnects, and that an outdated
  slot costs one call while every answer arrives.
* Of the wait for an order's fills it is proved that no call reports more than its order executed,
  that a wait that saw its order complete reports all of it unless a push was lost, that terminal
  statuses are final and that no wakeup is lost, for deltas and for running totals.
* Of the book feeds it is proved that a book in sync lacks only what Lighter's stream left out or what was lost while a
  Katana snapshot was on its way, that the published top is the local book's, and that the spread monitor
  records no stale leg. That Katana's losses leave a jump which the driver could see, and promises to resync, is
  one of the disagreements below.
* It is proved that the persistence gate passes an edge only once it has lasted, with every task that looked and every
  tick of a trade as a witness; a break that is over before the task it scheduled runs is seen by nobody. It is proved
  that the recorder implements a log with a replica and no trade
  loses its legs, that a clean close of the capture writer leaves every accepted row on disk, once and in
  order, that a clean exit has closed its sink, that the backtest's books balance and its positions move
  as a mirrored pair, and that its cap holds when the left leg is never the faster one and nothing is rejected.
* Each of these also holds of the compositions that are model-checked, which is proved once for all.
* Checked by TLC only: liveness (calls, evaluations, reconciles, streams, resyncs, replication and
  closing all end).
* Seven comments of the code do not survive the model: see
  [below](#where-code-and-comments-disagree). Three of them show what one faithful assumption is
  needed for, one is a retry that a halt cuts off, one is about the ids of presigned orders, one about a
  jump in Katana's buffered diffs, one is the cap in the backtest.

## The system

One process, one asyncio event loop, one strategy, two venues ("leg a", "leg b"). Control changes
hands only at an `await`, so every stretch of code between two awaits is atomic; concurrency is the
order in which those stretches run and what the venues do meanwhile. Only the capture writer uses threads.

```
 book pushes            position and order pushes
     |                        |
 [venue driver a] [venue driver b]          [driver]: Aster, Lighter (orders), Katana (book only)
     |  cached book, live_position()  ^
     v                                | place_market_order / submit_and_await / get_position
 TakerTakerStrategy --- TwoLegExecutor        SpreadMonitor --- RotatingParquetWriter (threads)
     |        |    |                                                   |
 signal+gate  |  SqliteRecorder -> local file -> remote store          +--> hourly files --> backtest
          RiskManager
     (all of it started, stopped and closed by runbot)
```

### Components

| component | state | operations | what is hard | what makes it correct | model |
|---|---|---|---|---|---|
| strategy, live (`strategy/taker_taker.py`) | `_evaluating`, overlay `_pending_a/_b`, `_reconcile_pending`, `_reconcile_target` | a book update schedules one evaluation; the evaluation retries a reconcile, or fires; `_fire`; `_reconcile_after_failure`; a position push clears the overlay of its leg | pushes land at any await; the inventory is cached truth plus an overlay; either leg can fail, or its answer be lost; repairs use a later snapshot | hedged and capped; no lot counted twice or not at all; failures repaired or the bot halted | `TakerTaker` |
| risk manager (`risk/manager.py`) | failure count, cooldown, halt, profit of the day | `can_trade`, `record_success`, `record_failure`, `record_pnl`, day rollover | two ratchets and a rollover that resets only one of them | neither ratchet reaches its limit without a halt | `RiskManager` |
| two-leg executor (`core/executor.py`) | none of its own | gathers both calls, turns exceptions into failed legs | a leg that raises must not hide the other | success only if both legs succeed | in `TakerTaker` |
| `submit_and_await`, fill tracker (`core/exchange.py`, `core/fill_tracker.py`) | accumulated fills per client id, an event | register, event, await terminal, release | fills before the answer, deadlines, lost wakeups, duplicates, broken streams | reports are true, statuses final, the wait ends | `OrderWait`; its outcome in `TakerTaker` |
| Aster driver (`exchanges/aster/`) | position cache, listen key, nonce, last book | orders with timeout recovery, snapshots, user stream, depth stream | an order whose POST timed out may execute later; a listen key that expires | what it reports of an order is true; the stream comes back | `OrderWait`, `MarketFeed`; positions in `TakerTaker` |
| Lighter driver (`exchanges/lighter/`) | `_next_nonce`, its lock, the slots and lock of the presign pool, the sockets and their futures, the book | place, re-sign, reconnect, order snapshots, book updates | re-signing in the background, answers that never come, sockets that die under a send | nonces in order, verdicts true, calls end | `LighterOrders`, `OrderWait`, `MarketFeed` |
| Katana book feed (`exchanges/katana/ws.py`) | book, sequence, buffered diffs, bootstrap task | connect, bootstrap, diff, reset, publish | diffs buffered while a snapshot is fetched; a bootstrap that outlives its connection | a jump is resynced; an old bootstrap touches nothing | `MarketFeed` |
| signal (`strategy/reversion_signal.py`, `persistence_gate.py`, `taker_fill_model.py`) | moving average, the gate's run | assess, skew, admit | evaluations that do not take place; staleness of one of two quotes | no entry past the cap, none unconfirmed | `PersistenceGate`; cap and leg sides in `TakerTaker` |
| recorder (`core/recording/`) | local rows, push cursors, sync task | emit, push, close | a crash between the remote write and the cursor, a failing store, a trade cut by the closing | a row neither lost nor skipped, a trade whole | `SqliteRecorder` |
| capture writer (`core/capture.py`) | queue, batch, open file | submit, flush, rotate, close | a full queue, slow disks, a cancelled writer, a clock that steps back | a clean close leaves every accepted row once, in order | `Capture` |
| spread monitor (`strategy/spread_monitor.py`) | statistics | a row per book update | one dead leg | no row from a stale leg | in `MarketFeed` |
| backtest (`backtest/`) | pending orders, quantities in flight, positions | row, tick, schedule, fill, drain | legs that arrive apart, rejections, the end of the data | the books balance; the cap | `Backtest` |
| lifecycle (`runbot.py`, `core/session.py`) | tasks, stop event, exit code | start, signal, stop, disconnect | signals during start, cancellation against the regular end | a clean exit has closed its sink; the process ends | `Runbot` |
| paper mode, csv recorder, configuration, logging, factory, reports, scripts | | | no interleaving, no orders, or pure I/O | | not modelled |

### Modules

`RiskManager` is extended by `TakerTaker`, which is checked through `MCTakerTaker` against
`AtomicPair`, which the positions of `Backtest` implement as well; `SqliteRecorder` implements
`ReplicatedLog`. `LighterOrders` and `Backtest` are also checked on their own. `MCLive` puts
`OrderWait`, `MarketFeed`, `PersistenceGate` and `Runbot` into one instance, `MCData`
`SqliteRecorder`, `Capture` and `Backtest`: the parts share no state, so a behaviour is one of one
part. Proofs about a module `M` are in `M_proofs`; those about `PersistenceGate` and `Runbot` are in
`MCLive_proofs`, those about `Capture` in `MCData_proofs`, with the theorems about the compositions.

## TakerTaker and RiskManager

`TakerTaker.tla` is the live strategy with everything it waits for. `RiskManager.tla` is extended by
it: the methods of the risk manager are actions over its fields, and the strategy conjoins them where
the code calls them, so that a record never is a step of its own.

**State.** Outside the process: each venue's `venue` position, the `stream` of position pushes on
their way, and `late`, orders that outlived their call. In the drivers: `cached` and `live`, whether there is a cached
position and which, and for each leg's `submit_and_await` call its state `leg` and signed `amount`. In the
strategy: `phase` says between which two awaits `run()` or the evaluation stands (`starting` until the seeds are
there, `idle` is `_evaluating` down), `pending` is the
overlay, `target` and `snap` are locals of `_fire` and `_reconcile_after_failure`, `reconcile_pending`
and `reconcile_target` the fields of that name. History: `missed`, that the last position a venue pushed
died in a reconnect after which no snapshot came.

**Actions**, each a stretch of code between two awaits:

| action | code |
|---|---|
| `SeedsArrive` | `run()` has both positions from REST: each fills the cache of its driver unless a push came first (`Seeded`, the `setdefault` of `get_position`), and the books are subscribed to |
| `ScheduleEval` | a book update, `_schedule_eval` |
| `EvaluateSkip`, `EvaluateRetry`, `Fire` | `_evaluate` to its first await: nothing to do; a pending reconcile is retried; both orders are sent |
| `ExecSucceeds`, `ExecFails` | `_fire` after `execute()`: the overlay takes what the stream has not shown, success and profit are recorded; or the reconcile begins |
| `SnapReturns`, `SnapRaises` | the two REST snapshots, of a repair or of the start |
| `RebalanceA`, `RebalanceB`, `ReconcileEnds` | `_rebalance_one_leg` per leg, and the verdict; the failure of `_fire` is recorded with it |
| `VenueFills`, `VenueRejects`, `CallReturns`, `CallGivesUp` | one leg's call: executed, refused, answered (or its answer lost), or over with the order still open |
| `LateOrderEnds`, `VenuePushes`, `PositionEvent` | an order that outlived its call executes or is dropped; an unasked push; a push reaches cache and overlay |
| `StreamReconnects` | the account stream breaks, what is on its way is lost, and the new subscription brings a snapshot (`Subscribed`) or none |
| `CooldownExpires`, `DayTurns` (`Clock`) | the two comparisons of the clock the code makes |
| `Restart` | the process is killed and started: the drivers subscribe, `run()` asks for the positions, everything else is new |

**Data.** Quantities are whole lots, buy positive. The signal is any direction the cap admits: the
thresholds and the persistence gate only suppress entries, so every behaviour with them is a
behaviour without. What the gate sees of the evaluations is the subject of
[PersistenceGate](#persistencegate), what a call reports of its order that of
[OrderWait](#orderwait). `VenueBound`, `MaxStream`, `MaxLate`, `MaxOverlay` and `PnlBound` bound the
model, not the code.

**Environment switches.** `PartialFills`, `ClipReduceOnly`, `LateFills`, `SlowFills`, `PushLag`,
`UnaskedPushes`, `PushLoss` and `Crashes` say what venues and network may do, and `Snapshots` which legs' venues
push the position on subscription; the runs give leg a to Lighter, which does, and leg b to Aster, which does not. They exist because
what the strategy guarantees depends on them, and each disagreement below needs exactly one of them (or none).
Three environments have a name:

| environment | off | what it means |
|---|---|---|
| `Punctual` | `PartialFills`, `LateFills`, `SlowFills`, `PushLag`, `PushLoss` | an order executes whole or not at all, before its call ends; pushes arrive, and before the next entry |
| `Refusing` | also `ClipReduceOnly` | the venue refuses a reduce-only order that would do more than close |
| `Faithful` | also `Crashes` | and the process is not killed |

`UnaskedPushes` may be on in all of them. No more can be left out: with any one of the other seven switches on,
TLC finds `Hedged` and `CapHeld` violated; with any of `Punctual`'s five also `ViewExact` and
`ImplementsAtomicPair` (with `PushLoss`, if leg a's venue sends no snapshots); and with `ClipReduceOnly` on, in trades of two lots from a start at one, `ImplementsAtomicPair`.

**Abstract specification.** `AtomicPair.tla` is one number, the inventory on leg a with leg b as its
mirror image, that moves by one trade at a time and never past the cap. The refinement mapping
`Inventory` takes the inventory a trade started from until the trade is settled, and the venue's own
after that. A failed trade is therefore a stutter, a lost answer followed by a repair is one too, and the only
steps that move the pair are `ExecSucceeds` and a restart that overtakes a trade.

**Properties.**
*Every environment*: `HaltStopsOrders`, `RatchetsHalt`, `CacheConverges` (the cache is the venue's position once nothing
is on its way; its exception is `missed`, and with the seed by REST the order of answer and push decides),
`ReconcileFirst` (an action property), `EvaluationEnds` and `ReconciledOrHalted` (liveness, checked
in the faithful instance only: the hostile one is too large for it).
*Punctual*: `ViewExact`. *Refusing*: `ImplementsAtomicPair`. *Faithful*: `Hedged`, `CapHeld` (mid-trade
included). The faithful instance checks all four.

**Fairness** (`FairSpec`), and what in the code justifies it:

| weakly fair | because |
|---|---|
| `ScheduleEval` | books keep ticking; the bot has no other trigger and nothing happens without |
| `Strategy` | the event loop runs a task that is ready, and the awaited REST calls have timeouts, so a snapshot returns or raises |
| `Calls(l)`, per leg | the order call and the fill wait have timeouts |
| `PositionEvent(l)`, per leg | a push that left arrives while the process lives |
| `CooldownExpires` | time passes |

Nothing is assumed of day changes, late orders, unasked pushes, reconnects or restarts, and no direction or
outcome is ever fair: a bot whose every order fails is a fair behaviour.

## LighterOrders

How an order leaves by Lighter: `place_market_order`, the nonce it signs with, the pool that signs
one order per side ahead of time, and the user websocket. The venue accepts an order only under the
nonce it expects next; the client keeps a copy of that number and forgets it (`None`) when in doubt.

**State.** The venue's `server_nonce`, the calls whose orders it `accepted`, orders on the `wire`,
`replies` on their way back, and the socket `ws` (open, closed but not noticed, none). The client's
`next_nonce` and `nonce_lock`. The pool's `slots`, `pool_lock` and id counters. The one `call` under
way (the strategy has one at a time), and the `results` of the earlier ones.

An `asyncio.Lock` is first come, first served, so it is the queue of the tasks that asked for it, its holder first.
What a task does while it need not wait is one step: a refresh that finds the nonce known and
the lock free signs at once (`RefreshAtOnce`), otherwise it queues (`RefreshWaits`) and signs later
(`RefreshSigns`).

**Actions.** `MintEntry` (`execute` takes an id from the generator), `PlaceEntry` (the order's task
starts later and looks for its slot), `PlaceReduceOnly` (a rebalance: both in one go, never a slot);
`FetchNonce`, `NothingSent`, `NoConnection`, `Send`, `SendRaises`, `TimesOut`, `Reply` are what
happens under the nonce lock; `TriggerRefresh` is a drifting price or an old slot; `VenueAccepts`,
`VenueRefuses`, `ConnectionDies`, `RunNotices`, `RunConnects` are the outside. An order on a dead
connection may still be decided, late, and its answer is lost.

**Properties.** `NonceNeverAhead`, `AcceptedInOrder`, `VerdictHolds` relate the client's nonces and
reports to what the venue decided, then and later. `ColdIsFresh` and `StaleCostsOne` say that
as long as no answer was lost forgetting the nonce after every refusal is enough, and an outdated slot costs one
call. `CallEnds`: every call ends, although it waits for a lock that a refresh may hold.

**Fairness.** `Call` and `Refresh`: the event loop runs what is ready, and the REST call, the wait
for a connection and the wait for an answer have timeouts. Nothing is asked of the venue: a call ends
although it never answers.

## OrderWait

One driver's `submit_and_await`: it registers a slot for the client id, places the order, and
waits for the user stream to bring the fills. `feed` chooses the driver: Aster pushes one `FillDelta` per
execution, Lighter pushes `OrderSnapshot`s with running totals. Calls follow each other, each with a new id,
as the executor makes them.

**State.** The venue's orders (`state`, `done`) and its `answer` to the request under way; `pushes` on their
way, the `link` they travel on and the `listen_key` it needs; the tracker's `slots`, `woken` and `fills`; where the
`call` stands, the `outcome` it has and the `report` it returned. History variables name the three ways information
is lost: `lost` (a push died with its connection, or was pushed to nobody), `untold` (no true answer about
the order), `deaf` (the notice that the key expired never arrived).

| action | code |
|---|---|
| `SubmitAndAwait` | `register_fill_slot`, and the request leaves |
| `PlaceReturns` | `place_market_order` returns from the POST or the lookup; a failure ends the call |
| `PostTimesOut`, `PlaceFails` | Aster's 400 "timed out" and the lookup it causes, which finds a rejected order as well as any other; no answer, or a lookup that fails or comes too early |
| `Wake`, `WaitTimesOut` | `await_terminal` after its Event was set, and its deadline |
| `DeliverEvent` | the driver's handler and `on_event`: `Add` is `LegOutcome.add`, `Complete` is `is_complete` |
| `Rotate` | the loop of `AsterUserWs` after `listenKeyExpired`, with the request for a new key failing or not |
| `StreamBreaks`, `StreamReconnects`, `KeyExpires` | the connection; Lighter's resubscription brings the totals of open orders again |
| `VenueReceives`, `VenueFills`, `VenueCancels`, `VenueAnswers` | the venue, before or after the call gave up |

**Properties.** `ReportsWhatFilled`, `StatusIsFinal` and `FailedMeansNothingDone` relate a report to
what the order did at the venue, then and later; `NoLostWakeup` is about the gap between a look and the next
sleep. `CallEnds` and `StreamHeals` are liveness properties.

**Fairness.** A request ends by its own timeout (`PlaceFails`), the wait by its deadline, the read loop
takes what arrives and reconnects. Nothing is asked of the venue, which may never answer or fill.

## MarketFeed

The three public book streams and what is made of them. `venue` chooses one: Katana bootstraps from
a REST snapshot and checks that sequence numbers follow each other, Lighter gets its snapshot in the stream and looks at
no number, every Aster frame is a book of its own.

**State.** A book is the set of the venue's updates that are in it, so "right" means `1 .. last_u`.
`moves` names the updates that change the top and `hollow` those after which one side is empty. The connection:
`online`, `wire`. The driver: `book`, `synced`, `buffer`, `last_u`, `bootstrap`, the snapshot on its way
(`snap`), the published `last_book` and the age of its last update. History: `sync_age`, and `skipped`, the updates
lost where the driver does not look: in Lighter's stream, and on Katana between the taking of a snapshot and its arrival.

| action | code |
|---|---|
| `Connect`, `Disconnect` | `_run` of each stream, with `_reset_book` cancelling Katana's bootstrap |
| `KatanaAck`, `KatanaDiff` | `_handle`: the bootstrap starts; `OnDiff` buffers, drops, applies or finds a jump |
| `SnapshotTaken`, `SnapshotFails`, `SnapshotRetry`, `BootstrapEnds` | `_bootstrap`, from the venue's side and after it returns, with the buffered diffs |
| `LighterSnapshot`, `LighterDiff`, `AsterFrame` | `_handle` of the other two |
| `Tick`, `Evaluate` | a unit of the freshness window, and `SpreadMonitor._evaluate` with its test on `book_ts()` |

`EmitBook` is part of each action that applies something: it publishes only two-sided books, and
only when the top changed.

**Properties.** `MissingWasSkipped`: bootstrap, buffer, gap detection and the cancelling of an old bootstrap
lose nothing beyond `skipped`; an update left out before the snapshot was taken, or once in sync, is made up for.
`JumpsAreResynced` is what the driver's docstring promises, and fails: what is lost while the snapshot is on its way
leaves a jump in the buffer that `_bootstrap` does not look at. `TopIsCurrent`: leaving publications out never leaves an
outdated top. `RowsOnlyWhenFresh`: no row for a leg whose book was not in sync within the window.
`Resyncs`: a Katana feed that lost its sequence gets it back.

**Fairness.** Weak for the read loop and for the pause before another try. Strong for a snapshot request to reach the
venue and for its answer, since each may fail: they do not fail for ever.

## PersistenceGate

The gate passes a fire once its edge has lasted `t_confirm_ms` and `n_confirm` updates. The live strategy
feeds it from `_assess` only, and does not assess every update: an update creates the task that evaluates, and those that come
before the task runs are dropped (`_schedule_eval`); while a trade, a repair or a pending reconcile is under way `_assess`
does not run, and the gate sees nothing of the market.

**State.** The market's `edge`, and `fresh`, the books that changed since `_assess` compared their timestamps; `phase` of the
strategy (idle, an evaluation scheduled, trading); `admitted` of the last evaluation; the gate's `gate_run`, with an age
instead of a start. History: the edge `held`, for how long it has `lasted`, over how many updates it `moved`, and its
`fires`. Ages and counts stop at what the gate asks for.

`ScheduleEval` is an update that creates the task or is dropped because the task waits to run, any number of them in a row;
`Assess` is the task, with the books as they are then; `Unseen` an update during a trade; `Settles` the end of the trade. A
book may have changed within the millisecond of its last timestamp, and then does not count as ticked. A fire that passed the
gate may still be blocked by the caps or the risk manager, and then leads to no trade. The drift test on the mids is a free choice.

**Property.** `FiresAreConfirmed`: what passes is an edge that was there at every task and at every tick of a trade for
`t_confirm_ms`, and it passes once. Of the `n_confirm` updates one may be older than the edge: the timestamps of both legs are compared
with those of the last assessment, so an update of the other leg, made before the edge and not looked at, is counted
with the one that brought it. The history takes a break as seen when a task finds it: an edge that breaks and is
back before the task runs has held, for the code and for the property ([disagreements](#where-code-and-comments-disagree)).
The ticks of a trade hide nothing, because a run that fired stays fired until an assessment ends it.
A safety property only; nothing is fair.

## SqliteRecorder

Decisions are committed to a local file; a task copies new rows, table by table and in batches, to a remote
store, and moves a cursor in the same file afterwards. The file outlives the process.

**State.** The file (`local`, `run_id`, `cursor`), the `remote` store, the task (`sync` is the table whose
batch is under way, `stored` whether the store has executed it), the decisions and the trade under way
(`firing`), and the process (`db`, `run`). History: `fired`, and `cut`, the trades that a crash or the closing overtook.

| action | code |
|---|---|
| `Reject`, `FireStarts`, `FireEnds`, `FireEndsClosed` | `_evaluate`'s `finally` clause: `emit`, and `emit_legs` with a commit of its own; both raise on a closed connection |
| `SyncWakes`, `BootstrapAnswers`, `PushAnswers`, `RequestFails` | `_sync_loop`, `_push_all` and `_push_table`, request by request |
| `RemoteStores` | the store executes the request; its answer may never arrive |
| `CloseStarts`, `CloseFinishes` | `aclose`: the task is cancelled, drains once, the connection closes |
| `RecorderOpens`, `Exit`, `Crash`, `CrashMidEmit` | processes on one file, also killed between the two commits |

**Abstract specification.** `ReplicatedLog.tla` is what a recorder with a remote copy promises: tables that rows
are only added to (`Record`), a replica of each that rows of it are copied to (`Replicate`), and a
count of rows known to be there (`Acknowledge`). The file is the log, the remote store the replica, the cursor the
count; a crash between the store's write and the cursor's is a stutter, and so is the push that repeats it.

**Properties.** `ImplementsReplicatedLog` and `FiredIsRecorded` for safety, `Replicated` for liveness.
`CursorBehindRemote` is the part of the refinement that every acknowledgement rests on; it is proved, not checked
by a run of its own.

**Fairness.** The loop wakes, the store answers the requests that do not fail, and at most `MaxFails` fail:
nothing could be promised of a store that is down for good.

## Capture

The writer behind the spread monitor: a bounded queue, a task that gathers batches, worker threads that write
them to one Parquet file per hour, and `close()` with two timeouts.

**State.** `q`, the task's `pending` batch and where it waits (`task`), what each thread still has to write (`jobs`; "rescue"
is the thread the cancelled task starts), the open `writer` and the `files`, `closing`, and the environment:
`disk` (fast, slow enough for any timeout, failing) and the `hour`, which may be set back.

`Submit` is `submit`, also while closing; `TakeRow`, `FlushTimer`, `TakeClose`, `ThreadReturns` are the stretches of
`_run`; `ThreadWrites` writes one run of equal hours, so threads interleave inside a batch; `ThreadFinalizes`
and `ThreadRaises` end a thread's job; `CloseBegins`, `PutClose`, `GiveUp`, `RescueEnds`, `CloseEnded` are `close`.

**Properties.** `CleanCloseIsComplete`: a close that neither gave up nor failed leaves, in finished files, each
accepted row once and in order, unless the clock was set back over the hour. `CloseIsBounded`: `close()` returns or raises even with a hanging disk and a full queue.

**Fairness.** The event loop and its timers; threads only if the disk is not slow.

## Runbot

`_async_main` around the strategy's task: preflight, two concurrent connects, start steps, waiting, stopping,
disconnecting, exit code. `strategy` chooses between the live strategy, which seeds its positions from
REST before it waits, and the spread monitor.

Before the handlers are installed a `Signal` kills the process, or, if it is the first SIGINT, cancels `_async_main`, which
then disconnects (`Interrupted`, what `asyncio.run` makes of it); afterwards it sets `stop_evt`. `Stop` calls
`stop()` and `cancel()` in one stretch, so the task's `Cancelled` may pre-empt the regular end of `run()`. `SinkCloses`
is the `finally` clause; `StratRaises` is a task that dies while it opens its recorder or writer, or while seeding, which the done callback turns into a stop.

**Properties.** `CleanExitClosesSink`, and `ExitsWhenAsked` for liveness. **Fairness:** the event loop,
disconnects (they cancel their own tasks, close sessions and swallow errors), and the closing of the sink, which `CloseIsBounded`
justifies for the writer. For the recorder it is an assumption: the final drain of `aclose` has no bound of its own
beyond the timeouts of its requests.

## Backtest

`Engine.run` over captured rows with `TakerTakerBT`: orders arrive `delay` after their decision, each leg for itself,
and fill or are rejected against a later row; what is still on its way when the data ends is resolved against the last one.

**State.** Per decision (named by its row) the `direction`, the time it was `sent`, its `leg` results and
`remaining_legs`; per venue the `queue`, `in_flight_qty` and settled `sizes`; what was `emitted`; the strategy's own
count `inflight_legs`; and the latencies and the strategy's cap `k`, chosen at the start. `NextRow` moves to the next row, `Arrives`
resolves what is due before and after the strategy's tick, `Fires` and `Declines` are the tick, `RowsEnd`, `EndOfData` and `Summary` the end.

**Properties.** `BooksBalance` relates all of these at every step. `CapWithoutRejects` is what is left of the
cap under latency; `CapHolds` is the documented claim, which fails.

## Runs

| run | instance | states | shows |
|---|---|---|---|
| `tt_faithful` | cap 2, three failures to a halt, loss cap 2, start flat, long at the cap or short below it; unasked pushes on | 433,150 | type invariant, `Hedged`, `CapHeld`, `ViewExact`, `RatchetsHalt`, refinement of `AtomicPair`, both liveness properties |
| `tt_hostile` | every switch on but partial fills, clipping and unasked pushes, cap 1, two failures to a halt, one late order, two pushes on their way per leg | 4.8 million | `HaltStopsOrders`, `CacheConverges`, `ReconcileFirst` |
| `lighter_orders` | three calls, four presigned orders before triggers stop, a queue of one before triggers stop | 1.4 million | all properties of `LighterOrders` |
| `live` | `MCLive`, bounds below | 360,049 | all properties of `OrderWait`, `MarketFeed`, `PersistenceGate`, `Runbot`, four of them liveness |
| `data` | `MCData`, bounds below | 475,919 | all properties of `SqliteRecorder`, `Capture`, `Backtest` but `CapHolds`, two of them liveness |
| `tt_cap_lag`, `tt_hedge_clip`, `tt_halt_retry`, `tt_late_drift`, `lighter_ids`, `katana_jump`, `backtest_cap` | the smallest that shows the disagreement | | one disagreement each |

`MCLive` and `MCData` choose a `part` at the start and take only its steps; the others rest in an
initial state in which none of their fair actions is enabled, so fairness of all parts can be assumed together and each
part is checked exactly as on its own.

**Why the bounds are enough.** *Lots.* The code compares sums of `qty` with `max_qty` and a residual
with the dust threshold; with `Qty = Dust = 1` and a cap of two trades there are inventories at the
cap, one short of it, flat, and of either sign, and the proofs cover every other quantity. *Failures.* Two or three
to a halt: the first failure, a retry that fails again, one that succeeds, and the one that
halts. *Streams.* Two pushes per leg: an old one and a new one, which is what the overlay confuses.
In the hostile run the overlay left over is bounded by 0 when an entry is decided, so entries overlap with pushes that are on
their way but not with a second unpushed trade; `tt_cap_lag` allows 1. `HasCooldown = FALSE` there
only removes waiting: every behaviour with a cooldown has the same orders, later. *Calls of
Lighter.* Three: one that leaves a wrong nonce behind, one that suffers from it, one that must not suffer
again. An instance with two triggered refreshes queued, and one with the queue unbounded, 4 to 5 million
states each, hold as well; they take longer than a regular run should.

*OrderWait.* Two orders of two lots: an order that fills in parts, and a later one that events of the first
may reach; two pushes on their way, so that one is delivered while another is lost; one broken stream.
*MarketFeed.* Three updates: one in the snapshot, one buffered, one that jumps; two messages on the wire,
two buffered diffs, so that the deque overflows; two connections, so that a bootstrap outlives the first.
`FreshTicks = 0` leaves a fresh and a stale age; the theorem covers every window.
*PersistenceGate.* Ages to 2 and three updates: a tick renews at most two books, so confirmation takes
at least two ticks, and age and updates are reached in either order.
*SqliteRecorder.* Two decisions, at most five rows in batches of two: a full and a partial batch of one table; two runs on
one file, two failing requests. *Capture.* Four rows, two hours, queue and batch of two: a batch that spans an
hour, a queue that overflows, a last batch. *Backtest.* Three rows with gaps of 0 or 1, latencies to 2, a cap of
one trade: both legs together, either one first, and orders still on their way at the end.

**Deadlock** is checked in the runs of `TakerTaker` and `LighterOrders`: books can always tick, and where
calls run out the connection still comes and goes. `live`, `data`, `katana_jump` and `backtest_cap` do not check it:
processes exit, the backtest's pass ends, and the bounded counters of the other parts run out.

## Mutants

A definition whose name starts with `Mut` is a plausible mistake in the definition after it. Put in
its place, TLC must find the property broken:

| property | in place of | mistake |
|---|---|---|
| `TypeOK` | `SnapRaises` | the pending flag is set, the target forgotten |
| `Hedged` | `ReconcileEnds` | leg a's result stands for both |
| `ReconciledOrHalted` | `ReconcileEnds` | a retry that fails again is not counted |
| `CapHeld` | `ExceedsPositionCap` | tests the position held, not the one the trade leaves |
| `ViewExact` | `OverlayAfter` | the overlay also takes what a push has shown |
| `RatchetsHalt` | `RecordFailure` | halts one failure too late |
| `ImplementsAtomicPair` | `EvaluateRetry` | the retry flattens instead of restoring the target |
| `EvaluationEnds` | `EvaluateSkip` | an early return skips the reset of `_evaluating` |
| `HaltStopsOrders` | `EvaluateRetry` | retries before asking `can_trade` |
| `CacheConverges` | `Seeded` | the REST answer replaces what a push has put into the cache |
| `ReconcileFirst` | `Fire` | fires without looking whether a reconcile is pending |
| `TypeOK` (Lighter) | `NoConnection` | writes -1 for "unknown" |
| `NonceNeverAhead`, `AcceptedInOrder` | `Reply` | advances past a rejected order |
| `VerdictHolds` | `Reply` | any answer is taken for this call's |
| `ColdIsFresh`, `StaleCostsOne` | `Reply` | keeps the nonce when an order is rejected |
| `CallEnds` (Lighter) | `TimesOut` | waits for an answer without a timeout |
| `ReportsWhatFilled` | `Add` | adds up running totals |
| `StatusIsFinal` | `Finish` | an order with any fill is a filled one |
| `FailedMeansNothingDone` | `PostTimesOut` | a timed-out POST is a failed order |
| `NoLostWakeup` | `OnEvent` | sets the Event only for a call that sleeps already |
| `CallEnds` (OrderWait) | `WaitTimesOut` | the deadline counts only once something landed |
| `StreamHeals` | `Rotate` | reconnects without asking for a new key |
| `MissingWasSkipped` | `ResetBook` | the bootstrap of the old socket goes on |
| `TopIsCurrent` | `BootstrapEnds` | the book is shown with the next update only |
| `RowsOnlyWhenFresh` | `OnDiff` | every message is a sign of life |
| `Resyncs` | `OnDiff` | a jump waits for the next message to ask for a snapshot |
| `LiveTypeOK` | `Keep` | a buffer without a limit |
| `FiresAreConfirmed` | `Continue` | goes on with the run when the direction flips |
| `CleanExitClosesSink` | `Cancelled` | the sink is left to the end of the process |
| `ExitsWhenAsked` | `StratRaises` | nobody is told of the task's failure |
| `ImplementsReplicatedLog` | `PushAnswers` | the cursor moves to the newest id |
| `FiredIsRecorded` | `FireEnds` | no legs while closing |
| `Replicated` | `RequestFails` | an error ends the loop |
| `CleanCloseIsComplete` | `TakeClose` | closes the file without the last batch |
| `CloseIsBounded` | `RescueEnds` | waits for the other thread, however long |
| `BooksBalance` | `MaybeEmit` | moves each leg's position as it fills |
| `CapWithoutRejects` | `Position` | leaves out what is on its way |
| `DataTypeOK` | `OnFill` | counts down for trades it does not follow |

## Proofs

The `_proofs` modules hold for every value of the constants that the named assumptions allow: in
`RiskAssumption`, positive limits, any set of integer profits; in
`TakerTakerAssumption`, `0 < Dust <= Qty <= MaxQty` and a start within the cap (the code needs `Dust <= Qty` because
a trade smaller than the dust threshold would never be repaired), any values of the switches, any legs with snapshots, any
bounds; in `NoneAssumption`, that `None` is no reconcile target; in `LighterAssumption`, that it is no
number; in the assumptions of the other modules, that numbers are natural, sizes positive, and
`None` and `Nothing` no values of the data. The bounds of the model are constants too, so the theorems hold for any of them.

| theorem | environment | inductive argument |
|---|---|---|
| `TypeCorrect` | every | `TypeInv`: types, snapshots are in before a rebalance (`SnapTaken`), a pending reconcile has its target. Types alone are not inductive, since `target - snap` is a number only after both snapshots |
| `TargetIsSaved` | every | part of `TypeInv` |
| `HaltIsSafe` | every | `HaltInv`: a halt is raised only by a step that also ends the evaluation, so no call is out |
| `RatchetsAreSafe` | every | inductive as it stands, one case per recording step, day change and restart |
| `CacheIsConvergent` | every | `CacheInv`: the newest push on its way, or the cache, or the answer that will seed an empty one, is the venue's position, unless that push was lost; only a starting bot has an empty cache |
| `ReconcileComesFirst` | every | `RetryInv`: an evaluation under way while a reconcile is pending is its retry |
| `ViewIsExact` | punctual | `PunctualInv`, below, with `CacheInv` |
| `FirstLegIsCapped` | punctual | `FirstLegInv`, below: the cap on leg a alone, in the rougher environment |
| `PairImplemented` | refusing | `RefusingInv` and `FirstLegInv`: `ExecSucceeds` maps to a step of `AtomicPair`, a restart in mid-trade to one or none, every other step to a stutter |
| `HedgeKept`, `CapKept` | faithful | `FaithInv`, below |
| Lighter: `TypeCorrect` | every | `TypeInv`: types, each lock held by the task whose step releases it (`LockInv`), the fields a call has at each stage (`CallInv`) |
| Lighter: `NonceIsNeverAhead`, `OrdersKeepTheirOrder`, `VerdictsHold` | every | `OrderInv`, below |
| `ColdOrdersAreFresh`, `StaleIsSingle` | every answer known | `FreshInv` on top of `OrderInv`: the client's nonce is the expected one unless the order under way used it up (`NonceInv`); after a stale order nothing outdated is left (`LastInv`) |
| `WaitTypesHold` | every | `TypeInv`: types, and `SlotInv`: only the call under way has a slot, only a slot has fills |
| `NoWakeupLost` | every | `WakeInv`: a slot whose Event is not set does not complete its order |
| `StatusesAreFinal` | every | `StatusInv`: what answers, pushes, slots and outcomes say of an order that has ended is its state |
| `FailuresAreTrue` | every | part of `StatusInv`: a failure about which an answer came is that of a rejected order |
| `ReportsAreTrue` | every | `TotalInv`, below |
| `MissingIsKnown` | every | `FeedInv`: types, everything carries a number the venue has reached (`SeqInv`), messages are in order (`WireInv`), each update is in the book, the buffer, the snapshot, on the wire or skipped (`KatanaInv`, `LighterInv`) |
| `RowsAreFresh` | every | `RowInv`: the age of the last update is never below the time out of sync |
| `ShownTopIsCurrent` | every | inductive on top of `FeedInv`, with the arithmetic of tops |
| `FiresAreEarned` | every | `RunInv`: a run that has not fired is the held edge's, no older, and with the books not yet looked at it counts at most one update more; during a trade the run has fired; `HeldInv`: an edge has the update that brought it; `FireInv`: a fire of this edge is in this run |
| `LogImplemented` | every | `RecorderInv`: an answered push is a step `Acknowledge`, the store's execution `Replicate`, each commit `Record` |
| `CursorIsSafe`, `TradesAreWhole` | every | `BatchInv`: the batch is what follows the cursor, and is remote once stored; `FiringInv` |
| `CleanExitIsClean` | every | `TaskInv`, `RanInv`, `CodeInv`: code 0 means the task was cancelled, and a task that waited was not cancelled before its sink closed |
| `CaptureTypesHold` | every | `CaptureTypeInv`: types, and room for one more row in the batch while the task takes rows |
| `CleanClosesAreComplete` | every | `CaptureInv`, below |
| `BooksAreBalanced` | every | `BooksInv`, below |
| `EngineMovesPairs` | every | `BooksInv`: only a trade whose last leg arrives moves positions, both by one, or neither |
| `CapIsKept` | left not faster, no rejects | `CapInv`, below |
| `EngineKeepsPairs` | left not faster, no rejects | the same, as a refinement of `AtomicPair` with the strategy's cap; TLC finds a violation without the condition |
| `LiveHasItsParts`, `DataHasItsParts` | every | each step of a composition is a step of one part and a stutter of the others, and the fairness of each part is a conjunct of its specification |
| `LiveTypesHold`, `DataTypesHold`, `LiveIsSafe`, `DataIsSafe` | every | the theorems about the parts, carried over |

The invariants of the strategy are layered as its environments are, and say what "under way" means at each await.
`PunctualInv`: during the trade each leg has moved by its amount or not at all, according to the
state of its call (`TradeInv`), and a drained stream means a cleared overlay (`OverlayInv`). `FirstLegInv`: leg a,
the target of a repair and the saved target are within the cap, and a repair of leg a starts from where it stands, so
that even a cut-down order brings it nearer to zero or to its target. `RefusingInv`: during
the repair each leg is at its snapshot, on its way to the target, or there (`RepairInv`), and what is left to do is
one trade or nothing, never below the dust threshold (`NearInv`). `FaithInv`: the target of trade and repair is
mirrored (`MirrorInv`), and both legs are capped. `Hedged` alone is not inductive: that the end of a
trade leaves the pair mirrored rests on what both legs did since its start.

`OrderInv` adds to the three properties what may still happen to orders on the wire: they belong to
calls without a verdict, one each, none accepted yet, and one that carries the expected
nonce is younger than everything accepted (`WireInv`); nothing is accepted before it is sent (`AcceptedInv`); an
answer on its way tells the truth about a decided order, and an acceptance of the call under way
means the venue is past its nonce (`ReplyInv`). The last part is why advancing the nonce on an answer is safe.

`TotalInv` is a ledger. For deltas there is a function of the position in the stream (`LedgerOf`) that starts at
what the slot has counted, grows by each push of the order, and ends at the executed quantity, or below
it when a push was lost; a sum over the pushes would need a recursion. For totals, each one is at most the executed quantity, and a
terminal one is the last and equal to it (`SnapshotInv`, `LastInv`).

`CaptureInv` says, as long as the clock was not set back and the task was neither given up nor failed (`Orderly`), where the
accepted rows are: in the files, in the batch, in the queue (`RowsInv`), in this order and ascending in each
(`InOrder`), so that nothing is twice anywhere; the hours rise with the rows (`HoursRise`), so an hour's file
is finished when the next one opens (`FileInv`); and everything before the sentinel was accepted before the
closing (`SentinelInv`). `CleanCloseIsComplete` is not inductive, since it speaks of the end only.

`BooksInv` ties queues, counts and sums together: each decision is, per venue, in the queue or has a
result (`QueueInv`), which fixes both counters and the record (`CountInv`) and makes positions and quantities in flight
sums over sets of decisions (`SumInv`); the queues stay sorted because orders of one venue arrive in the order they were sent (`PassInv`).
`CapInv` is about the earliest decisions: the cap held for what the first n trades add up to, each n
(`CappedInv`); the legs of a venue arrive in the order they were sent (`OrderInv`), so with the left leg never the
faster one, what has settled is such a prefix, and what the cap check sees is all of them.

**Only model-checked:** `EvaluationEnds`, `ReconciledOrHalted`, both `CallEnds`, `StreamHeals`, `Resyncs`,
`ExitsWhenAsked`, `Replicated` and `CloseIsBounded`, since liveness under fairness is outside the prover's
reach; and that the seven claims of the next section fail, which is a matter of one counterexample each. Every safety and
action property that a passing run checks is also a theorem.

## Where code and comments disagree

1. **The cap, with lagging pushes** (`tt_cap_lag`; `taker_taker.py:635`). `max_qty` is called a hard
   cap. If the push of one trade lands during the next, the gap arithmetic of `_fire` takes it for the new
   trade's, the overlay ends one trade short, and a further entry passes the cap check.
2. **Restoring with reduce-only orders** (`tt_hedge_clip`; `taker_taker.py:393`). A trade that
   half-closed a position is repaired by re-opening it, with an order that may only reduce. A venue that
   accepts and cancels such an order leaves a reconcile "complete" that restored nothing.
3. **The retry after cooldown** (`tt_halt_retry`; `taker_taker.py:430`). Promised after every failed
   reconcile; the failure that trips the halt ends the retries. `ReconciledOrHalted` is what holds.
4. **Residual drift** (`tt_late_drift`; `aster/client.py:242`). A comment relies on a position
   reconciler in the strategy. There is none: an order that executes after the repair's snapshots
   leaves the pair unhedged for good.
5. **Unique client ids** (`lighter_ids`; `presign_pool.py:334`). The generator peeks at the staged
   id; a rebalance goes out under it without taking the slot, and the next call gets the same id.
6. **A jump in the buffer** (`katana_jump`; `katana/ws.py:256`). The docstring (:13-14) says a jump in `u` is counted and
   resynced, and `_on_diff` does so. `_bootstrap` applies the buffered diffs without looking whether they follow each
   other: one left out while the snapshot was on its way stays missing from a book that counts as in sync.
   `MissingWasSkipped` is what holds.
7. **The cap in the backtest** (`backtest_cap`; `backtest/engine.py:189`). `EngineView.position` is
   said to fold in everything in flight. A leg that has filled leaves `in_flight_qty`, but settles only
   with its partner: with the left venue the faster one, fire, let the left leg fill, fire again, and both settle past `max_qty`.

What the models showed besides, without a run of its own:

* A full deque may drop a diff newer than the snapshot on its way, although `katana/ws.py:17-18` says a fresh snapshot makes old
  diffs useless; it too leaves a jump that `_bootstrap` does not look at.
* An order signed outside the pool uses up the nonce the slots were signed with (`lighter/client.py:387`), and nothing
  re-signs them, although `presign_pool.py:4-5` says they carry the expected one "at any moment": the next entry is refused,
  which `StaleCostsOne` bounds to one call.
* `persistence_gate.py:6` says a fire's edge has *survived*, and :47 that a run is continuous. `_schedule_eval`
  (`taker_taker.py:411`) drops what comes before the scheduled task runs, several frames of one socket or both
  drivers in one turn of the loop, so an edge that was gone in between keeps its run and its age; and an update of the other
  leg from before the edge may count among the `n_confirm`.
* `aster/client.py:69-70` says the cached position is that of "whichever source ran last", REST or the stream. `get_position`
  only fills an empty cache (`setdefault`), so once it is seeded no REST answer reaches it, also not the
  snapshots of a repair; and `docs/position_cache.md`, which it refers to, does not exist. A push lost in a reconnect therefore stays
  unnoticed until the venue pushes again: with `PushLoss` on, TLC finds `Hedged` and `CapHeld` violated.
* `core/exchange.py:85` and :122-123 promise a callback on every depth update and the most recent
  book; the drivers publish only when the top changed. `TopIsCurrent` is what holds; below the top the book may be old.
* An empty side stops the publication: the quote stays as it was, while `book_ts()` goes on.
* `core/capture.py:84-87` says there is no cross-thread race; the thread a cancelled task starts
  writes the batch that the first thread may still be writing. And a clean shutdown does not lose "nothing" (:18): rows
  submitted after the sentinel stay in the queue. A clock set back over the hour creates its finished file anew.
* The strategies never unsubscribe from the books: decisions fall while the recorder closes and after,
  when `emit` raises, and while the exchanges disconnect. The rows of an earlier run may wait for ever for their entry in
  the remote `runs` table, and a pass pushes one batch per table, so legs may be remote before their header.
* The live strategy, cancelled while it seeds, leaves its recorder open; before the handlers are installed SIGTERM and SIGHUP kill the process.
* `AsterUserWs` reconnects with its expired key for ever if the notice was missed or the rotation
  failed silently: the exception `deaf` of `StreamHeals`.
* The gate marks a run as fired although the caps or the risk manager block it afterwards: that
  edge gets no second chance.
* `reversion_signal.py:123` measures staleness with the newer of the two quotes: one dead venue passes while the
  other lives. The spread monitor, for comparison, tests both legs.

## Not modelled

* *Paper mode*: fills are synchronous on a ledger of the strategy, nothing interleaves.
* *A trade under way at shutdown*: `Restart` covers a kill at any point and the start after it, `Runbot` the
  order of closing, `SqliteRecorder` what a trade leaves behind when the recorder closes first. That sessions close
  under a running evaluation, and what its calls then report, is not modelled.
* *Prices, thresholds, moving average, fees, depth pricing, latency fields, decision records*: the models leave the
  choice they lead to free, and no property here depends on them.
* *Levels of a book*: a book is the updates in it; how deep it is kept is left out.
* *REST transport, signatures, the csv recorder, configuration, logging, backtest data and reports, scripts*: I/O and formatting.

## Plan

What would come next:

1. `TakerTaker` with `OrderWait` in place of its one-step calls, and with one connection that loses the events of orders and
   positions together.
2. The stop with a trade under way: `Runbot`, `TakerTaker` and `SqliteRecorder` composed.
3. Environments between `Punctual` and the hostile one: how far from hedged partial fills can leave the pair, as a bound
   in the number of failed repairs.

Runs stay within a few minutes each: bounds of two or three on counters, one abstract payload per message, one
property set per question.
