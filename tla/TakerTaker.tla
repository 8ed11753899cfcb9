----------------------------- MODULE TakerTaker -----------------------------
(***************************************************************************)
(* strategy/taker_taker.py in live mode, with the executor, the venue      *)
(* sessions and the account streams it runs against.                       *)
(*                                                                         *)
(* One asyncio task at a time evaluates the signal (`_evaluating`).  It    *)
(* gives up control at the awaits of _fire and _reconcile_after_failure,   *)
(* and there the venues execute orders and the account streams push        *)
(* positions into the drivers' caches.  Every step below is the code       *)
(* between two awaits, or one step of a venue or of a stream.              *)
(*                                                                         *)
(* Quantities are signed numbers of lots, buy positive.  The signal is     *)
(* abstract: any direction the position cap admits may fire.               *)
(*                                                                         *)
(* A definition whose name starts with Mut is a plausible mistake in the   *)
(* definition after it.  Nothing uses it; put in that definition's place,  *)
(* it must break the property the README pairs it with.                    *)
(***************************************************************************)
EXTENDS RiskManager, Sequences, FiniteSets

CONSTANTS
    Qty, MaxQty,       \* cfg.qty, cfg.max_qty
    Dust,              \* max(market.min_qty, market.lot_size)
    StartInventory,    \* what leg a may hold when the bot starts; leg b mirrors it
    None,              \* Python's None
    \* What the venues and the network may do:
    PartialFills,      \* an accepted order may fill in part, or not at all
    ClipReduceOnly,    \* a reduce-only order that would do more than close is cut
                       \* down (to nothing, when there is nothing to close) rather
                       \* than refused
    LateFills,         \* an order may execute after its call failed
    SlowFills,         \* an accepted order may be open still when the fill wait ends
    PushLag,           \* the next entry may be decided before the position pushes of
                       \* the last one arrive
    UnaskedPushes,     \* a venue pushes positions that no fill changed
    PushLoss,          \* an account stream may break and lose the pushes on their way
    Snapshots,         \* the legs whose venue pushes the position on subscription
                       \* (Lighter does, Aster does not)
    Crashes,           \* the process may be killed and started again
    \* Bounds of the model:
    MaxStream,         \* position pushes on their way, per leg
    MaxLate,           \* orders that outlived their call, on both legs together
    MaxOverlay,        \* overlay left over when an entry is decided, per leg
    VenueBound         \* the venue's own position limit

Abs(x) == IF x < 0 THEN -x ELSE x

ASSUME TakerTakerAssumption ==
    /\ Qty \in Nat \ {0} /\ MaxQty \in Nat /\ Qty <= MaxQty
    /\ Dust \in Nat \ {0} /\ Dust <= Qty
    /\ StartInventory \subseteq {x \in Int : Abs(x) <= MaxQty}
    /\ {PartialFills, ClipReduceOnly, LateFills, SlowFills, PushLag,
        UnaskedPushes, PushLoss, Crashes} \subseteq BOOLEAN
    /\ MaxStream \in Nat \ {0} /\ MaxLate \in Nat
    /\ MaxOverlay \in Nat /\ VenueBound \in Nat

Legs == {"a", "b"}
Directions == {"A", "B"}

ASSUME NoneAssumption == None \notin [Legs -> Int]
ASSUME SnapshotsAssumption == Snapshots \subseteq Legs

VARIABLES
    \* outside the process
    venue,       \* [Legs -> Int]: the position the venue holds
    stream,      \* [Legs -> Seq(Int)]: position pushes on their way, oldest first
    late,        \* [Legs -> Seq(order)]: orders still open though their call returned
    \* the drivers
    cached,      \* [Legs -> BOOLEAN]: the driver has a position in its cache
    live,        \* [Legs -> Int]: that position, 0 while there is none
    missed,      \* [Legs -> BOOLEAN], history: the last position the venue pushed was
                 \* lost in a reconnect, and no snapshot followed
    leg,         \* [Legs -> state of the leg's submit_and_await call]
    amount,      \* [Legs -> Int]: signed quantity of that call's order
    \* the strategy
    phase,       \* where the evaluation stands; "idle" is ~_evaluating
    pending,     \* [Legs -> Int]: _pending_a, _pending_b
    target,      \* [Legs -> Int]: pre_a, pre_b of _fire, then the reconcile target
    snap,        \* [Legs -> Int \cup {None}]: snap_a, snap_b
    retrying,    \* the reconcile under way is _evaluate's retry
    reconcile_pending,
    reconcile_target

envVars == <<venue, stream, late>>
cacheVars == <<cached, live, missed>>
legVars == <<leg, amount>>
planVars == <<target, snap, retrying>>
savedVars == <<reconcile_pending, reconcile_target>>
vars == <<envVars, cacheVars, legVars, phase, pending, planVars, savedVars, riskVars>>

Orders == [amount : Int, reduce_only : BOOLEAN]
Phases == {"starting", "idle", "scheduled", "exec", "snap", "rebalance_a", "rebalance_b"}
Resting == {"starting", "idle", "scheduled"}    \* no trade and no repair is under way
LegStates == {"none", "sent", "filled", "rejected", "ok", "fail"}
Returned == {"ok", "fail"}

TypeOK ==
    /\ RiskTypeOK
    /\ venue \in [Legs -> Int]
    /\ stream \in [Legs -> Seq(Int)]
    /\ late \in [Legs -> Seq(Orders)]
    /\ cached \in [Legs -> BOOLEAN]
    /\ live \in [Legs -> Int]
    /\ missed \in [Legs -> BOOLEAN]
    /\ leg \in [Legs -> LegStates]
    /\ amount \in [Legs -> Int]
    /\ phase \in Phases
    /\ pending \in [Legs -> Int]
    /\ target \in [Legs -> Int]
    /\ snap \in [Legs -> Int \cup {None}]
    /\ retrying \in BOOLEAN
    /\ reconcile_pending \in BOOLEAN
    /\ reconcile_target \in [Legs -> Int] \cup {None}

-----------------------------------------------------------------------------
\* leg_sides: direction A sells leg a and buys leg b, B mirrors it.
Delta(dir) ==
    IF dir = "A" THEN [l \in Legs |-> IF l = "a" THEN -Qty ELSE Qty]
                 ELSE [l \in Legs |-> IF l = "a" THEN Qty ELSE -Qty]

\* _pos_a and _pos_b: the pushed position plus the provisional overlay.
Pos(l) == live[l] + pending[l]

\* Tests the position held, not the one the trade would leave.
MutExceedsPositionCap(dir) == Abs(Pos("a")) > MaxQty

ExceedsPositionCap(dir) == Abs(Pos("a") + Delta(dir)["a"]) > MaxQty

Zero == [l \in Legs |-> 0]
NoCalls == [l \in Legs |-> "none"]
Drained == \A l \in Legs : stream[l] = <<>>
AllReturned == \A l \in Legs : leg[l] \in Returned
Outlived == Len(late["a"]) + Len(late["b"])

\* The part of a reduce-only order x that brings the position v towards zero.
Reducing(v, x) ==
    IF v > 0 /\ x < 0 THEN IF x < -v THEN -v ELSE x
    ELSE IF v < 0 /\ x > 0 THEN IF x > -v THEN -v ELSE x
    ELSE 0

\* From 0 to x, in either sign.
Upto(x) == IF x < 0 THEN x .. 0 ELSE 0 .. x

\* What the venue may execute of an order x when it holds v.
Executable(v, x, reduce_only) ==
    LET room == IF reduce_only THEN Reducing(v, x) ELSE x
    IN  IF room = x \/ ClipReduceOnly
        THEN IF PartialFills THEN Upto(room) ELSE {room}
        ELSE {}

\* An execution moves the position and pushes it to the account stream.
Execute(l, fill) ==
    /\ Abs(venue[l] + fill) <= VenueBound
    /\ venue' = [venue EXCEPT ![l] = @ + fill]
    /\ IF fill = 0
       THEN UNCHANGED <<stream, missed>>
       ELSE /\ Len(stream[l]) < MaxStream
            /\ stream' = [stream EXCEPT ![l] = Append(@, venue'[l])]
            /\ missed' = [missed EXCEPT ![l] = FALSE]

\* What a user stream brings when it has just been subscribed to.
Subscribed(l) == IF l \in Snapshots THEN <<venue[l]>> ELSE <<>>

Init ==
    /\ \E x \in StartInventory : venue = [l \in Legs |-> IF l = "a" THEN x ELSE -x]
    /\ stream = [l \in Legs |-> Subscribed(l)]
    /\ late = [l \in Legs |-> <<>>]
    /\ cached = [l \in Legs |-> FALSE]
    /\ live = Zero
    /\ missed = [l \in Legs |-> FALSE]
    /\ leg = NoCalls
    /\ amount = Zero
    /\ phase = "starting"
    /\ pending = Zero
    /\ target = Zero
    /\ snap = [l \in Legs |-> None]
    /\ retrying = FALSE
    /\ reconcile_pending = FALSE
    /\ reconcile_target = None
    /\ RiskInit

-----------------------------------------------------------------------------
(* The evaluation task, one action per stretch of code between awaits.     *)

\* The coroutine's locals die with it.
ForgetLocals ==
    /\ leg' = NoCalls
    /\ amount' = Zero
    /\ target' = Zero
    /\ snap' = [l \in Legs |-> None]
    /\ retrying' = FALSE

EndEvaluation ==
    /\ phase' = "idle"
    /\ ForgetLocals

\* The answer to get_position replaces what a push has put into the cache.
MutSeeded(l) == snap[l]

\* get_position puts its answer into a cache that is empty (setdefault): a push that
\* came before the answer is newer.
Seeded(l) == IF cached[l] THEN live[l] ELSE snap[l]

\* run() has both positions and goes on to subscribe to the books.
SeedsArrive ==
    /\ phase = "starting"
    /\ \A l \in Legs : snap[l] # None
    /\ live' = [l \in Legs |-> Seeded(l)]
    /\ cached' = [l \in Legs |-> TRUE]
    /\ EndEvaluation
    /\ UNCHANGED <<envVars, missed, pending, savedVars, riskVars>>

\* A book update; _schedule_eval drops it while an evaluation is under way.
ScheduleEval ==
    /\ phase = "idle"
    /\ phase' = "scheduled"
    /\ UNCHANGED <<envVars, cacheVars, legVars, pending, planVars, savedVars, riskVars>>

\* An early return that skips the reset of _evaluating.
MutEvaluateSkip ==
    /\ phase = "scheduled"
    /\ ~CanTrade
    /\ RolloverDay
    /\ UNCHANGED <<consecutive_failures, cooling, halted>>
    /\ UNCHANGED <<envVars, cacheVars, legVars, phase, pending, planVars, savedVars>>

\* _evaluate returns without an order: the retry is not allowed yet, there is no
\* signal (can_trade is not even called), or can_trade blocks the entry.
EvaluateSkip ==
    /\ phase = "scheduled"
    /\ phase' = "idle"
    /\ \/ ~reconcile_pending /\ UNCHANGED riskVars
       \/ /\ ~CanTrade
          /\ RolloverDay
          /\ UNCHANGED <<consecutive_failures, cooling, halted>>
    /\ UNCHANGED <<envVars, cacheVars, legVars, pending, planVars, savedVars>>

\* The retry flattens instead of restoring the saved target.
MutEvaluateRetry ==
    /\ phase = "scheduled"
    /\ reconcile_pending
    /\ CanTrade
    /\ RolloverDay
    /\ phase' = "snap"
    /\ target' = Zero
    /\ retrying' = TRUE
    /\ UNCHANGED <<envVars, cacheVars, legVars, pending, snap, savedVars,
                   consecutive_failures, cooling, halted>>

\* Retries before asking can_trade.
MutEvaluateRetryUnasked ==
    /\ phase = "scheduled"
    /\ reconcile_pending
    /\ RolloverDay
    /\ phase' = "snap"
    /\ target' = reconcile_target
    /\ retrying' = TRUE
    /\ UNCHANGED <<envVars, cacheVars, legVars, pending, snap, savedVars,
                   consecutive_failures, cooling, halted>>

\* _evaluate finds a reconcile pending and the cooldown over: back to the snapshots.
EvaluateRetry ==
    /\ phase = "scheduled"
    /\ reconcile_pending
    /\ CanTrade
    /\ RolloverDay
    /\ phase' = "snap"
    /\ target' = reconcile_target
    /\ retrying' = TRUE
    /\ UNCHANGED <<envVars, cacheVars, legVars, pending, snap, savedVars,
                   consecutive_failures, cooling, halted>>

\* Fires without looking whether a reconcile is pending.
MutFire(dir) ==
    /\ phase = "scheduled"
    /\ ~ExceedsPositionCap(dir)
    /\ CanTrade
    /\ \A l \in Legs : Abs(pending[l]) <= MaxOverlay
    /\ RolloverDay
    /\ phase' = "exec"
    /\ target' = live
    /\ leg' = [l \in Legs |-> "sent"]
    /\ amount' = Delta(dir)
    /\ UNCHANGED <<envVars, cacheVars, pending, snap, retrying, savedVars,
                   consecutive_failures, cooling, halted>>

\* _evaluate fires: the pre-fire positions are kept and both orders are sent.
Fire(dir) ==
    /\ phase = "scheduled"
    /\ ~reconcile_pending
    /\ ~ExceedsPositionCap(dir)
    /\ CanTrade
    /\ PushLag \/ Drained
    /\ \A l \in Legs : Abs(pending[l]) <= MaxOverlay
    /\ RolloverDay
    /\ phase' = "exec"
    /\ target' = live
    /\ leg' = [l \in Legs |-> "sent"]
    /\ amount' = Delta(dir)
    /\ UNCHANGED <<envVars, cacheVars, pending, snap, retrying, savedVars,
                   consecutive_failures, cooling, halted>>

\* The whole order goes to the overlay, also what a push has already shown.
MutOverlayAfter(l) == pending[l] + amount[l]

\* What the stream has not shown of the order is added to the overlay.
OverlayAfter(l) == pending[l] + amount[l] - (live[l] - target[l])

\* Both calls succeeded.
\* pair_pnl_from_legs has no value when a leg's fill was not seen.
ExecSucceeds ==
    /\ phase = "exec"
    /\ \A l \in Legs : leg[l] = "ok"
    /\ pending' = [l \in Legs |-> OverlayAfter(l)]
    /\ RecordSuccess
    /\ \/ \E realised \in PnlValues : RecordPnl(realised)
       \/ UNCHANGED <<halted, realised_pnl_today, day_turned>>
    /\ EndEvaluation
    /\ UNCHANGED <<envVars, cacheVars, savedVars, cooling>>

\* A call failed: _reconcile_after_failure(pre_a, pre_b) asks for the snapshots.
ExecFails ==
    /\ phase = "exec"
    /\ AllReturned
    /\ \E l \in Legs : leg[l] = "fail"
    /\ phase' = "snap"
    /\ leg' = NoCalls
    /\ amount' = Zero
    /\ UNCHANGED <<envVars, cacheVars, pending, planVars, savedVars, riskVars>>

\* A venue answers get_position, for the seed or for a reconcile; by then the reconcile's
\* cache has a position and is left alone.
SnapReturns(l) ==
    /\ phase \in {"starting", "snap"}
    /\ snap[l] = None
    /\ snap' = [snap EXCEPT ![l] = venue[l]]
    /\ UNCHANGED <<envVars, cacheVars, legVars, phase, pending, target, retrying,
                   savedVars, riskVars>>

\* Sets the pending flag and forgets the target.
MutSnapRaises ==
    /\ phase = "snap"
    /\ reconcile_pending' = TRUE
    /\ reconcile_target' = None
    /\ RecordFailure
    /\ EndEvaluation
    /\ UNCHANGED <<envVars, cacheVars, pending, realised_pnl_today, day_turned>>

\* A REST call raises: the target is kept for a later retry, the cooldown armed.
SnapRaises ==
    /\ phase = "snap"
    /\ reconcile_pending' = TRUE
    /\ reconcile_target' = target
    /\ RecordFailure
    /\ EndEvaluation
    /\ UNCHANGED <<envVars, cacheVars, pending, realised_pnl_today, day_turned>>

\* _rebalance_one_leg up to its await: nothing to do below the dust threshold.
Rebalance(l) ==
    LET diff == target[l] - snap[l]
    IN  IF Abs(diff) < Dust
        THEN /\ leg' = [leg EXCEPT ![l] = "ok"]
             /\ UNCHANGED amount
        ELSE /\ leg' = [leg EXCEPT ![l] = "sent"]
             /\ amount' = [amount EXCEPT ![l] = diff]

RebalanceA ==
    /\ phase = "snap"
    /\ \A l \in Legs : snap[l] # None
    /\ phase' = "rebalance_a"
    /\ Rebalance("a")
    /\ UNCHANGED <<envVars, cacheVars, pending, planVars, savedVars, riskVars>>

\* Leg b is rebalanced whatever became of leg a.
RebalanceB ==
    /\ phase = "rebalance_a"
    /\ leg["a"] \in Returned
    /\ phase' = "rebalance_b"
    /\ Rebalance("b")
    /\ UNCHANGED <<envVars, cacheVars, pending, planVars, savedVars, riskVars>>

\* Leg a's result stands for both.
MutReconcileEndsOnA ==
    /\ phase = "rebalance_b"
    /\ AllReturned
    /\ IF leg["a"] = "ok"
       THEN /\ reconcile_pending' = FALSE
            /\ reconcile_target' = None
            /\ pending' = Zero
       ELSE /\ reconcile_pending' = TRUE
            /\ reconcile_target' = target
            /\ UNCHANGED pending
    /\ IF retrying /\ ~reconcile_pending'
       THEN UNCHANGED <<consecutive_failures, cooling, halted>>
       ELSE RecordFailure
    /\ EndEvaluation
    /\ UNCHANGED <<envVars, cacheVars, realised_pnl_today, day_turned>>

\* A retry that fails again is not counted.
MutReconcileEndsUncounted ==
    /\ phase = "rebalance_b"
    /\ AllReturned
    /\ IF \A l \in Legs : leg[l] = "ok"
       THEN /\ reconcile_pending' = FALSE
            /\ reconcile_target' = None
            /\ pending' = Zero
       ELSE /\ reconcile_pending' = TRUE
            /\ reconcile_target' = target
            /\ UNCHANGED pending
    /\ IF retrying THEN UNCHANGED <<consecutive_failures, cooling, halted>>
       ELSE RecordFailure
    /\ EndEvaluation
    /\ UNCHANGED <<envVars, cacheVars, realised_pnl_today, day_turned>>

\* Both rebalances returned: done and overlay zeroed, or kept for a retry.  _fire
\* records its failure either way, the retry only when it is still pending.
ReconcileEnds ==
    /\ phase = "rebalance_b"
    /\ AllReturned
    /\ IF \A l \in Legs : leg[l] = "ok"
       THEN /\ reconcile_pending' = FALSE
            /\ reconcile_target' = None
            /\ pending' = Zero
       ELSE /\ reconcile_pending' = TRUE
            /\ reconcile_target' = target
            /\ UNCHANGED pending
    /\ IF retrying /\ ~reconcile_pending'
       THEN UNCHANGED <<consecutive_failures, cooling, halted>>
       ELSE RecordFailure
    /\ EndEvaluation
    /\ UNCHANGED <<envVars, cacheVars, realised_pnl_today, day_turned>>

-----------------------------------------------------------------------------
(* The legs' submit_and_await calls, the venues and the account streams.   *)

VenueFills(l) ==
    /\ leg[l] = "sent"
    /\ \E fill \in Executable(venue[l], amount[l], phase # "exec") : Execute(l, fill)
    /\ leg' = [leg EXCEPT ![l] = "filled"]
    /\ UNCHANGED <<late, cached, live, amount, phase, pending, planVars, savedVars, riskVars>>

VenueRejects(l) ==
    /\ leg[l] = "sent"
    /\ leg' = [leg EXCEPT ![l] = "rejected"]
    /\ UNCHANGED <<envVars, cacheVars, amount, phase, pending, planVars, savedVars, riskVars>>

\* A call on an executed order may still end in an error: the answer was lost.
CallReturns(l) ==
    /\ \/ /\ leg[l] = "filled"
          /\ \E result \in Returned : leg' = [leg EXCEPT ![l] = result]
       \/ /\ leg[l] = "rejected"
          /\ leg' = [leg EXCEPT ![l] = "fail"]
    /\ UNCHANGED <<envVars, cacheVars, amount, phase, pending, planVars, savedVars, riskVars>>

\* A call ends while its order is still open: no answer came and the order counts as
\* not executed, or it was accepted, no terminal event came, and it counts as a success.
CallGivesUp(l) ==
    /\ leg[l] = "sent"
    /\ \/ LateFills /\ leg' = [leg EXCEPT ![l] = "fail"]
       \/ SlowFills /\ leg' = [leg EXCEPT ![l] = "ok"]
    /\ Outlived < MaxLate
    /\ late' = [late EXCEPT ![l] =
            Append(@, [amount |-> amount[l], reduce_only |-> phase # "exec"])]
    /\ UNCHANGED <<venue, stream, cacheVars, amount, phase, pending, planVars, savedVars,
                   riskVars>>

\* An order that outlived its call executes, or is dropped.
LateOrderEnds(l) ==
    /\ late[l] # <<>>
    /\ LET order == Head(late[l])
       IN  \E fill \in {0} \cup Executable(venue[l], order.amount, order.reduce_only) :
               Execute(l, fill)
    /\ late' = [late EXCEPT ![l] = Tail(@)]
    /\ UNCHANGED <<cached, live, legVars, phase, pending, planVars, savedVars, riskVars>>

\* The venue pushes the position unasked (funding, a margin change, a second fill).
VenuePushes(l) ==
    /\ UnaskedPushes
    /\ Len(stream[l]) < MaxStream
    /\ stream' = [stream EXCEPT ![l] = Append(@, venue[l])]
    /\ missed' = [missed EXCEPT ![l] = FALSE]
    /\ UNCHANGED <<venue, late, cached, live, legVars, phase, pending, planVars, savedVars,
                   riskVars>>

\* The account stream breaks and is connected again: the pushes on their way are lost,
\* and only a venue that sends a snapshot on subscription makes up for them.
StreamReconnects(l) ==
    /\ PushLoss
    /\ stream[l] # <<>> \/ l \in Snapshots
    /\ stream' = [stream EXCEPT ![l] = Subscribed(l)]
    /\ missed' = [missed EXCEPT ![l] = l \notin Snapshots]
    /\ UNCHANGED <<venue, late, cached, live, legVars, phase, pending, planVars, savedVars,
                   riskVars>>

\* A push reaches the driver: it replaces the cached position and calls the
\* strategy's subscriber, which clears the overlay of that leg.
PositionEvent(l) ==
    /\ stream[l] # <<>>
    /\ cached' = [cached EXCEPT ![l] = TRUE]
    /\ live' = [live EXCEPT ![l] = Head(stream[l])]
    /\ stream' = [stream EXCEPT ![l] = Tail(@)]
    /\ pending' = [pending EXCEPT ![l] = 0]
    /\ UNCHANGED <<venue, late, missed, legVars, phase, planVars, savedVars, riskVars>>

\* The process dies and is started again: the drivers subscribe, run() asks for the
\* positions and everything else starts afresh.  Orders in flight stay with the venue.
Restart ==
    /\ Crashes
    /\ (\E l \in Legs : leg[l] = "sent") =>
          LateFills /\ Outlived + Cardinality({l \in Legs : leg[l] = "sent"}) <= MaxLate
    /\ late' = [l \in Legs |->
            IF leg[l] = "sent"
            THEN Append(late[l], [amount |-> amount[l], reduce_only |-> phase # "exec"])
            ELSE late[l]]
    /\ stream' = [l \in Legs |-> Subscribed(l)]
    /\ cached' = [l \in Legs |-> FALSE]
    /\ live' = Zero
    /\ missed' = [l \in Legs |-> FALSE]
    /\ pending' = Zero
    /\ phase' = "starting"
    /\ ForgetLocals
    /\ reconcile_pending' = FALSE
    /\ reconcile_target' = None
    /\ RiskReset
    /\ UNCHANGED venue

Clock ==
    /\ CooldownExpires \/ DayTurns
    /\ UNCHANGED <<envVars, cacheVars, legVars, phase, pending, planVars, savedVars>>

Strategy ==
    \/ SeedsArrive
    \/ EvaluateSkip \/ EvaluateRetry \/ (\E dir \in Directions : Fire(dir))
    \/ ExecSucceeds \/ ExecFails
    \/ (\E l \in Legs : SnapReturns(l)) \/ SnapRaises
    \/ RebalanceA \/ RebalanceB \/ ReconcileEnds

Calls(l) == VenueFills(l) \/ VenueRejects(l) \/ CallReturns(l) \/ CallGivesUp(l)

Next ==
    \/ ScheduleEval
    \/ Strategy
    \/ \E l \in Legs :
          \/ Calls(l) \/ LateOrderEnds(l) \/ VenuePushes(l) \/ PositionEvent(l)
          \/ StreamReconnects(l)
    \/ Clock
    \/ Restart

Spec == Init /\ [][Next]_vars

\* Books keep ticking, an awaited call ends (every one has a timeout), the event
\* loop runs what is ready, pushes on their way arrive, and time passes.
Fairness ==
    /\ WF_vars(ScheduleEval)
    /\ WF_vars(Strategy)
    /\ \A l \in Legs : WF_vars(Calls(l)) /\ WF_vars(PositionEvent(l))
    /\ WF_vars(CooldownExpires /\ Clock)

FairSpec == Spec /\ Fairness

-----------------------------------------------------------------------------
(* Properties for every environment.                                       *)

\* A halt is raised between orders and stops them: while the bot is halted no call
\* is on its way to a venue, neither an entry nor a rebalance (taker_taker.py
\* _evaluate and _assess ask can_trade before both).
HaltStopsOrders == halted => leg = NoCalls /\ phase \in Resting

\* The two ratchets lead to a halt and nowhere else: as many failures in a row as
\* allowed, or the day's loss at the cap, never leave the bot running
\* (record_failure, record_pnl and the rollover inside can_trade).
RatchetsHalt ==
    /\ consecutive_failures >= MaxConsecutiveFailures => halted
    /\ realised_pnl_today <= -DailyLossCap => halted \/ day_turned

\* A reconcile left for later has its target: the assertion _evaluate makes.
TargetSaved == reconcile_pending => reconcile_target # None

\* Once the bot has started, and with no push on its way, the cached position is the
\* venue's, unless the last position the venue pushed was lost in a reconnect: whichever
\* of the REST seed, the pushes, a reconnect and the fills of orders that outlived the
\* previous process comes first (get_position's setdefault, the account handlers, the
\* subscriptions: "WS owns the cache").
CacheConverges ==
    phase # "starting" =>
        \A l \in Legs : stream[l] = <<>> /\ ~missed[l] => live[l] = venue[l]

\* Only a clean pass lifts a pending reconcile: while one is pending the bot sends
\* no entry, and the pending flag falls only in a retry whose two legs were ok.
ReconcileFirst ==
    [][ reconcile_pending =>
            /\ ~ (phase # "exec" /\ phase' = "exec")
            /\ ~ reconcile_pending' =>
                  (retrying /\ \A l \in Legs : leg[l] = "ok") \/ Restart ]_vars

\* Every evaluation comes to an end: no await leaves `_evaluating` set for good.
EvaluationEnds == phase \notin {"starting", "idle"} ~> phase \in {"starting", "idle"}

\* A failed trade is reconciled, or the bot is halted: a pending reconcile is not
\* retried for ever and not forgotten.
ReconciledOrHalted == reconcile_pending ~> (~reconcile_pending \/ halted)

-----------------------------------------------------------------------------
(* Properties of gentler environments.                                     *)

\* An order executes whole or not at all, before its call ends, and pushes arrive, and
\* before the next entry.
Punctual == ~PartialFills /\ ~LateFills /\ ~SlowFills /\ ~PushLag /\ ~PushLoss

\* The venue also refuses a reduce-only order that would do more than close.
Refusing == Punctual /\ ~ClipReduceOnly

\* And the process is not killed.
Faithful == Refusing /\ ~Crashes

\* The trade or the repair under way, if any, has not been settled.
Unsettled == phase \notin {"idle", "scheduled"} \/ reconcile_pending

\* Between trades the two venues hold mirrored positions: "the two legs are
\* equal-magnitude / opposite-sign by construction" (reversion_signal.py), which is
\* why _assess looks at leg a alone.  (Faithful.)
Hedged == ~Unsettled => venue["a"] + venue["b"] = 0

\* Neither venue's position passes max_qty, at any time, mid-trade included.
\* (Faithful.)
CapHeld == \A l \in Legs : Abs(venue[l]) <= MaxQty

\* Between trades the overlay is exactly what the stream still has to show: once the
\* stream is empty the strategy's position is the venue's and no overlay is left over
\* (the gap arithmetic of _fire, the clearing by PositionEvent and by the reconcile).
\* (Punctual.)
ViewExact ==
    ~Unsettled => \A l \in Legs : stream[l] = <<>> => Pos(l) = venue[l]

\* The inventory as the strategy accounts for it: before a trade settles, and while a
\* reconcile is pending, it is still the one the trade started from.
Inventory ==
    IF phase \notin Resting THEN target["a"]
    ELSE IF reconcile_pending THEN reconcile_target["a"]
    ELSE venue["a"]

\* Two asynchronous legs, failures, lost answers, snapshots and rebalances implement
\* a pair that trades atomically, killed and restarted included.  (Refusing.)
Pair == INSTANCE AtomicPair WITH pair <- Inventory
ImplementsAtomicPair == Pair!Spec

-----------------------------------------------------------------------------
(* What comments promise beyond that.                                      *)

\* The docstring of _reconcile_after_failure: "The next `_evaluate` after cooldown
\* expiry will retry."
RetryFollows == reconcile_pending ~> (phase = "snap" /\ retrying)

\* The docstring of aster's _try_recover_timed_out_order, on an order given up that
\* executes after all: "the WS-based position reconciler in the strategy layer will
\* catch any residual drift on the next ACCOUNT_UPDATE."
DriftCaught ==
    (~Unsettled /\ Drained /\ venue["a"] + venue["b"] # 0)
        ~> (phase = "snap" \/ halted \/ venue["a"] + venue["b"] = 0)

=============================================================================
