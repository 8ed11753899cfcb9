------------------------------ MODULE Backtest ------------------------------
(***************************************************************************)
(* The backtest engine (backtest/engine.py Engine.run) with the            *)
(* TakerTakerBT strategy, the latency model and the synthetic positions:   *)
(* one pass over captured rows, in which orders arrive some time after     *)
(* they were decided and fill, or not, against a later row.                *)
(*                                                                         *)
(* Quantities are in trades.  Prices decide which direction has an edge    *)
(* and whether a leg fills; both are free choices here.  A decision goes   *)
(* by the number of the row it was made on.                                *)
(***************************************************************************)
EXTENDS Integers, Sequences, FiniteSets

CONSTANTS
    MaxPosition,    \* max_qty, in trades
    \* Bounds of the model:
    MaxDelay,       \* submit_delay_ms of a venue
    MaxInFlight,    \* in_flight_cap_per_direction
    NTicks,         \* rows of the capture
    MaxGap          \* time from one row to the next

ASSUME BacktestAssumption ==
    /\ MaxPosition \in Nat /\ MaxDelay \in Nat /\ MaxInFlight \in Nat
    /\ NTicks \in Nat \ {0} /\ MaxGap \in Nat

Venues == {"left", "right"}
Ids == 1 .. NTicks
Directions == {"A", "B"}

VARIABLES
    \* the configuration
    delay,            \* [Venues -> submit_delay_ms]
    k,                \* in_flight_cap_per_direction, 0 for none
    \* the pass
    row,              \* rows processed
    now,              \* ts_ms of the row
    phase,            \* "before" and "after" the strategy's tick, "eod", "done"
    \* the engine
    sent,             \* [Ids -> sim_ts_ms]
    direction,        \* [Ids -> Directions, or "none" if it did not fire]
    queue,            \* pending: [Venues -> Seq(Ids)], by arrival
    remaining_legs,   \* [Ids -> 0 .. 2]
    leg,              \* _legs_by_decision: [Ids -> [Venues -> "none", "filled", "rejected"]]
    in_flight_qty,    \* [Venues -> Int]
    sizes,            \* settled positions: [Venues -> Int]
    emitted,          \* decisions recorded, in order
    \* the strategy
    inflight_legs     \* [Ids -> 0 .. 2]

configVars == <<delay, k>>
backtestVars == <<configVars, row, now, phase, sent, direction, queue, remaining_legs,
                  leg, in_flight_qty, sizes, emitted, inflight_legs>>

BacktestTypeOK ==
    /\ delay \in [Venues -> 0 .. MaxDelay]
    /\ k \in 0 .. MaxInFlight
    /\ row \in 0 .. NTicks
    /\ now \in Nat
    /\ phase \in {"before", "after", "eod", "done"}
    /\ sent \in [Ids -> Nat]
    /\ direction \in [Ids -> Directions \cup {"none"}]
    /\ queue \in [Venues -> Seq(Ids)]
    /\ remaining_legs \in [Ids -> 0 .. 2]
    /\ leg \in [Ids -> [Venues -> {"none", "filled", "rejected"}]]
    /\ in_flight_qty \in [Venues -> Int]
    /\ sizes \in [Venues -> Int]
    /\ emitted \in Seq(Ids)
    /\ inflight_legs \in [Ids -> 0 .. 2]

BacktestInit ==
    /\ delay \in [Venues -> 0 .. MaxDelay]
    /\ k \in 0 .. MaxInFlight
    /\ row = 0 /\ now = 0 /\ phase = "after"
    /\ sent = [d \in Ids |-> 0]
    /\ direction = [d \in Ids |-> "none"]
    /\ queue = [v \in Venues |-> <<>>]
    /\ remaining_legs = [d \in Ids |-> 0]
    /\ leg = [d \in Ids |-> [v \in Venues |-> "none"]]
    /\ in_flight_qty = [v \in Venues |-> 0]
    /\ sizes = [v \in Venues |-> 0]
    /\ emitted = <<>>
    /\ inflight_legs = [d \in Ids |-> 0]

-----------------------------------------------------------------------------
\* leg_sides: A sells left and buys right.
Side(dir, v) == IF (dir = "A") = (v = "left") THEN -1 ELSE 1

Arrival(d, v) == sent[d] + delay[v]

\* _pop_due: what _drain still has to process.
Due(v) == queue[v] # <<>> /\ Arrival(Head(queue[v]), v) <= now
Drained == \A v \in Venues : ~Due(v)

\* The position a strategy sees without what is on its way.
MutPosition(v) == sizes[v]

\* EngineView.position
Position(v) == sizes[v] + in_flight_qty[v]

\* _apply_fill
ApplyFill(d, v, result) ==
    /\ in_flight_qty' = [in_flight_qty EXCEPT ![v] = @ - Side(direction[d], v)]
    /\ leg' = [leg EXCEPT ![d][v] = result]
    /\ remaining_legs' = [remaining_legs EXCEPT ![d] = @ - 1]

\* Counts down for trades it does not follow.
MutOnFill(d) == inflight_legs' = [inflight_legs EXCEPT ![d] = @ - 1]

\* The strategy counts the legs of a trade down, if it has a cap.
OnFill(d) ==
    inflight_legs' = IF inflight_legs[d] = 0 THEN inflight_legs
                     ELSE [inflight_legs EXCEPT ![d] = @ - 1]

\* Moves each leg's position as it fills.
MutMaybeEmit(d) ==
    /\ sizes' = [v \in Venues |->
                    IF leg'[d][v] = "filled" /\ leg[d][v] = "none"
                    THEN sizes[v] + Side(direction[d], v) ELSE sizes[v]]
    /\ emitted' = IF remaining_legs'[d] > 0 THEN emitted ELSE Append(emitted, d)

\* apply_pair
ApplyPair(d) == [v \in Venues |-> sizes[v] + Side(direction[d], v)]

\* _maybe_emit: with its last leg the decision is recorded, and the positions move if
\* both legs filled.
MaybeEmit(d) ==
    IF remaining_legs'[d] > 0
    THEN UNCHANGED <<sizes, emitted>>
    ELSE /\ emitted' = Append(emitted, d)
         /\ sizes' = IF \A v \in Venues : leg'[d][v] = "filled" THEN ApplyPair(d) ELSE sizes

\* One leg of the oldest order of a venue; the left venue is drained first.
Resolve(v, result) ==
    /\ v = "right" => ~(IF phase = "eod" THEN queue["left"] # <<>> ELSE Due("left"))
    /\ LET d == Head(queue[v])
       IN  /\ queue' = [queue EXCEPT ![v] = Tail(@)]
           /\ ApplyFill(d, v, result)
           /\ OnFill(d)
           /\ MaybeEmit(d)
    /\ UNCHANGED <<configVars, row, now, phase, sent, direction>>

\* try_fill of either fill model, on the venue's book at the arrival: the order fills
\* whole, or the gates or the depth of that row reject it.
TryFill == {"filled", "rejected"}

Arrives(v) ==
    /\ phase \in {"before", "after"}
    /\ Due(v)
    /\ \E result \in TryFill : Resolve(v, result)

NextRow ==
    /\ phase = "after" /\ Drained /\ row < NTicks
    /\ row' = row + 1
    /\ \E gap \in 0 .. MaxGap : now' = now + gap
    /\ phase' = "before"
    /\ UNCHANGED <<configVars, sent, direction, queue, remaining_legs, leg,
                   in_flight_qty, sizes, emitted, inflight_legs>>

\* insort: after the orders that arrive no later.
Insort(v, d) ==
    LET last == Len(queue[v])
        Late(i) == Arrival(queue[v][i], v) > now + delay[v]
        n == CHOOSE i \in 0 .. last :
                (\A j \in 1 .. i : ~Late(j)) /\ (\A j \in i + 1 .. last : Late(j))
    IN  Append(SubSeq(queue[v], 1, n), d) \o SubSeq(queue[v], n + 1, last)

\* _schedule, for both legs of row's decision.
Schedule(dir) ==
    /\ sent' = [sent EXCEPT ![row] = now]
    /\ direction' = [direction EXCEPT ![row] = dir]
    /\ queue' = [v \in Venues |-> Insort(v, row)]
    /\ remaining_legs' = [remaining_legs EXCEPT ![row] = 2]
    /\ in_flight_qty' = [v \in Venues |-> in_flight_qty[v] + Side(dir, v)]

SameDirection(dir) == {d \in Ids : inflight_legs[d] > 0 /\ direction[d] = dir}

\* on_tick with an edge in direction dir: the position cap, then the cap on trades in
\* flight, then both legs are scheduled.
Fires(dir) ==
    /\ LET post == Position("left") + Side(dir, "left")
       IN  -MaxPosition <= post /\ post <= MaxPosition
    /\ k > 0 => Cardinality(SameDirection(dir)) < k
    /\ phase = "before" /\ Drained
    /\ phase' = "after"
    /\ Schedule(dir)
    /\ inflight_legs' = [inflight_legs EXCEPT ![row] = IF k > 0 THEN 2 ELSE 0]
    /\ UNCHANGED <<configVars, row, now, leg, sizes, emitted>>

\* on_tick without an edge, or blocked.
Declines ==
    /\ phase = "before" /\ Drained
    /\ phase' = "after"
    /\ UNCHANGED <<configVars, row, now, sent, direction, queue, remaining_legs, leg,
                   in_flight_qty, sizes, emitted, inflight_legs>>

RowsEnd ==
    /\ phase = "after" /\ Drained /\ row = NTicks
    /\ phase' = "eod"
    /\ UNCHANGED <<configVars, row, now, sent, direction, queue, remaining_legs, leg,
                   in_flight_qty, sizes, emitted, inflight_legs>>

\* "eod_unfilled"
EndOfData(v) ==
    /\ phase = "eod" /\ queue[v] # <<>>
    /\ Resolve(v, "rejected")

Summary ==
    /\ phase = "eod" /\ \A v \in Venues : queue[v] = <<>>
    /\ phase' = "done"
    /\ UNCHANGED <<configVars, row, now, sent, direction, queue, remaining_legs, leg,
                   in_flight_qty, sizes, emitted, inflight_legs>>

BacktestNext ==
    \/ NextRow \/ Declines \/ RowsEnd \/ Summary
    \/ \E dir \in Directions : Fires(dir)
    \/ \E v \in Venues : Arrives(v) \/ EndOfData(v)

BacktestSpec == BacktestInit /\ [][BacktestNext]_backtestVars

-----------------------------------------------------------------------------
(* Properties.                                                             *)

Elems(s) == {s[i] : i \in DOMAIN s}
Fired == {d \in Ids : direction[d] # "none"}

\* What the decisions in `ids` add up to on a venue.
Net(ids, v) ==
    Cardinality({d \in ids : Side(direction[d], v) = 1})
        - Cardinality({d \in ids : Side(direction[d], v) = -1})

\* The books balance, however far apart the legs of a trade arrive and whatever becomes
\* of them.  What is in flight is what the pending orders add up to; the positions are
\* what the trades of which both legs filled add up to, never half a trade; a decision
\* is recorded once, and in the end every trade that fired is, with nothing left
\* counted as in flight by the engine or by the strategy.
BooksBalance ==
    LET whole == {d \in Elems(emitted) : \A v \in Venues : leg[d][v] = "filled"}
    IN  /\ \A v \in Venues : in_flight_qty[v] = Net(Elems(queue[v]), v)
        /\ \A v \in Venues : sizes[v] = Net(whole, v)
        /\ Cardinality(Elems(emitted)) = Len(emitted)
        /\ phase = "done" =>
              /\ Elems(emitted) = Fired
              /\ \A v \in Venues : in_flight_qty[v] = 0
              /\ \A d \in Ids : remaining_legs[d] = 0 /\ inflight_legs[d] = 0

WithinCap == -MaxPosition <= sizes["left"] /\ sizes["left"] <= MaxPosition

\* The position stays within max_qty when the left leg is never the faster one and no
\* leg is rejected.
CapWithoutRejects ==
    /\ delay["left"] >= delay["right"]
    /\ \A d \in Ids, v \in Venues : leg[d][v] # "rejected"
    => WithinCap

\* The position stays within max_qty, as EngineView (backtest/base.py) says it does
\* under latency.  It does not: a left leg that has filled is neither in flight nor
\* settled while the right leg is on its way, and a rejected leg frees the room the
\* next trade was already let into.
CapHolds == WithinCap
=============================================================================
