------------------------------ MODULE OrderWait ------------------------------
(***************************************************************************)
(* One driver's order path: BaseExchange.submit_and_await with the fill    *)
(* tracker, place_market_order, the venue's answer and the user stream     *)
(* that carries the fills (core/exchange.py, core/fill_tracker.py,         *)
(* core/types.py LegOutcome, exchanges/aster, exchanges/lighter).          *)
(*                                                                         *)
(* The executor gives a driver one call at a time, each with a new client  *)
(* id: order c is the c-th call.  Aster pushes one FillDelta per fill,     *)
(* Lighter pushes OrderSnapshots with running totals; `feed` says which    *)
(* driver this is.  Prices, fees and timestamps follow the quantity they   *)
(* come with and are left out.                                             *)
(***************************************************************************)
EXTENDS Integers, Sequences, FiniteSets

CONSTANTS
    NOrders,        \* calls made, one after the other
    Requested,      \* the quantity of an order, in lots
    None,        \* Python's None
    \* Bounds of the model:
    MaxPushes,      \* events on their way to the driver
    MaxBreaks       \* times the user stream breaks

ASSUME OrderWaitAssumption ==
    /\ NOrders \in Nat \ {0} /\ Requested \in Nat \ {0}
    /\ MaxPushes \in Nat \ {0} /\ MaxBreaks \in Nat

Cids == 1 .. NOrders
Terminal == {"filled", "canceled", "rejected"}
Reached == {"open", "filled", "canceled"}      \* the matching engine has the order
Fills == [filled : Nat, last_status : Terminal \cup {None}]
Outcomes == [success : BOOLEAN, status : {"open"} \cup Terminal \cup {None},
             filled : Nat, ended : {"unplaced", "complete", "timeout"}]

ASSUME NoneAssumption == None \notin Fills \cup Outcomes \cup Terminal

VARIABLES
    feed,        \* "delta" (Aster) or "snapshot" (Lighter)
    \* the venue
    state,       \* [Cids -> state of the order]
    done,        \* [Cids -> executed quantity]
    answer,      \* the venue's answer to the request under way, or None
    \* the user stream
    pushes,      \* events on their way, oldest first
    link,        \* "up" or "down"
    listen_key,  \* Aster's listenKey: "fresh" or "expired"
    breaks,
    \* the driver
    cid,         \* client id of the last call
    call,        \* where submit_and_await stands
    slots,       \* keys of _events
    woken,       \* the registered cids whose Event is set
    fills,       \* _fills
    outcome,     \* what place_market_order returned
    report,      \* [Cids -> what submit_and_await returned, or None]
    \* history
    lost,        \* orders of which a push was lost
    untold,      \* orders whose request or lookup got no true answer
    deaf         \* the driver was not told that its listenKey expired

venueVars == <<state, done, answer>>
streamVars == <<pushes, link, listen_key, breaks, lost, deaf>>
trackerVars == <<slots, woken, fills>>
callVars == <<cid, call, outcome, report, untold>>
waitVars == <<feed, venueVars, streamVars, trackerVars, callVars>>

\* An executed quantity, running or of one fill, and the status it left the order in;
\* the notice that the listenKey expired names no order.
Events == [cid : Cids \cup {0}, qty : Nat, status : Reached]
Notice == [cid |-> 0, qty |-> 0, status |-> "open"]
NoOutcome == [success |-> FALSE, status |-> None, filled |-> 0, ended |-> "unplaced"]

OrderWaitTypeOK ==
    /\ feed \in {"delta", "snapshot"}
    /\ state \in [Cids -> {"none", "sent", "rejected"} \cup Reached]
    /\ done \in [Cids -> 0 .. Requested]
    /\ answer \in {None} \cup Outcomes
    /\ pushes \in Seq(Events) /\ Len(pushes) <= MaxPushes
    /\ link \in {"up", "down"}
    /\ listen_key \in {"fresh", "expired"}
    /\ breaks \in 0 .. MaxBreaks
    /\ cid \in 0 .. NOrders
    /\ call \in {"idle", "placing", "querying", "waiting"}
    /\ slots \subseteq Cids
    /\ woken \subseteq slots
    /\ fills \in [Cids -> Fills \cup {None}]
    /\ outcome \in Outcomes
    /\ report \in [Cids -> Outcomes \cup {None}]
    /\ lost \subseteq Cids
    /\ untold \subseteq Cids
    /\ deaf \in BOOLEAN

OrderWaitInit ==
    /\ feed \in {"delta", "snapshot"}
    /\ state = [c \in Cids |-> "none"]
    /\ done = [c \in Cids |-> 0]
    /\ answer = None
    /\ pushes = <<>> /\ link = "up" /\ listen_key = "fresh" /\ breaks = 0
    /\ cid = 0 /\ call = "idle" /\ outcome = NoOutcome
    /\ slots = {} /\ woken = {} /\ fills = [c \in Cids |-> None]
    /\ report = [c \in Cids |-> None]
    /\ lost = {} /\ untold = {} /\ deaf = FALSE

-----------------------------------------------------------------------------
(* The venue.                                                              *)

\* The venue pushes to whoever listens; what it pushes to nobody is lost.
Push(c, event) ==
    IF link = "up" /\ listen_key = "fresh"
    THEN /\ Len(pushes) < MaxPushes
         /\ pushes' = Append(pushes, event)
         /\ UNCHANGED <<link, listen_key, breaks, lost, deaf>>
    ELSE /\ lost' = lost \cup {c}
         /\ UNCHANGED <<pushes, link, listen_key, breaks, deaf>>

\* The engine accepts the order or turns it down; it may do so after the call failed.
VenueReceives(c) ==
    /\ state[c] = "sent"
    /\ \E s \in {"open", "rejected"} : state' = [state EXCEPT ![c] = s]
    /\ UNCHANGED <<feed, done, answer, streamVars, trackerVars, callVars>>

VenueFills(c) ==
    /\ state[c] = "open"
    /\ \E qty \in 1 .. Requested - done[c] :
          /\ done' = [done EXCEPT ![c] = @ + qty]
          /\ state' = [state EXCEPT ![c] = IF done'[c] = Requested THEN "filled" ELSE @]
          /\ Push(c, [cid |-> c, status |-> state'[c],
                      qty |-> IF feed = "delta" THEN qty ELSE done'[c]])
    /\ UNCHANGED <<feed, answer, trackerVars, callVars>>

\* The rest of an immediate-or-cancel order is canceled or expires.
VenueCancels(c) ==
    /\ state[c] = "open"
    /\ state' = [state EXCEPT ![c] = "canceled"]
    /\ Push(c, [cid |-> c, status |-> "canceled",
                qty |-> IF feed = "delta" THEN 0 ELSE done[c]])
    /\ UNCHANGED <<feed, done, answer, trackerVars, callVars>>

\* The answer shows the order as it is now; it may reach the driver much later.
\* Aster's has the executed quantity, when it has the average price too.  Whatever the
\* lookup finds counts as a success, a rejected order too.
VenueAnswers ==
    /\ call \in {"placing", "querying"}
    /\ answer = None
    /\ state[cid] \in Reached \cup {"rejected"}
    /\ \E filled \in IF feed = "delta" THEN {0, done[cid]} ELSE {0} :
          answer' = [NoOutcome EXCEPT
                        !.success = state[cid] # "rejected" \/ call = "querying",
                        !.status = IF state[cid] = "rejected" /\ call = "placing" THEN None
                                   ELSE IF feed = "delta" THEN state[cid] ELSE "open",
                        !.filled = filled]
    /\ UNCHANGED <<feed, state, done, streamVars, trackerVars, callVars>>

-----------------------------------------------------------------------------
(* LegOutcome and the tracker.                                             *)

\* LegOutcome.add, for totals as if they were fills of their own.
MutAdd(fill, event) ==
    LET old == IF fill = None THEN [filled |-> 0, last_status |-> None] ELSE fill
    IN  [filled |-> old.filled + event.qty,
         last_status |-> IF event.status \in Terminal THEN event.status
                         ELSE old.last_status]

\* LegOutcome.add: a snapshot overwrites, unless it has no fill; a delta accumulates.
Add(fill, event) ==
    LET old == IF fill = None THEN [filled |-> 0, last_status |-> None] ELSE fill
    IN  [filled |-> CASE feed = "delta" -> old.filled + event.qty
                      [] feed = "snapshot" /\ event.qty > 0 -> event.qty
                      [] OTHER -> old.filled,
         last_status |-> IF event.status \in Terminal THEN event.status
                         ELSE old.last_status]

\* LegOutcome.is_complete
Complete(fill) == fill.last_status \in Terminal \/ fill.filled >= Requested

Release(c) ==
    /\ slots' = slots \ {c}
    /\ woken' = woken \ {c}
    /\ fills' = [fills EXCEPT ![c] = None]

-----------------------------------------------------------------------------
(* submit_and_await, one action per stretch of code between awaits.        *)

\* register_fill_slot and the request leave in one stretch.
SubmitAndAwait ==
    /\ call = "idle"
    /\ cid < NOrders
    /\ cid' = cid + 1
    /\ call' = "placing"
    /\ answer' = None
    /\ slots' = slots \cup {cid'}
    /\ state' = [state EXCEPT ![cid'] = "sent"]
    /\ UNCHANGED <<feed, done, streamVars, woken, fills, outcome, report, untold>>

\* The call returns `result` and drops its slot.
Return(result) ==
    /\ report' = [report EXCEPT ![cid] = result]
    /\ call' = "idle"
    /\ outcome' = NoOutcome
    /\ answer' = None
    /\ Release(cid)
    /\ UNCHANGED cid

\* place_market_order returns, from the POST or from the lookup: a success goes on
\* to await_fill, a failure is the result.
PlaceReturns ==
    /\ call \in {"placing", "querying"}
    /\ answer # None
    /\ IF answer.success
       THEN /\ outcome' = answer
            /\ call' = "waiting"
            /\ UNCHANGED <<cid, answer, report, trackerVars>>
       ELSE Return(NoOutcome)
    /\ UNCHANGED <<feed, state, done, streamVars, untold>>

\* A timed-out request is a failed order.
MutPostTimesOut ==
    /\ call = "placing" /\ feed = "delta"
    /\ Return(NoOutcome)
    /\ UNCHANGED <<feed, state, done, streamVars, untold>>

\* Aster answers 400 "timed out" for an order it may have: the driver looks it up.
PostTimesOut ==
    /\ call = "placing" /\ feed = "delta"
    /\ call' = "querying"
    /\ answer' = None
    /\ UNCHANGED <<feed, state, done, streamVars, trackerVars, cid, outcome, report, untold>>

\* No answer comes, the lookup fails, or it is made before the order arrives.
PlaceFails ==
    /\ call \in {"placing", "querying"}
    /\ untold' = untold \cup {cid}
    /\ Return(NoOutcome)
    /\ UNCHANGED <<feed, state, done, streamVars>>

\* What submit_and_await makes of the answer and of what the stream brought.
Merge(ws) ==
    IF ws = None THEN outcome
    ELSE [outcome EXCEPT
            !.filled = IF ws.filled >= @ /\ ws.filled > 0 THEN ws.filled ELSE @,
            !.status = IF ws.last_status \in Terminal THEN ws.last_status ELSE @]

\* Takes an order that got any fill for a filled one.
MutFinish(ended) ==
    /\ call = "waiting"
    /\ Return([Merge(fills[cid]) EXCEPT
                 !.ended = ended,
                 !.status = IF Merge(fills[cid]).filled > 0 THEN "filled" ELSE @])
    /\ UNCHANGED <<feed, state, done, streamVars, untold>>

Finish(ended) ==
    /\ call = "waiting"
    /\ Return([Merge(fills[cid]) EXCEPT !.ended = ended])
    /\ UNCHANGED <<feed, state, done, streamVars, untold>>

\* The Event is set: await_terminal looks at the total and returns or waits again.
Wake ==
    /\ call = "waiting"
    /\ cid \in woken
    /\ IF Complete(fills[cid])
       THEN Finish("complete")
       ELSE /\ woken' = woken \ {cid}
            /\ UNCHANGED <<feed, venueVars, streamVars, slots, fills, callVars>>

\* The deadline counts only once something has landed.
MutWaitTimesOut == call = "waiting" /\ fills[cid] # None /\ Finish("timeout")

\* The deadline passes; what landed by then is used, even if nobody looked at it.
WaitTimesOut == Finish("timeout")

-----------------------------------------------------------------------------
(* The user stream.                                                        *)

\* Sets the Event for a call that sleeps already, and not for one still placing.
MutOnEvent(event) ==
    IF event.cid \in slots
    THEN /\ fills' = [fills EXCEPT ![event.cid] = Add(@, event)]
         /\ woken' = IF call = "waiting" THEN woken \cup {event.cid} ELSE woken
         /\ UNCHANGED slots
    ELSE UNCHANGED trackerVars

\* The tracker takes events of registered orders only.
OnEvent(event) ==
    IF event.cid \in slots
    THEN /\ fills' = [fills EXCEPT ![event.cid] = Add(@, event)]
         /\ woken' = woken \cup {event.cid}
         /\ UNCHANGED slots
    ELSE UNCHANGED trackerVars

\* Aster's driver drops an event without a fill before the tracker sees it.
DeliverEvent ==
    /\ pushes # <<>>
    /\ Head(pushes).cid \in Cids
    /\ pushes' = Tail(pushes)
    /\ IF feed = "delta" /\ Head(pushes).qty = 0
       THEN UNCHANGED trackerVars
       ELSE OnEvent(Head(pushes))
    /\ UNCHANGED <<feed, venueVars, link, listen_key, breaks, lost, deaf, callVars>>

\* A closed connection takes the events on their way with it.
Drop ==
    /\ link' = "down"
    /\ pushes' = <<>>
    /\ lost' = lost \cup ({e.cid : e \in {pushes[i] : i \in DOMAIN pushes}} \cap Cids)

\* listenKeyExpired: a new key and a new connection.  When the request for the key
\* fails, the loop reconnects with the old one.
MutRotate ==
    /\ pushes # <<>> /\ Head(pushes) = Notice
    /\ Drop
    /\ UNCHANGED <<deaf, listen_key>>
    /\ UNCHANGED <<feed, venueVars, breaks, trackerVars, callVars>>

Rotate ==
    /\ pushes # <<>> /\ Head(pushes) = Notice
    /\ Drop
    /\ \/ listen_key' = "fresh" /\ UNCHANGED deaf
       \/ deaf' = TRUE /\ UNCHANGED listen_key
    /\ UNCHANGED <<feed, venueVars, breaks, trackerVars, callVars>>

\* Keepalives failed and the venue ends the key; it tells who is connected.
KeyExpires ==
    /\ feed = "delta" /\ listen_key = "fresh"
    /\ listen_key' = "expired"
    /\ IF link = "up"
       THEN /\ Len(pushes) < MaxPushes
            /\ pushes' = Append(pushes, Notice)
            /\ UNCHANGED deaf
       ELSE /\ deaf' = TRUE
            /\ UNCHANGED pushes
    /\ UNCHANGED <<feed, venueVars, link, breaks, lost, trackerVars, callVars>>

StreamBreaks ==
    /\ link = "up"
    /\ breaks < MaxBreaks
    /\ breaks' = breaks + 1
    /\ Drop
    /\ deaf' = (deaf \/ \E i \in DOMAIN pushes : pushes[i] = Notice)
    /\ UNCHANGED <<feed, venueVars, listen_key, trackerVars, callVars>>

\* Lighter's subscription starts with the orders the venue still has open.
StreamReconnects ==
    /\ link = "down"
    /\ link' = "up"
    /\ \/ pushes' = <<>>
       \/ /\ feed = "snapshot"
          /\ \E c \in Cids :
                /\ state[c] \in Reached
                /\ pushes' = <<[cid |-> c, qty |-> done[c], status |-> state[c]]>>
    /\ UNCHANGED <<feed, venueVars, listen_key, breaks, lost, deaf, trackerVars, callVars>>

-----------------------------------------------------------------------------
OrderWaitNext ==
    \/ \E c \in Cids : VenueReceives(c) \/ VenueFills(c) \/ VenueCancels(c)
    \/ VenueAnswers
    \/ SubmitAndAwait \/ PlaceReturns \/ PostTimesOut \/ PlaceFails
    \/ Wake \/ WaitTimesOut
    \/ DeliverEvent \/ Rotate
    \/ KeyExpires \/ StreamBreaks \/ StreamReconnects

\* The HTTP client's and the sender's own timeouts end a request, await_terminal has a
\* deadline, the read loop takes what arrives and reconnects after its backoff.
OrderWaitFairness ==
    /\ WF_waitVars(PlaceFails)
    /\ WF_waitVars(WaitTimesOut)
    /\ WF_waitVars(DeliverEvent \/ Rotate)
    /\ WF_waitVars(StreamReconnects)

OrderWaitSpec == OrderWaitInit /\ [][OrderWaitNext]_waitVars /\ OrderWaitFairness

-----------------------------------------------------------------------------
(* Properties.                                                             *)

Returned(c) == report[c] # None

\* No call reports more than its order executed: not with totals that arrive again
\* after a reconnect, not with fills of an earlier order, not with the answer and the
\* stream added up.  And a wait that ended because the order was complete reports all
\* of its fills, unless a push was lost.
ReportsWhatFilled ==
    \A c \in Cids : Returned(c) =>
        /\ report[c].filled <= done[c]
        /\ report[c].ended = "complete" /\ c \notin lost => report[c].filled = done[c]

\* A terminal status in a report is the order's state, now and for good: neither the
\* answer nor the stream can call an order settled that may still fill.
StatusIsFinal ==
    \A c \in Cids :
        Returned(c) /\ report[c].status \in Terminal => state[c] = report[c].status

\* An order whose call failed has executed nothing, unless no answer about it came:
\* a request that timed out at the venue is looked up first.
FailedMeansNothingDone ==
    \A c \in Cids :
        Returned(c) /\ ~report[c].success /\ c \notin untold => done[c] = 0

\* While the call sleeps on its Event, what it waits for has not happened: no fill
\* that landed during the POST, or between a look and the next sleep, goes unseen.
NoLostWakeup ==
    call = "waiting" /\ cid \notin woken /\ fills[cid] # None
        => ~Complete(fills[cid])

\* Every submit_and_await returns.
CallEnds == (call # "idle") ~> (call = "idle")

\* A broken or expired stream is restored, unless the driver was not told.
StreamHeals ==
    (link = "down" \/ listen_key = "expired")
        ~> (link = "up" /\ listen_key = "fresh") \/ deaf
=============================================================================
